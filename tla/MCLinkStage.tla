---------------------------- MODULE MCLinkStage ----------------------------
(* Graphs of three modules beside the runtime, the first of them the entry. *)
EXTENDS LinkStage

ModulesDef == 1..4
RuntimeDef == 1

Plain == [normal |-> TRUE, recs |-> <<>>, exports |-> "esm", tla |-> FALSE, effects |-> "none",
          lazy |-> "no", usesModule |-> FALSE]

Option(s, f, g) == [splitting |-> s, format |-> f, strictGroups |-> g]

\* imports gives pairs of modules the kind of the record between them; the records
\* of a module come in the order of their targets.
RecordsOf(imports, m) ==
    LET to == SelectSeq([k \in 1..4 |-> k],
                        LAMBDA k : <<m, k>> \in DOMAIN imports /\ imports[<<m, k>>] # "no")
        Record(k) == [to |-> k, star |-> imports[<<m, k>>] = "star",
                      kind |-> IF imports[<<m, k>>] = "star" THEN "import" ELSE imports[<<m, k>>]]
    IN [r \in DOMAIN to |-> Record(to[r])]

\* All combinations of imports, modules and options.
Family(allImports, allModules, allOptions) ==
    {[table |-> [m \in 1..4 |-> [modules[m] EXCEPT !.recs = RecordsOf(imports, m)]],
      user |-> <<2>>, options |-> given] :
        imports \in allImports, modules \in allModules, given \in allOptions}

\* Every graph of imports, require() calls and dynamic imports, with an await.
Awaits ==
    Family([{<<2, 3>>, <<2, 4>>, <<3, 2>>, <<3, 4>>, <<4, 2>>, <<4, 3>>}
              -> {"no", "import", "require", "dynamic"}],
           {[m \in 1..4 |-> [Plain EXCEPT !.tla = (m = 4)]]},
           {Option(TRUE, "esm", FALSE)})

\* Module kinds, formats and JSON, on smaller graphs.
Kinds ==
    Family([{<<2, 3>>, <<2, 4>>, <<3, 4>>, <<4, 3>>} -> {"no", "import", "require"}],
           {[m \in 1..4 |-> IF m = 1 THEN Plain
                            ELSE [Plain EXCEPT !.exports = kinds[m], !.usesModule = (m = 2),
                                    !.lazy = IF m = 4 /\ kinds[4] = "none" THEN lazy ELSE "no"]] :
              kinds \in [2..4 -> {"none", "esm", "cjs"}], lazy \in {"json", "other"}},
           {Option(TRUE, "esm", FALSE), Option(FALSE, "iife", FALSE), Option(TRUE, "cjs", TRUE)})

\* Star exports, dynamic imports and side effects.
Effects ==
    Family([{<<2, 3>>, <<3, 2>>, <<3, 4>>} -> {"no", "import", "star", "dynamic"}],
           {<<Plain, Plain, [Plain EXCEPT !.effects = declared], last>> :
              declared \in {"none", "declared"},
              last \in {[Plain EXCEPT !.effects = "some"], [Plain EXCEPT !.normal = FALSE],
                        [Plain EXCEPT !.exports = "cjs"]}},
           {Option(s, "cjs", FALSE) : s \in BOOLEAN})

\* The runtime of the node platform, which imports an external module.
Node ==
    Family({[imports EXCEPT ![<<1, 4>>] = "import"] :
              imports \in [{<<1, 4>>, <<2, 3>>, <<2, 4>>, <<3, 2>>, <<3, 4>>} -> {"no", "import", "star"}]},
           {<<Plain, Plain, Plain, [Plain EXCEPT !.normal = FALSE]>>},
           {Option(TRUE, "esm", FALSE)})

FamiliesDef == <<Awaits, Kinds, Effects, Node>>
=============================================================================
