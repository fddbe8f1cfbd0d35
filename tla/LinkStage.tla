----------------------------- MODULE LinkStage -----------------------------
(***************************************************************************)
(* The first passes of the link stage                                      *)
(* (crates/rolldown/src/stages/link_stage): the execution order, which     *)
(* modules await at top level, how each exports, which are wrapped and run *)
(* lazily, and which have side effects.  The graphs they walk have cycles, *)
(* and several passes mark modules while they walk.                        *)
(*                                                                         *)
(* A pass looks at one import record per step.  Where it is recursive, the *)
(* calls in progress are kept in a stack; where it has a worklist, a step  *)
(* takes one module from it.  A module is its index in the module table.   *)
(***************************************************************************)
EXTENDS ExecutionOrder, FiniteSets

CONSTANTS
    Families    \* families of projects, a tuple of sets: what the scan stage hands over, a
                \* module table, the user's entries and the options

AllKinds == {"import", "require", "dynamic"}

ImportRecord == [to : Modules, kind : AllKinds, star : BOOLEAN]

\* lazy: data that gets its exports late; effects: "some" and "none" may be what analysis
\* found, "declared" is what the user or a plugin says; usesModule: `module` or `exports`
\* occur in it.
ModuleInfo ==
    [normal : BOOLEAN, recs : Seq(ImportRecord), exports : {"none", "esm", "cjs"}, tla : BOOLEAN,
     effects : {"none", "some", "declared"}, lazy : {"no", "json", "other"},
     usesModule : BOOLEAN]

Options ==
    [splitting : BOOLEAN, format : {"esm", "cjs", "iife", "umd"}, strictGroups : BOOLEAN]

\* Module indexes are contiguous.
ASSUME ModulesAssumption == Cardinality(Modules) \in Nat /\ Modules = 1..Cardinality(Modules)

\* An external module imports nothing.  The runtime is an ES module, imports external modules
\* only, and is not asked for by require() or import().
ASSUME FamiliesAssumption ==
    \A f \in DOMAIN Families : \A p \in Families[f] :
        /\ p.table \in [Modules -> ModuleInfo] /\ p.options \in Options /\ p.user \in Seq(Modules)
        /\ \A m \in Modules : p.table[m].normal \/ p.table[m].recs = <<>>
        /\ p.table[Runtime].normal /\ p.table[Runtime].exports = "esm"
        /\ \A r \in DOMAIN p.table[Runtime].recs : ~p.table[p.table[Runtime].recs[r].to].normal
        /\ \A m \in Modules : \A r \in DOMAIN p.table[m].recs :
              p.table[m].recs[r].to = Runtime => p.table[m].recs[r].kind = "import"

VARIABLES
    phase,      \* the pass that is running
    cursor,     \* the module that pass looks at
    record,     \* the import record of that module that comes next, 0 for the module itself
    calls,      \* the calls of a recursive pass, the innermost last
    visited,    \* the modules that pass has visited, or has marked
    pending,    \* the worklist of that pass
    source,     \* the module that awaits, as find_tla_source found it for each module
    options,    \* splitting, format, and groups under strict execution order
    table,      \* the module table
    metas,      \* LinkingMetadata
    errors      \* <<module, required module, module that awaits>>

control == <<phase, cursor, record>>
walk == <<calls, visited, pending, source>>
vars == <<deps, entries, stack, executed, order, cycles, phase, cursor, record, calls, visited,
          pending, source, options, table, metas, errors>>

Records(m) == table[m].recs
Targets(m, kinds) ==
    {Records(m)[r].to : r \in {q \in DOMAIN Records(m) : Records(m)[q].kind \in kinds}}
IsEntry(m) == \E k \in DOMAIN entries : entries[k] = m

\* The elements of s at the places in chosen, in their order.
Select(s, chosen) ==
    LET upTo[k \in 0..Len(s)] ==
            IF k = 0 THEN <<>>
            ELSE IF k \in chosen THEN Append(upTo[k - 1], s[k]) ELSE upTo[k - 1]
    IN upTo[Len(s)]

\* The user's entries, then the modules that are imported dynamically.
EntriesOf(p) ==
    LET IsDynamic(m) ==
            \E k \in Modules : \E r \in DOMAIN p.table[k].recs :
                p.table[k].recs[r].to = m /\ p.table[k].recs[r].kind = "dynamic"
        IsUser(m) == \E k \in DOMAIN p.user : p.user[k] = m
    IN p.user \o Select([m \in Modules |-> m],
                        {m \in Modules : ~IsUser(m) /\ p.table[m].normal /\ IsDynamic(m)})

\* The records sort_modules follows.
DepsOf(recs, splitting) ==
    LET followed == Select(recs, {r \in DOMAIN recs : recs[r].kind # "dynamic" \/ ~splitting})
    IN [k \in DOMAIN followed |-> followed[k].to]

NoSource == 0

Init ==
    /\ \E f \in DOMAIN Families : \E p \in Families[f] :
          table = p.table /\ options = p.options /\ entries = EntriesOf(p)
    /\ deps = [m \in Modules |-> DepsOf(Records(m), options.splitting)]
    /\ SortInit
    /\ phase = "sort" /\ cursor = 1 /\ record = 0 /\ errors = {}
    /\ calls = <<>> /\ visited = {} /\ pending = {} /\ source = [m \in Modules |-> NoSource]
    /\ metas = [m \in Modules |->
                  [wrap |-> "none", required |-> FALSE, dynamicExports |-> FALSE, tla |-> FALSE]]

sort_modules ==
    /\ phase = "sort" /\ SortNext
    /\ UNCHANGED <<control, walk, options, table, metas, errors>>

\* link runs the passes one after the other: the one that ends hands over.
Enters(next) == phase' = next /\ cursor' = 1 /\ record' = 0 /\ visited' = {}

\* A pass that looks at the modules in the order of the table; the last one hands over.
NextModule(next) ==
    \/ /\ cursor + 1 \in Modules
       /\ phase' = phase /\ cursor' = cursor + 1 /\ record' = 0 /\ visited' = visited
    \/ cursor + 1 \notin Modules /\ Enters(next)

NextRecord == phase' = phase /\ cursor' = cursor /\ record' = record + 1

InRecords == table[cursor].normal /\ record \in DOMAIN Records(cursor)
RecordsDone == ~table[cursor].normal \/ record > Len(Records(cursor))

\* The call in progress, the calls when it has returned or has looked at a record.
Caller == calls[Len(calls)]
CallerInRecords == Caller.next \in DOMAIN Records(Caller.at)
CallerRecord == Records(Caller.at)[Caller.next]
Call(frames, m) == Append(frames, [at |-> m, next |-> 1])
Returned == SubSeq(calls, 1, Len(calls) - 1)
Continued == [calls EXCEPT ![Len(calls)].next = @ + 1]

sorted ==
    /\ phase = "sort" /\ stack = <<>>
    /\ Enters(IF \E m \in Modules : table[m].normal /\ table[m].tla THEN "tla" ELSE "exports")
    /\ UNCHANGED <<calls, pending, source, options, table, metas, errors, sortVars>>

-----------------------------------------------------------------------------
(* compute_tla                                                              *)

\* A first call for module m: its own await is the result, else its imports are searched.
FindTlaSource(m) ==
    /\ m \notin visited
    /\ visited' = visited \cup {m}
    /\ IF table[m].normal /\ table[m].tla
       THEN source' = [source EXCEPT ![m] = m] /\ calls' = calls
       ELSE source' = source /\ calls' = Call(calls, m)

\* The import that comes next was searched, or is being searched on a cycle.
ImportIsSettled == CallerRecord.kind = "import" /\ CallerRecord.to \in visited

\* One record of the module being searched: the first that leads to an await is the result.
find_tla_source ==
    /\ phase = "tla" /\ calls # <<>>
    /\ \/ CallerInRecords /\ CallerRecord.kind = "import" /\ FindTlaSource(CallerRecord.to)
       \/ /\ CallerInRecords /\ ImportIsSettled /\ source[CallerRecord.to] # NoSource
          /\ source' = [source EXCEPT ![Caller.at] = source[CallerRecord.to]]
          /\ calls' = Returned /\ visited' = visited
       \/ /\ CallerInRecords
          /\ CallerRecord.kind = "import" => ImportIsSettled /\ source[CallerRecord.to] = NoSource
          /\ calls' = Continued /\ UNCHANGED <<visited, source>>
       \/ ~CallerInRecords /\ calls' = Returned /\ UNCHANGED <<visited, source>>
    /\ UNCHANGED <<control, pending, options, table, metas, errors, sortVars>>

\* Variant: a require() call is checked against the module it names only.
ErrorsInNamed(m, rec) ==
    IF rec.kind = "require" /\ table[rec.to].tla THEN {<<m, rec.to, rec.to>>} ELSE {}

\* The error for a require() call that leads to an await.
ErrorsOf(m, rec) ==
    IF rec.kind = "require" /\ source[rec.to] # NoSource THEN {<<m, rec.to, source[rec.to]>>} ELSE {}

compute_tla ==
    /\ phase = "tla" /\ calls = <<>>
    /\ \/ /\ table[cursor].normal /\ record = 0 /\ FindTlaSource(cursor)
          /\ UNCHANGED <<control, metas, errors>>
       \/ /\ table[cursor].normal /\ record = 0 /\ cursor \in visited
          /\ metas' = [metas EXCEPT ![cursor].tla = source[cursor] # NoSource]
          /\ NextRecord /\ UNCHANGED <<walk, errors>>
       \/ /\ InRecords /\ Records(cursor)[record].kind = "require"
          /\ FindTlaSource(Records(cursor)[record].to)
          /\ UNCHANGED <<control, metas, errors>>
       \/ /\ InRecords
          /\ Records(cursor)[record].kind = "require" => Records(cursor)[record].to \in visited
          /\ errors' = errors \cup ErrorsOf(cursor, Records(cursor)[record])
          /\ NextRecord /\ UNCHANGED <<walk, metas>>
       \/ RecordsDone /\ NextModule("exports") /\ UNCHANGED <<calls, source, metas, errors>>
    /\ UNCHANGED <<pending, options, table, sortVars>>

-----------------------------------------------------------------------------
(* determine_module_exports_kind                                            *)

\* A record that makes the module it names run on demand.
Demands(rec) == rec.kind = "require" \/ (rec.kind = "dynamic" /\ ~options.splitting)

ExportsWith(rec) ==
    IF table[rec.to].exports # "none" THEN table[rec.to].exports
    ELSE IF Demands(rec) THEN "cjs"
    ELSE IF rec.kind = "import" /\ table[rec.to].lazy = "no" THEN "esm" ELSE "none"

\* What one record does to the module it names.
ApplyRecord(rec) ==
    /\ table' = IF table[rec.to].normal
                THEN [table EXCEPT ![rec.to].exports = ExportsWith(rec)] ELSE table
    /\ metas' = IF table[rec.to].normal /\ Demands(rec)
                THEN [metas EXCEPT ![rec.to].wrap = ExportsWith(rec)] ELSE metas

\* A CommonJS module that cannot be rendered as it is.
NeedsCjsWrapper(m) ==
    /\ table[m].normal /\ table[m].exports = "cjs"
    /\ \/ ~IsEntry(m)
       \/ options.format = "esm"
       \/ options.format \in {"iife", "umd"} /\ table[m].usesModule

determine_module_exports_kind ==
    /\ phase = "exports"
    /\ \/ record = 0 /\ NextRecord /\ UNCHANGED <<visited, table, metas>>
       \/ /\ InRecords /\ ApplyRecord(Records(cursor)[record])
          /\ NextRecord /\ UNCHANGED visited
       \/ /\ record # 0 /\ RecordsDone
          /\ metas' = IF NeedsCjsWrapper(cursor) THEN [metas EXCEPT ![cursor].wrap = "cjs"] ELSE metas
          /\ NextModule("stars") /\ UNCHANGED table
    /\ UNCHANGED <<calls, pending, source, options, errors, sortVars>>

-----------------------------------------------------------------------------
(* wrap_modules                                                             *)

Stars(m) == {Records(m)[r].to : r \in {q \in DOMAIN Records(m) : Records(m)[q].star}}
Exporting == {m \in Modules : table[m].normal /\ Stars(m) # {}}
StarImporters(d) == {m \in Exporting : d \in Stars(m) \ {m}}

\* Modules whose exports are known only when they run: CommonJS ones that export others, and
\* those and externals that others export.
MarkedFirst ==
    LET IsDynamic(m) == ~table[m].normal \/ table[m].exports = "cjs"
    IN {m \in Exporting : table[m].exports = "cjs"}
         \cup {d \in UNION {Stars(m) \ {m} : m \in Exporting} : IsDynamic(d)}

MarkDynamic(S) ==
    metas' = [m \in Modules |-> [metas[m] EXCEPT !.dynamicExports = @ \/ m \in S]]

mark_star_exports ==
    /\ phase = "stars"
    /\ MarkDynamic(MarkedFirst) /\ pending' = MarkedFirst
    /\ Enters("reexports")
    /\ UNCHANGED <<calls, source, options, table, errors, sortVars>>

\* The worklist: every module is marked, and its importers looked at, once.
determine_has_dynamic_exports ==
    /\ phase = "reexports"
    /\ \/ /\ \E m \in pending :
                LET added == {k \in StarImporters(m) : ~metas[k].dynamicExports}
                IN MarkDynamic(added) /\ pending' = (pending \ {m}) \cup added
          /\ UNCHANGED <<control, visited>>
       \/ pending = {} /\ Enters("wrap") /\ UNCHANGED <<pending, metas>>
    /\ UNCHANGED <<calls, source, options, table, errors, sortVars>>

\* wrap_module_recursively does not go beyond these.
Ends == {m \in Modules : ~table[m].normal \/ m = Runtime}

\* Variant: a module that has a wrapper counts as visited.
EnteredUnwrapped(m) == m \notin visited \cup Ends /\ metas[m].wrap = "none"

\* A call for module m looks at its records.
Entered(m) == m \notin visited \cup Ends

\* The wrapper of m: the kind it has, or the one its exports need.
WrapFor(m) ==
    IF metas[m].wrap # "none" THEN metas[m].wrap
    ELSE IF table[m].exports = "cjs" THEN "cjs" ELSE "esm"

\* The call for module m, from a record that is a require() call or not.
WrapModuleRecursively(frames, m, required) ==
    /\ visited' = visited \cup {m}
    /\ metas' = [metas EXCEPT ![m].wrap = IF Entered(m) THEN WrapFor(m) ELSE @,
                              ![m].required = @ \/ required]
    /\ calls' = IF Entered(m) THEN Call(frames, m) ELSE frames

wrap_module_recursively ==
    /\ phase = "wrap" /\ calls # <<>>
    /\ \/ /\ CallerInRecords
          /\ WrapModuleRecursively(Continued, CallerRecord.to, CallerRecord.kind = "require")
       \/ ~CallerInRecords /\ calls' = Returned /\ UNCHANGED <<visited, metas>>
    /\ UNCHANGED <<control, pending, source, options, table, errors, sortVars>>

\* A module without a wrapper: the CommonJS modules it depends on are wrapped.
WrapCjsImportee(rec) ==
    IF table[rec.to].normal /\ table[rec.to].exports = "cjs"
    THEN WrapModuleRecursively(calls, rec.to, rec.kind = "require")
    ELSE /\ metas' = [metas EXCEPT ![rec.to].required =
                        @ \/ (table[rec.to].normal /\ rec.kind = "require")]
         /\ UNCHANGED <<visited, calls>>

wrap_modules ==
    /\ phase = "wrap" /\ calls = <<>>
    /\ \/ /\ table[cursor].normal /\ record = 0 /\ metas[cursor].wrap # "none"
          /\ WrapModuleRecursively(calls, cursor, FALSE)
          /\ record' = Len(Records(cursor)) + 1 /\ UNCHANGED <<phase, cursor>>
       \/ /\ table[cursor].normal /\ record = 0 /\ metas[cursor].wrap = "none"
          /\ NextRecord /\ UNCHANGED <<calls, visited, metas>>
       \/ InRecords /\ WrapCjsImportee(Records(cursor)[record]) /\ NextRecord
       \/ RecordsDone /\ NextModule("strict") /\ UNCHANGED <<calls, metas>>
    /\ UNCHANGED <<pending, source, options, table, errors, sortVars>>

\* Under strict execution order with groups every CommonJS module is wrapped.
wrap_all_cjs ==
    /\ phase = "strict"
    /\ metas' = [m \in Modules |->
                   IF options.strictGroups /\ table[m].normal /\ table[m].exports = "cjs"
                   THEN [metas[m] EXCEPT !.wrap = "cjs"] ELSE metas[m]]
    /\ Enters("lazy")
    /\ UNCHANGED <<calls, pending, source, options, table, errors, sortVars>>

\* Data that gets its exports now: JSON loses its wrapper, it runs no code.
generate_lazy_export ==
    /\ phase = "lazy"
    /\ LET Generated(m) == table[m].normal /\ table[m].lazy # "no" /\ table[m].exports # "cjs"
       IN /\ table' = [m \in Modules |->
                         IF Generated(m) THEN [table[m] EXCEPT !.exports = "esm"] ELSE table[m]]
          /\ metas' = [m \in Modules |->
                         IF Generated(m) /\ table[m].lazy = "json"
                         THEN [metas[m] EXCEPT !.wrap = "none"] ELSE metas[m]]
    /\ Enters("effects")
    /\ UNCHANGED <<calls, pending, source, options, errors, sortVars>>

-----------------------------------------------------------------------------
(* determine_side_effects                                                   *)

\* Analyzed(false); a verdict the user or a plugin gave is never changed.
Analyzed(m) == table[m].normal /\ table[m].effects = "none"

\* `export *` of a module that is wrapped, or whose exports are found at run time.
ReexportsAtRunTime(m) ==
    \E d \in Stars(m) : table[d].normal /\ (metas[d].wrap # "none" \/ metas[d].dynamicExports)

Dependents(d) == {m \in Modules : Analyzed(m) /\ d \in Targets(m, AllKinds)}

OwnEffects == {m \in Modules : table[m].effects = "some" \/ (Analyzed(m) /\ ReexportsAtRunTime(m))}

mark_own_effects ==
    /\ phase = "effects" /\ phase' = "importers" /\ cursor' = 1 /\ record' = 0
    /\ visited' = OwnEffects /\ pending' = OwnEffects
    /\ UNCHANGED <<calls, source, options, table, metas, errors, sortVars>>

\* Variant: importers are marked, but their own importers not looked at.
PropagateOnce(m) ==
    visited' = visited \cup Dependents(m) /\ pending' = pending \ {m}

\* Every module enters the worklist at most once.
Propagate(m) ==
    LET added == Dependents(m) \ visited
    IN visited' = visited \cup added /\ pending' = (pending \ {m}) \cup added

determine_side_effects ==
    /\ phase = "importers"
    /\ \/ (\E m \in pending : Propagate(m)) /\ UNCHANGED <<control, table>>
       \/ /\ pending = {} /\ Enters("bind") /\ UNCHANGED pending
          /\ table' = [m \in Modules |->
                         IF Analyzed(m) /\ m \in visited THEN [table[m] EXCEPT !.effects = "some"]
                         ELSE table[m]]
    /\ UNCHANGED <<calls, source, options, metas, errors, sortVars>>

\* The passes that follow are not part of the model.
linked == phase = "bind" /\ UNCHANGED vars

Next ==
    \/ sort_modules \/ sorted \/ compute_tla \/ find_tla_source \/ determine_module_exports_kind
    \/ mark_star_exports \/ determine_has_dynamic_exports \/ wrap_modules \/ wrap_module_recursively
    \/ wrap_all_cjs \/ generate_lazy_export \/ mark_own_effects \/ determine_side_effects \/ linked

Spec == Init /\ [][Next]_vars

-----------------------------------------------------------------------------
(* Properties                                                               *)

\* What the modules of S lead to, when m leads to the modules in next[m].
Via(next, S) ==
    {m \in Modules : \A T \in SUBSET Modules :
        S \subseteq T /\ (\A k \in T : next[k] \subseteq T) => m \in T}

Imported == [m \in Modules |-> Targets(m, {"import"})]
AwaitsFrom(m) == {a \in Via(Imported, {m}) : table[a].normal /\ table[a].tla}
InCycle(m) == m \in Via(Imported, Imported[m])
LeadsToCycle(m) == \E c \in Via(Imported, {m}) : InCycle(c)

\* compute_tla marks a module, and reports its require() calls, only when a module it
\* imports really awaits, and misses none that leads to no import cycle.  On a cycle
\* that leads to an await some module is marked: the search may take the others for
\* settled too early, as the comment at compute_tla.rs:32 admits.
AwaitsAreFound ==
    phase \notin {"sort", "tla"} =>
        /\ \A m \in Modules : metas[m].tla => AwaitsFrom(m) # {}
        /\ \A m \in Modules : table[m].normal /\ AwaitsFrom(m) # {} =>
              \E c \in Modules :
                  /\ metas[c].tla
                  /\ c = m \/ (LeadsToCycle(m) /\ c \in Via(Imported, {m}))
        /\ \A e \in errors : e[2] \in Targets(e[1], {"require"}) /\ e[3] \in AwaitsFrom(e[2])
        /\ \A m, d \in Modules :
              d \in Targets(m, {"require"}) /\ AwaitsFrom(d) # {} /\ ~LeadsToCycle(d) =>
                  \E e \in errors : e[1] = m /\ e[2] = d

\* The modules that must run on demand, whatever the order the passes met them in.
OnDemand ==
    {d \in Modules : \E m \in Modules :
        \/ d \in Targets(m, IF options.splitting THEN {"require"} ELSE {"require", "dynamic"})
        \/ d \in Targets(m, AllKinds) /\ table[d].exports = "cjs"
        \/ d = m /\ NeedsCjsWrapper(m)}

IsJson(m) == table[m].lazy = "json" /\ table[m].exports # "cjs"

\* When the wrappers are settled a module is wrapped exactly when it runs on demand or a
\* module that does imports it, directly or not, cycles included: the module would else
\* run before its importer is asked for.  JSON runs no code and is never wrapped as an
\* ES module.  The wrapper is the one the module's exports need, although importers
\* promote the exports of their importees while the wrappers are being chosen.
WrappersAreClosed ==
    phase \in {"effects", "importers", "bind"} =>
        LET lazily == Via([m \in Modules |-> IF m \in Ends THEN {} ELSE Targets(m, AllKinds)], OnDemand)
            strict == {m \in Modules : options.strictGroups /\ table[m].normal /\ table[m].exports = "cjs"}
        IN \A m \in Modules :
              /\ metas[m].wrap # "none" <=>
                    (m \in lazily \ Ends /\ ~IsJson(m)) \/ m \in strict
              /\ metas[m].wrap # "none" => (metas[m].wrap = "cjs" <=> table[m].exports = "cjs")

\* The verdicts of determine_side_effects: a module without effects of its own gets some
\* exactly when its imports lead, through other such modules, to one that has them; a
\* cycle member is not taken for pure because the walk met it first.
EffectsReachImporters ==
    [][phase = "importers" /\ phase' # phase =>
         LET through == [m \in Modules |-> IF Analyzed(m) THEN Targets(m, AllKinds) ELSE {}]
         IN \A m \in Modules :
               table'[m].effects = "some" <=>
                   \/ table[m].effects = "some"
                   \/ /\ Analyzed(m)
                      /\ \E d \in Via(through, {m}) :
                            table[d].effects = "some" \/ (Analyzed(d) /\ ReexportsAtRunTime(d))]_vars
=============================================================================
