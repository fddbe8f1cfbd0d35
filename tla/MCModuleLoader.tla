--------------------------- MODULE MCModuleLoader ---------------------------
(* A project for ModuleLoader: an entry and a second importer ask a barrel    *)
(* for different names, the barrel re-exports from a file and from a second   *)
(* barrel, and edits bring in a lazily imported file, a conflict between an    *)
(* external and an internal import, and files that do not parse.              *)
EXTENDS ModuleLoader

Record(to, kind, names) ==
    [to |-> to, kind |-> kind, names |-> names, star |-> FALSE, direct |-> FALSE,
     external |-> FALSE]
ImportOf(to, names) == Record(to, "import", names)
ReExport(to, names) == [ImportOf(to, names) EXCEPT !.direct = TRUE]
ExportStar(to) == [ImportOf(to, {}) EXCEPT !.star = TRUE]
ExternalImport(to) == [ImportOf(to, {}) EXCEPT !.external = TRUE]
DynamicImport(to) == Record(to, "dynamic", {})
File(recs) == [NoSource EXCEPT !.recs = recs]
Broken(src) == [src EXCEPT !.ok = FALSE]
From(rec, name) == [rec |-> rec, imported |-> {name}]

MCIds == {"e", "m", "b", "x", "y", "n"}
MCEntries == <<"e">>

Barrel ==
    [File(<<ReExport("x", {"a", "c"}), ExportStar("y"), ImportOf("n", {"h"})>>) EXCEPT
       !.barrel = TRUE, !.local = {"l"},
       !.named = [name \in {"p", "r"} |-> From(1, IF name = "p" THEN "a" ELSE "c")]]
InnerBarrel ==
    [File(<<ReExport("x", {"d"})>>) EXCEPT
       !.barrel = TRUE, !.named = [name \in {"q"} |-> From(1, "d")]]

MCContents ==
    [id \in MCIds |->
       CASE id = "e" -> <<File(<<ImportOf("b", {"p"}), ImportOf("m", {})>>),
                          File(<<ImportOf("m", {}), ImportOf("b", {"r"}), DynamicImport("n")>>)>>
         [] id = "m" -> <<File(<<ImportOf("b", {"q"})>>),
                          [File(<<ImportOf("b", {"l"}), DynamicImport("y")>>) EXCEPT !.tla = TRUE],
                          File(<<ExternalImport("x")>>)>>
         [] id = "b" -> <<Barrel, Broken(Barrel)>>
         [] id = "x" -> <<NoSource, [NoSource EXCEPT !.tla = TRUE]>>
         [] id = "y" -> <<InnerBarrel>>
         [] id = "n" -> <<[File(<<ImportOf("m", {})>>) EXCEPT !.loads = <<"y", "x">>, !.emits = <<"x">>],
                          Broken(NoSource), [NoSource EXCEPT !.emits = <<"gone">>]>>]

\* An entry moves its import of x into a new file n that does not parse.
MovedIds == {"e", "n", "x"}
MovedContents ==
    [id \in MovedIds |->
       CASE id = "e" -> <<File(<<ImportOf("x", {})>>), File(<<ImportOf("n", {})>>)>>
         [] id = "n" -> <<Broken(NoSource), File(<<ImportOf("x", {})>>)>>
         [] id = "x" -> <<NoSource, [NoSource EXCEPT !.tla = TRUE]>>]

\* A file whose transformAst hook loads the type-only import x, before and after
\* an edit.
TypedIds == {"e", "x"}
TypedContents ==
    [id \in TypedIds |->
       CASE id = "e" -> LET src == [File(<<ImportOf("x", {})>>) EXCEPT !.loads = <<"x">>]
                        IN <<src, [src EXCEPT !.tla = TRUE]>>
         [] id = "x" -> <<NoSource>>]
=============================================================================
