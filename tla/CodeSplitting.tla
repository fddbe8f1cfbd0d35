--------------------------- MODULE CodeSplitting ---------------------------
(***************************************************************************)
(* Code splitting: which chunk every module goes to, as GenerateStage      *)
(* decides in split_chunks (crates/rolldown/src/stages/generate_stage).    *)
(* Modules are marked with the entries that reach them; a mark is taken    *)
(* back where the module is loaded anyway before the entry is; modules     *)
(* with equal marks share a chunk; common chunks are merged into entry     *)
(* chunks, and entry chunks that end up empty are dropped.  A page then    *)
(* loads an entry and the dynamic imports of what it runs.                 *)
(*                                                                         *)
(* An entry chunk has the number of its entry; the common chunks follow.   *)
(* Modules are ES modules without top-level await.  A module has exports   *)
(* or side effects, and what it exports is used by all that import it;     *)
(* nothing is re-exported, and no module is both given by the user and     *)
(* imported dynamically.  There are no groups, no emitted chunks, no       *)
(* strict execution order and no runtime module, and package.json says     *)
(* nothing about side effects.                                             *)
(***************************************************************************)
EXTENDS Naturals, FiniteSets, SequencesExt

CONSTANTS
    Modules,    \* the module table, numbers
    Projects    \* the modules given by the user, their imports, and the options (see Init)

VARIABLES
    project,    \* the modules, their imports, and the options
    link,       \* link_output: what the link stage found out about them
    phase,      \* the pass that comes next
    cursor,     \* the atom or candidate that pass looks at
    bits,       \* the entries that reach each module
    atoms,      \* modules with equal bits, while bits are being reduced
    candidates, \* ChunkOptimizationGraph: the chunks, those to be created too
    targets,    \* the entry chunk each candidate is to be merged into
    home,       \* module_to_chunk
    linked,     \* imports_from_other_chunks that merging wrote
    removed,    \* chunks with post_chunk_optimization_operations
    entryChunk, \* entry_module_to_entry_chunk, by entry
    asked       \* the entries the page has loaded

vars == <<project, link, phase, cursor, bits, atoms, candidates, targets, home, linked, removed,
          entryChunk, asked>>

None == 0

Image(relation, S) == {pair[2] : pair \in {q \in relation : q[1] \in S}}

\* What S leads to.
RECURSIVE Closure(_, _)
Closure(relation, S) ==
    LET T == S \cup Image(relation, S) IN IF T = S THEN S ELSE Closure(relation, T)

\* sorted_modules: the modules as the walk over the entries leaves them.
RECURSIVE Visit(_, _, _)
Visit(imports, walk, m) ==
    IF m \in walk.seen THEN walk
    ELSE LET Below(w, d) == Visit(imports, w, d)
             below == FoldLeft(Below, [walk EXCEPT !.seen = @ \cup {m}],
                               SetToSortSeq(Image(imports, {m}), LAMBDA a, b : a < b))
         IN [below EXCEPT !.order = Append(@, m)]

\* The dynamic entries by their names, sorted again for the entries: those that lead to each
\* other, or to none and from none, first, as named, the others before what they lead to
\* (sort_dynamic_entries_by_topological_order).
EntryOrders(p, named) ==
    LET dynamics == ToSet(named)
        leads == UNION {{d} \X Image(p.dynamic, Closure(p.static, {d})) : d \in dynamics}
        Leads(a, b) == b \in Closure(leads, Image(leads, {a}))
        Cycled(a) == \E b \in dynamics \ {a} : Leads(a, b) /\ Leads(b, a)
        Unsorted(a) == Cycled(a) \/ ~\E b \in dynamics \ {a} : Leads(a, b) \/ Leads(b, a)
        NamedFirst(a, b) == \E i, j \in DOMAIN named : i < j /\ named[i] = a /\ named[j] = b
        Ordered(a, b) == IF Unsorted(a) THEN Unsorted(b) => NamedFirst(a, b)
                         ELSE ~(Unsorted(b) \/ Leads(b, a))
    IN {s \in SetToSeqs(dynamics) : \A i, j \in DOMAIN s : i < j => Ordered(s[i], s[j])}

\* Every import is needed, so what the entries lead to is included (is_included), and a module
\* has side effects if one it leads to has (side_effects(), see LinkStage).
LinkOutputs(p) ==
    LET all == p.static \cup p.dynamic
        included == Closure(all, p.user)
        users == SetToSortSeq(p.user, LAMBDA a, b : a < b)
        Walk(w, m) == Visit(p.static, w, m)
        Output(named, order) ==
            [entries |-> users \o order,
             included |-> included,
             reach |-> [m \in Modules |-> Closure(p.static, {m})],
             leads |-> [m \in Modules |-> Closure(all, Image(all, {m}))],
             effects |-> {m \in Modules : Closure(all, {m}) \cap p.effects # {}},
             sorted |-> FoldLeft(Walk, [seen |-> {}, order |-> <<>>], users \o named).order]
    IN UNION {{Output(named, order) : order \in EntryOrders(p, named)} :
                named \in SetToSeqs(Image(p.dynamic, included) \ p.user)}

entries == link.entries
Entries == DOMAIN entries
Included == link.included
Static(S) == Image(project.static, S)
IsUser(e) == entries[e] \in project.user

\* A project: modules given by the user, pairs of modules with a static or a dynamic import,
\* modules with side effects of their own, modules with exports, user's entries whose
\* signature is strict, dynamic entries with a `then` export, and the two options.
Init ==
    /\ project \in Projects
    /\ link \in LinkOutputs(project)
    /\ phase = "reach" /\ cursor = 1
    /\ bits = [m \in Modules |-> {}]
    /\ atoms = <<>> /\ candidates = <<>> /\ targets = <<>>
    /\ home = [m \in Modules |-> None]
    /\ linked = {} /\ removed = {} /\ asked = {}
    /\ entryChunk = [e \in Entries |-> e]

-----------------------------------------------------------------------------
(* determine_reachable_modules_for_entry, for every entry                   *)

determine_reachable_modules ==
    /\ phase = "reach"
    /\ bits' = [m \in Modules |-> {e \in Entries : m \in link.reach[entries[e]]}]
    /\ phase' = IF project.avoid /\ \E e \in Entries : ~IsUser(e) THEN "group" ELSE "assign"
    /\ UNCHANGED <<project, link, cursor, atoms, candidates, targets, home, linked, removed,
                   entryChunk, asked>>

-----------------------------------------------------------------------------
(* optimize_dynamic_entry_bits                                              *)

\* The distinct bits, in the order modules have them.
DistinctBits ==
    LET Add(seq, m) == IF Contains(seq, bits[m]) THEN seq ELSE Append(seq, bits[m])
    IN FoldLeft(Add, <<>>, link.sorted)

Atoms == [a \in DOMAIN DistinctBits |-> {m \in Included : bits[m] = DistinctBits[a]}]

\* compute_already_loaded_atoms_by_entry: what is loaded whenever a dynamic entry is, namely
\* what all the entries that import it load or had before them.  An entry loads the atoms
\* with its bit.
RECURSIVE AlreadyLoaded(_, _, _)
AlreadyLoaded(loads, imports, known) ==
    LET next == {k \in known : \A i \in imports : i[2] = k[1] => <<i[1], k[2]>> \in loads \cup known}
    IN IF next = known THEN known ELSE AlreadyLoaded(loads, imports, next)

\* The entries with an import() of a dynamic entry in a module they reach.
DynamicImports ==
    UNION {{<<i, e>> : i \in UNION {bits[q[1]] : q \in {r \in project.dynamic : r[2] = entries[e]}}} :
             e \in {f \in Entries : ~IsUser(f)}}

AlreadyLoadedAtoms ==
    AlreadyLoaded({<<e, a>> \in Entries \X DOMAIN atoms : e \in atoms[a].bits}, DynamicImports,
                  {<<e, a>> \in Entries \X DOMAIN atoms : ~IsUser(e)})

group_modules_by_dependent_entries ==
    /\ phase = "group"
    /\ LET modules == Atoms
       IN atoms' = [a \in DOMAIN modules |->
                      [bits |-> DistinctBits[a], modules |-> modules[a],
                       dependencies |-> {d \in DOMAIN modules \ {a} : Static(modules[a]) \cap modules[d] # {}},
                       hosts |-> {e \in Entries : entries[e] \in modules[a]},
                       loaded |-> {}]]
    /\ phase' = "analyze"
    /\ UNCHANGED <<project, link, cursor, bits, candidates, targets, home, linked, removed,
                   entryChunk, asked>>

analyze_dynamic_entries ==
    /\ phase = "analyze"
    /\ LET known == AlreadyLoadedAtoms
       IN atoms' = [a \in DOMAIN atoms |-> [atoms[a] EXCEPT !.loaded = {e \in Entries : <<e, a>> \in known}]]
    /\ phase' = "reduce"
    /\ UNCHANGED <<project, link, cursor, bits, candidates, targets, home, linked, removed,
                   entryChunk, asked>>

\* Whether a chunk that is known by its entry may host the modules: they export
\* nothing but through it.
CanMergeWithoutChangingEntrySignature(e, modules) ==
    modules \cap project.exporting \subseteq {entries[e]}

\* Each entry the atom loses is a dynamic one whose module the atom has.
RemovedEntriesAreDynamicEntryModules(atom, reduced) ==
    \A gone \in atom.bits \ reduced : ~IsUser(gone) /\ entries[gone] \in atom.modules

\* import() of the entry can be given its namespace, which is not a thenable.
SupportsNamespaceExtraction(e) == entries[e] \notin project.sealed

CanUseReducedDependentEntries(atom, reduced) ==
    \/ Cardinality(reduced) > 1
    \/ \E e \in Entries :
          /\ reduced = {e}
          /\ \/ CanMergeWithoutChangingEntrySignature(e, atom.modules)
             \/ RemovedEntriesAreDynamicEntryModules(atom, reduced)
             \/ ~IsUser(e) /\ SupportsNamespaceExtraction(e)
             \/ IsUser(e) /\ entries[e] \notin project.strict

\* ReducedChunkGraph: the chunks the atoms would form.  An entry chunk with modules whose
\* entry module is elsewhere imports the chunk that has it.
NodeEdges(s) ==
    LET facades == {e \in Entries : \E a \in DOMAIN s : s[a].bits = {e}}
        edges == UNION {{<<s[a].bits, s[d].bits>> : d \in s[a].dependencies} : a \in DOMAIN s}
                   \cup UNION {{<<{e}, s[a].bits>> : e \in s[a].hosts \cap facades} : a \in DOMAIN s}
    IN {e \in edges : e[1] # e[2]}

ReachesItself(edges, n) == n \in Closure(edges, Image(edges, {n}))

\* try_move: the graph is without cycles before the move, so a cycle it closes leads
\* through the chunk that receives the atom.
TryMove(a, reduced) ==
    LET moved == [atoms EXCEPT ![a].bits = reduced]
    IN IF ReachesItself(NodeEdges(moved), reduced) THEN atoms ELSE moved

Reduced(a) ==
    LET reduced == atoms[a].bits \ atoms[a].loaded
    IN IF reduced # atoms[a].bits /\ CanUseReducedDependentEntries(atoms[a], reduced)
       THEN TryMove(a, reduced) ELSE atoms

optimize_dynamic_entry_bits ==
    /\ phase = "reduce"
    /\ atoms' = Reduced(cursor)
    /\ IF cursor < Len(atoms) THEN cursor' = cursor + 1 /\ UNCHANGED <<phase, bits>>
       ELSE /\ cursor' = 1 /\ phase' = "assign"
            /\ bits' = [m \in Modules |->
                          UNION {atoms'[a].bits : a \in {b \in DOMAIN atoms : m \in atoms[b].modules}}]
    /\ UNCHANGED <<project, link, candidates, targets, home, linked, removed, entryChunk, asked>>

-----------------------------------------------------------------------------
(* Chunks of modules with equal bits                                        *)

Common(c) == c \notin Entries
InChunk(place, c) == {m \in Included : place[m] = c}

\* The chunks to be created, in the order modules ask for them, with their dependencies.
CandidateBits == [e \in Entries |-> {e}] \o SelectSeq(DistinctBits, LAMBDA b : Cardinality(b) > 1)

split_chunks ==
    /\ phase = "assign"
    /\ LET chunks == CandidateBits
           place == [m \in Modules |->
                       IF m \in Included THEN CHOOSE c \in DOMAIN chunks : chunks[c] = bits[m] ELSE None]
           Holding(c) == InChunk(place, c)
       IN /\ candidates' = [c \in DOMAIN chunks |->
                [bits |-> chunks[c],
                 modules |-> Holding(c),
                 dependencies |-> {place[d] : d \in Static(Holding(c))} \ {c},
                 sideEffects |-> \E m \in Holding(c) : m \in link.effects]]
          /\ home' = [m \in Modules |-> IF project.merge /\ place[m] > Len(entries) THEN None ELSE place[m]]
    /\ phase' = IF project.merge THEN "decide" ELSE "page"
    /\ cursor' = Len(entries) + 1
    /\ UNCHANGED <<project, link, bits, atoms, targets, linked, removed, entryChunk, asked>>

-----------------------------------------------------------------------------
(* try_insert_common_module_to_exist_chunk                                  *)

\* The dynamic entries a user's entry leads to; an entry whose module has no chunk yet
\* is not looked at.
ReachedDynamicEntries(e) ==
    IF ~IsUser(e) \/ home[entries[e]] = None THEN {}
    ELSE {f \in Entries : ~IsUser(f) /\ entries[f] \in link.leads[entries[e]]}

\* The first entry whose module all the others import.
FindMergeTarget(es) ==
    LET fits == {e \in es : \A f \in es : e = f \/ <<entries[f], entries[e]>> \in project.static}
    IN IF fits = {} THEN None ELSE CHOOSE e \in fits : \A f \in fits : e <= f

\* Variant: the side effects of the entry that would be loaded too are not considered.
LeakIgnored(target, dynamics) == FALSE

\* The entry has side effects that would run when another of the user's entries loads
\* a dynamic one.
LeakPossible(target, dynamics) ==
    /\ candidates[target].sideEffects
    /\ \E other \in Entries \ {target} : ReachedDynamicEntries(other) \cap dynamics # {}

TryInsertIntoExistingChunk(c) ==
    LET users == {e \in candidates[c].bits : IsUser(e)}
        dynamics == candidates[c].bits \ users
        modules == candidates[c].modules
        DynamicEntryModules == {entries[e] : e \in {f \in Entries : ~IsUser(f)}}
        Pollutes(target) ==
            \E e \in dynamics \ {target} : entries[e] \in modules \cap project.exporting
        ImportersAreInside(target) ==
            \A m \in modules \cap DynamicEntryModules :
                {q[1] : q \in {r \in project.dynamic : r[2] = m}}
                  \subseteq InChunk(home, target) \cup (modules \ DynamicEntryModules)
        target == FindMergeTarget(IF users = {} THEN dynamics ELSE users)
    IN IF target = None THEN None
       ELSE IF users = {} THEN (IF Pollutes(target) THEN None ELSE target)
       ELSE IF /\ dynamics \subseteq ReachedDynamicEntries(target)
               /\ dynamics # {} => ~LeakPossible(target, dynamics)
               /\ ImportersAreInside(target)
            THEN target ELSE None

decide_merges ==
    /\ phase = "decide"
    /\ targets' = [c \in DOMAIN candidates |->
                     IF Common(c) THEN TryInsertIntoExistingChunk(c) ELSE None]
    /\ phase' = IF cursor > Len(candidates) THEN "facades" ELSE "merge"
    /\ UNCHANGED <<project, link, cursor, bits, atoms, candidates, home, linked, removed,
                   entryChunk, asked>>

\* Variant: a merge that closes a cycle of chunks is not noticed.
CircularIgnored(source, target) == FALSE

WouldCreateCircularDependency(source, target) ==
    LET edges == UNION {{c} \X candidates[c].dependencies : c \in DOMAIN candidates}
        afterMerge == edges \cup {<<e[1], target>> : e \in {f \in edges : f[2] = source}}
    IN target \in Closure(afterMerge, candidates[source].dependencies \cup candidates[target].dependencies)

CanAssign(c, target) ==
    /\ target # None
    /\ ~WouldCreateCircularDependency(c, target)
    /\ IsUser(target) /\ entries[target] \in project.strict =>
          CanMergeWithoutChangingEntrySignature(target, candidates[c].modules)

MergeDependencies(source, target) ==
    [candidates EXCEPT ![source].dependencies = {},
                       ![target].dependencies = (@ \cup candidates[source].dependencies) \ {target},
                       ![target].sideEffects = @ \/ candidates[source].sideEffects]

Place(modules, c) == home' = [m \in Modules |-> IF m \in modules THEN c ELSE home[m]]

assign_modules_to_chunk ==
    /\ phase = "merge"
    /\ LET target == targets[cursor]
       IN IF CanAssign(cursor, target)
          THEN /\ Place(candidates[cursor].modules, target)
               /\ linked' = linked \cup
                     {<<e, target>> : e \in {f \in candidates[cursor].bits \ {target} : IsUser(f)}}
               /\ candidates' = MergeDependencies(cursor, target)
          ELSE /\ Place(candidates[cursor].modules, cursor)
               /\ UNCHANGED <<linked, candidates>>
    /\ IF cursor < Len(candidates) THEN cursor' = cursor + 1 /\ phase' = phase
       ELSE cursor' = 1 /\ phase' = "facades"
    /\ UNCHANGED <<project, link, bits, atoms, targets, removed, entryChunk, asked>>

-----------------------------------------------------------------------------
(* optimize_facade_entry_chunks                                             *)

Empty(e) == InChunk(home, e) = {}

\* A dynamic entry chunk without modules: import() loads the chunk that has its module.
Eliminated ==
    {e \in Entries : ~IsUser(e) /\ Empty(e) /\ (Common(home[entries[e]]) \/ IsUser(home[entries[e]]))}

\* One of the user's: the common chunk that has its module moves into it.
Absorbing ==
    {e \in Entries :
        LET c == home[entries[e]]
            modules == InChunk(home, c)
        IN /\ IsUser(e) /\ Empty(e) /\ Common(c)
           /\ modules \cap project.user = {entries[e]}
           /\ entries[e] \in project.strict => CanMergeWithoutChangingEntrySignature(e, modules)}

optimize_facade_entry_chunks ==
    /\ phase = "facades"
    /\ LET Absorbs(e, c) == e \in Absorbing /\ home[entries[e]] = c
           Final(c) == IF \E e \in Entries : Absorbs(e, c) THEN CHOOSE e \in Entries : Absorbs(e, c) ELSE c
       IN /\ home' = [m \in Modules |-> Final(home[m])]
          /\ entryChunk' = [e \in Entries |-> IF e \in Eliminated THEN Final(home[entries[e]]) ELSE e]
          /\ removed' = Eliminated \cup {home[entries[e]] : e \in Absorbing}
    /\ phase' = "page" /\ cursor' = 1
    /\ UNCHANGED <<project, link, bits, atoms, candidates, targets, linked, asked>>

-----------------------------------------------------------------------------
(* The page                                                                 *)

Chunks == DOMAIN candidates \ removed

\* The chunks a chunk imports: for its modules, its entry module, and as merging asked.
ChunkImports ==
    LET edges == {<<home[q[1]], home[q[2]]>> : q \in {r \in project.static : r[1] \in Included}}
                   \cup {<<e, home[entries[e]]>> : e \in Entries \cap Chunks} \cup linked
    IN {e \in edges : e[1] # e[2]}

Loaded == Closure(ChunkImports, {entryChunk[e] : e \in asked})
Ran == {m \in Included : home[m] \in Loaded}
Wanted == UNION {link.reach[entries[e]] : e \in asked}

\* A page loads one of the user's entries, then what the modules it asked for import.
Load(e) ==
    /\ phase = "page"
    /\ IF IsUser(e) THEN asked = {} ELSE e \notin asked /\ entries[e] \in Image(project.dynamic, Wanted)
    /\ asked' = asked \cup {e}
    /\ UNCHANGED <<project, link, phase, cursor, bits, atoms, candidates, targets, home, linked, removed,
                   entryChunk>>

Next ==
    \/ determine_reachable_modules
    \/ group_modules_by_dependent_entries \/ analyze_dynamic_entries \/ optimize_dynamic_entry_bits
    \/ split_chunks \/ decide_merges \/ assign_modules_to_chunk \/ optimize_facade_entry_chunks
    \/ \E e \in Entries : Load(e)

Spec == Init /\ [][Next]_vars

-----------------------------------------------------------------------------
(* Properties                                                               *)

\* Whatever optimize_dynamic_entry_bits moved and try_insert_common_module_to_exist_chunk and
\* optimize_facade_entry_chunks merged, a page runs all modules that the entries it loaded need,
\* and none with side effects that they do not need.
EntriesAreIsolated ==
    phase = "page" =>
        /\ Wanted \subseteq Ran
        /\ Ran \cap project.effects \subseteq Wanted

\* Chunks import each other without cycles, although try_move and
\* would_create_circular_dependency look at one move at a time, on a graph earlier merges changed.
ChunksStayAcyclic ==
    phase = "page" /\ asked = {} => \A c \in Chunks : ~ReachesItself(ChunkImports, c)
=============================================================================
