---------------------------- MODULE ModuleLoader ----------------------------
(***************************************************************************)
(* The module loader and the scan cache it works on                        *)
(* (crates/rolldown/src/module_loader, types/scan_stage_cache.rs,          *)
(* rolldown_common/src/types/lazy_barrel.rs).                              *)
(*                                                                         *)
(* One scan spawns a task for every module it needs.  The tasks run        *)
(* concurrently, talk to the loader over one channel and to each other     *)
(* through `this.load`, and the loader applies what they send in the order *)
(* in which it arrives.  A full scan builds the module graph from the      *)
(* entries; a partial scan re-reads the changed files and is merged into   *)
(* the snapshot of the last scan, or reverted when anything failed.        *)
(*                                                                         *)
(* A module index is a position in the module table, counted from 1.  A    *)
(* set of requested exports is a set of names, or All.                     *)
(***************************************************************************)
EXTENDS Naturals, Sequences, FiniteSets, SequencesExt

CONSTANTS
    Ids,        \* the files of the project and the ids imports resolve to
    Runtime,    \* the id of the runtime module, no element of Ids
    Entries,    \* the user-defined entries, a sequence over Ids
    Contents,   \* Contents[id]: the contents file id can have, first the initial one
    NativeLoad, \* modules are loaded by a native plugin, not by `this.load` of JavaScript
    MaxEdits    \* bound: number of edits

ASSUME LoaderAssumption ==
    /\ Runtime \notin Ids /\ NativeLoad \in BOOLEAN
    /\ Entries \in Seq(Ids) /\ Entries # <<>>
    /\ \A id \in Ids : Contents[id] # <<>>

VARIABLES
    disk,       \* which content each file has
    watched,    \* files some scan has read
    dirty,      \* watched files edited since the last scan started
    edits,      \* number of edits
    cache,      \* ScanStageCache
    scan,       \* the ModuleLoader of the running scan, or Idle
    tasks,      \* what each running module task still has to do
    parsed,     \* ids whose ModuleInfo has code
    completed,  \* ids whose `this.load` waiters are released
    verdict,    \* history: how the last scan ended
    dropped     \* history: changed files whose last import a failed scan had removed

vars == <<disk, watched, dirty, edits, cache, scan, tasks, parsed, completed,
          verdict, dropped>>

All == {"*"}
NoScan == [mode |-> "idle"]
NoSnapshot == [modules |-> <<>>, entries |-> {}, entryModules |-> {}, tla |-> 0]
EmptyBarrels == [info |-> <<>>, requested |-> <<>>, resolved |-> {}]
EmptyCache ==
    [snapshot |-> NoSnapshot, ids |-> <<>>, invalid |-> {}, importers |-> <<>>,
     changedImporters |-> {}, barrel |-> EmptyBarrels, pending |-> {}]

HasSnapshot(c) == c.snapshot # NoSnapshot
Scanning == scan # NoScan

NoSource == [recs |-> <<>>, barrel |-> FALSE, named |-> <<>>, local |-> {},
             loads |-> <<>>, emits |-> <<>>, ok |-> TRUE, tla |-> FALSE]
ContentOf(id, version) == IF version = 0 THEN NoSource ELSE Contents[id][version]
Source(id) == ContentOf(id, disk[id])
Src(m) == ContentOf(m.id, m.version)

IdsOf(s) == {s[k] : k \in DOMAIN s}
Ascending(S) == SetToSortSeq(S, LAMBDA a, b : a < b)
Put(f, x, v) == (x :> v) @@ f
Get(f, x, default) == IF x \in DOMAIN f THEN f[x] ELSE default
Without(f, S) == Restrict(f, DOMAIN f \ S)

-----------------------------------------------------------------------------
(* Lazy barrels: which records of a module must be loaded.                  *)

\* ImportedExports::merge, and what subtract_and_merge_into leaves and returns.
JoinExports(a, b) == IF a = All \/ b = All THEN All ELSE a \cup b
\* A variant: a second request never counts.
CoveredByAny(a, b) == b # {}
Covered(a, b) == b = All \/ (a # All /\ a \subseteq b)
Subtract(a, b) == IF a = All THEN All ELSE a \ b

JoinRecords(f, g) ==
    [r \in DOMAIN f \cup DOMAIN g |-> JoinExports(Get(f, r, {}), Get(g, r, {}))]

NotBarrel == [barrel |-> FALSE, named |-> <<>>, local |-> {}, star |-> {}, rem |-> <<>>]

StarRecords(src) == {r \in DOMAIN src.recs : src.recs[r].star}

\* try_extract_lazy_barrel_info: a module the user marked free of side effects.
BarrelInfo(src) ==
    IF \/ ~src.barrel \/ src.recs = <<>>
       \/ StarRecords(src) = {} /\ DOMAIN src.named = {} /\ src.local = {}
    THEN NotBarrel
    ELSE [barrel |-> TRUE, local |-> src.local, star |-> StarRecords(src),
          named |-> [n \in DOMAIN src.named |->
                       [rec |-> src.named[n].rec, imported |-> src.named[n].imported,
                        direct |-> src.recs[src.named[n].rec].direct]],
          rem |-> <<>>]

\* The entry of a record loses one imported name; with its last name, or one
\* that stands for the namespace, it goes.
ConsumeName(rem, from) ==
    IF from.rec \notin DOMAIN rem THEN rem
    ELSE IF from.imported = All \/ Cardinality(rem[from.rec]) <= 1
         THEN Without(rem, {from.rec})
         ELSE Put(rem, from.rec, rem[from.rec] \ from.imported)

\* BarrelInfo::take_needed_records.  info.rem is imported_exports_per_record, and
\* its domain is also tracked_records: both maps always have the same keys.
TakeNeededRecords(info, wanted) ==
    IF wanted = All
    THEN [info |-> [info EXCEPT !.rem = <<>>], needs |-> info.rem]
    ELSE LET hit == wanted \cap DOMAIN info.named
             missing == wanted \ hit
             usesLocal == wanted \cap info.local # {}
             named == Without(info.named, hit)
             rem == FoldLeft(LAMBDA f, n : ConsumeName(f, info.named[n]),
                             info.rem, SetToSeq(hit))
             asked == [r \in {info.named[n].rec : n \in hit} |->
                         UNION {info.named[n].imported :
                                  n \in {h \in hit : info.named[h].rec = r}}]
             viaStar == [r \in IF missing = {} THEN {} ELSE info.star |-> missing]
             reexports == info.star \cup
                 {named[n].rec : n \in {m \in DOMAIN named : named[m].direct}}
             executed == [r \in IF usesLocal THEN DOMAIN rem ELSE {} |->
                            IF r \in reexports THEN {} ELSE rem[r]]
         IN [info |-> [info EXCEPT !.named = named,
                                   !.local = IF usesLocal THEN {} ELSE @,
                                   !.rem = Without(rem, DOMAIN executed \ reexports)],
             needs |-> JoinRecords(JoinRecords(asked, viaStar), executed)]

\* BarrelState::initialize_barrel_tracking: the records an import statement of
\* src needs now, and for a barrel what is left to ask for later.
InitializeBarrelTracking(src, requested) ==
    LET perRecord == [r \in {q \in DOMAIN src.recs : src.recs[q].kind = "import"} |->
                        IF src.recs[r].star THEN All ELSE src.recs[r].names]
        info == BarrelInfo(src)
    IN IF info.barrel
       THEN TakeNeededRecords([info EXCEPT !.rem = perRecord], requested)
       ELSE [info |-> info, needs |-> perRecord]

-----------------------------------------------------------------------------
(* Spawning tasks.  The operators below turn one loader state into the next: *)
(* s.cache, s.scan and s.tasks stand for the variables of these names.       *)

AddError(s, e) == [s EXCEPT !.scan.errors = @ \cup {e}]

SpawnedByThisScan(s, i) == s.scan.mode = "full" \/ i \in DOMAIN s.scan.mods

IsExternalModule(s, i) ==
    IF SpawnedByThisScan(s, i) THEN i \in s.scan.external
    ELSE s.cache.snapshot.modules[i].external

\* What a module task does, in order: `this.load` and `emitFile` calls of its
\* hooks, the release of those who wait for it, and its result.
TaskSteps(src) ==
    LET loads == [k \in 1..3 * Len(src.loads) |->
                    [op |-> <<"load", "fetch", "wait">>[1 + ((k - 1) % 3)],
                     id |-> src.loads[1 + ((k - 1) \div 3)]]]
        emits == [k \in DOMAIN src.emits |-> [op |-> "emit", id |-> src.emits[k]]]
    IN loads \o emits \o <<[op |-> "mark"], [op |-> IF src.ok THEN "done" ELSE "error"]>>

\* try_spawn_new_task without its lazy-barrel request.
Spawn(s, id, external) ==
    LET known == id \in DOMAIN s.cache.ids
        i == IF known THEN s.cache.ids[id] ELSE Cardinality(DOMAIN s.cache.ids) + 1
        new == ~known /\ s.scan.mode = "partial"
    IN IF known /\ id \notin s.cache.invalid
       THEN IF external = IsExternalModule(s, i) THEN s ELSE AddError(s, <<"conflict", id>>)
       ELSE [s EXCEPT
               !.cache.ids = Put(@, id, i),
               !.cache.invalid = @ \ {id},
               !.cache.importers = IF i > Len(@) THEN Append(@, {}) ELSE @,
               !.scan.mods = Put(@, i, <<>>),
               !.scan.newIds = IF new THEN @ \cup {id} ELSE @,
               !.scan.external = IF external THEN @ \cup {i} ELSE @,
               !.scan.remaining = @ + 1,
               !.tasks = Put(@, i, [id |-> id, external |-> external,
                                    steps |-> IF external \/ id = Runtime
                                              THEN <<[op |-> "done"]>>
                                              ELSE TaskSteps(Source(id))])]

AddImporter(s, i, importer, kind) ==
    [s EXCEPT !.cache.importers[i] = @ \cup {<<importer, kind>>},
              !.cache.changedImporters =
                  IF s.scan.mode = "partial" THEN @ \cup {i} ELSE @]

\* Where record r of module i leads: in the table of this scan, or in the
\* snapshot; 0 while the record is not resolved.
ResolvedModule(s, i, r) ==
    IF i \in DOMAIN s.scan.mods THEN s.scan.mods[i].resolved[r]
    ELSE s.cache.snapshot.modules[i].resolved[r]

SourceOf(s, i) ==
    Src(IF i \in DOMAIN s.scan.mods THEN s.scan.mods[i] ELSE s.cache.snapshot.modules[i])

\* The retain closure of process_barrel_import_record, for record r of barrel i:
\* the record leads to target, and state s has the record resolved.
RequestOfRecord(w, s, i, r, target, infos, exports) ==
    [s |-> s,
     queue |-> Append(w.queue, <<target, exports>>),
     rem |-> IF \/ target \notin DOMAIN infos
                \/ infos[target].barrel /\ (target = i \/ DOMAIN infos[target].rem # {})
             THEN w.rem ELSE Without(w.rem, {r})]

ResolveRecord(s, i, r, new, kind) ==
    AddImporter(IF i \in DOMAIN s.scan.mods
                THEN [s EXCEPT !.scan.mods = Put(@, i, [@[i] EXCEPT !.resolved[r] = new])]
                ELSE [s EXCEPT !.cache.barrel.resolved = @ \cup {<<i, r, new>>}],
                new, i, kind)

SpawnRecord(w, s, i, r, rec, exports) ==
    RequestOfRecord(w, ResolveRecord(s, i, r, s.cache.ids[rec.to], rec.kind), i, r,
                    s.cache.ids[rec.to], w.s.cache.barrel.info, exports)

LoadBarrelRecord(w, i, r, rec, exports) ==
    IF ResolvedModule(w.s, i, r) # 0
    THEN RequestOfRecord(w, w.s, i, r, ResolvedModule(w.s, i, r), w.s.cache.barrel.info, exports)
    ELSE SpawnRecord(w, Spawn(w.s, rec.to, rec.external), i, r, rec, exports)

\* taken: what take_needed_records leaves of barrel i and asks for.
LoadNeededRecords(w, i, taken) ==
    FoldLeft(LAMBDA v, r : LoadBarrelRecord(v, i, r, SourceOf(w.s, i).recs[r], taken.needs[r]),
             [s |-> w.s, queue |-> w.queue, rem |-> taken.info.rem],
             Ascending(DOMAIN w.s.cache.barrel.info[i].rem \cap DOMAIN taken.needs))

StoreBarrel(w, i, info) ==
    [s |-> [w.s EXCEPT !.cache.barrel.info = Put(@, i, [info EXCEPT !.rem = w.rem])],
     queue |-> w.queue]

TakeAndLoad(w, i, taken) == StoreBarrel(LoadNeededRecords(w, i, taken), i, taken.info)

\* One turn of process_barrel_import_record's loop; w.queue is what follows.
ProcessRequest(w, i, exports) ==
    LET barrel == w.s.cache.barrel
        asked == Get(barrel.requested, i, {})
        record == [w EXCEPT !.s.cache.barrel.requested = Put(@, i, JoinExports(asked, exports))]
        new == IF i \in DOMAIN barrel.requested THEN Subtract(exports, asked) ELSE exports
    IN IF i \notin DOMAIN barrel.info
       THEN record
       ELSE IF ~barrel.info[i].barrel
       THEN [w EXCEPT !.s.cache.barrel.requested = Without(@, {i})]
       ELSE IF \/ DOMAIN barrel.info[i].rem = {}
               \/ i \in DOMAIN barrel.requested /\ Covered(exports, asked)
       THEN w
       ELSE TakeAndLoad(record, i, TakeNeededRecords(barrel.info[i], new))

RECURSIVE ProcessBarrels(_)
ProcessBarrels(w) ==
    IF w.queue = <<>> THEN w.s
    ELSE ProcessBarrels(ProcessRequest([w EXCEPT !.queue = Tail(@)],
                                       Head(w.queue)[1], Head(w.queue)[2]))

\* request_all_exports_for_entry: an entry keeps every re-export.
RequestAllExports(s, i) ==
    IF i \notin DOMAIN s.cache.barrel.info
    THEN [s EXCEPT !.cache.barrel.requested = Put(@, i, All)]
    ELSE IF s.cache.barrel.info[i].barrel
         THEN ProcessBarrels([s |-> s, queue |-> <<<<i, All>>>>])
         ELSE s

\* try_spawn_new_task for a module nobody imports: owner is None.
RequestAllOf(s, id) == RequestAllExports(s, s.cache.ids[id])
SpawnRoot(s, id) == RequestAllOf(Spawn(s, id, FALSE), id)

-----------------------------------------------------------------------------
(* The messages of the loop of fetch_modules.                               *)

\* version: the content the module was parsed from, 0 for external and runtime modules.
Module(id, external, version, resolved) ==
    [id |-> id, external |-> external, version |-> version, resolved |-> resolved,
     importers |-> {}]

\* A variant: only new edges are added.
KeepPreviousImports(s, i) == s

\* The edges the previous version of module i contributed.
ForgetPreviousImports(s, i) ==
    IF s.scan.mode = "full" \/ i > Len(s.cache.snapshot.modules) THEN s
    ELSE FoldSet(LAMBDA d, acc : [acc EXCEPT !.cache.importers[d] = {e \in @ : e[1] # i},
                                             !.cache.changedImporters = @ \cup {d}],
                 s, IdsOf(s.cache.snapshot.modules[i].resolved) \ {0})

\* One record of a finished module: deferred, or spawned, linked and requested.
LinkRecord(w, s, i, r, rec, to, exports) ==
    [s |-> IF rec.kind = "dynamic" /\ ~rec.external /\ to \notin s.scan.entryIds
           THEN [s EXCEPT !.scan.dynamicEntries = Put(@, to, Get(@, to, {}) \cup {<<i, r>>})]
           ELSE s,
     resolved |-> Append(w.resolved, to),
     queue |-> Append(w.queue, <<to, exports>>)]

LinkImport(w, s, i, r, rec, exports) ==
    LinkRecord(w, AddImporter(s, s.cache.ids[rec.to], i, rec.kind), i, r, rec,
               s.cache.ids[rec.to], exports)

LoadRecord(w, i, r, rec, needs) ==
    IF rec.kind = "import" /\ r \notin DOMAIN needs
    THEN [w EXCEPT !.resolved = Append(@, 0)]
    ELSE LinkImport(w, Spawn(w.s, rec.to, rec.external), i, r, rec,
                    IF rec.kind = "import" THEN needs[r] ELSE All)

LoadRecords(s, i, recs, needs) ==
    FoldLeft(LAMBDA w, r : LoadRecord(w, i, r, recs[r], needs),
             [s |-> s, resolved |-> <<>>, queue |-> <<>>], [r \in DOMAIN recs |-> r])

StoreModule(w, i, id, info) ==
    ProcessBarrels(
        [s |-> [w.s EXCEPT
                  !.scan.mods = Put(@, i, Module(id, FALSE, disk[id], w.resolved)),
                  !.scan.tla = IF Source(id).tla THEN @ + 1 ELSE @,
                  !.scan.remaining = @ - 1,
                  !.cache.barrel.info =
                      Put(@, i, IF DOMAIN info.rem = {} THEN NotBarrel ELSE info)],
         queue |-> w.queue])

FinishModule(s, i, id, tracking) ==
    StoreModule(LoadRecords(ForgetPreviousImports(s, i), i, Source(id).recs, tracking.needs),
                i, id, tracking.info)

NormalModuleDone(s, i) ==
    FinishModule(s, i, s.tasks[i].id,
                 InitializeBarrelTracking(Source(s.tasks[i].id),
                                          Get(s.cache.barrel.requested, i, All)))

\* ExternalModuleDone and RuntimeNormalModuleDone: neither imports anything.
LeafModuleDone(s, i) ==
    [s EXCEPT !.scan.mods =
                  Put(@, i, Module(s.tasks[i].id, s.tasks[i].external, 0, <<>>)),
              !.scan.remaining = @ - 1]

BuildErrors(s, i) ==
    [AddError(s, <<"broken", s.tasks[i].id>>) EXCEPT !.scan.remaining = @ - 1]

RecordEntry(s, id) ==
    [s EXCEPT !.scan.entryIds = @ \cup {s.cache.ids[id]},
              !.scan.emitted = @ \cup {s.cache.ids[id]}]

\* AddEntryModule; an id outside Ids does not resolve.
AddEntryModule(s, id) ==
    IF id \notin Ids THEN AddError(s, <<"entry", id>>)
    ELSE RecordEntry(SpawnRoot(s, id), id)

LoaderState == [cache |-> cache, scan |-> scan, tasks |-> tasks]

NextStep(i) == Head(tasks[i].steps)
Advance(t, i) == Put(t, i, [t[i] EXCEPT !.steps = Tail(@)])

Goto(s, t) == cache' = s.cache /\ scan' = s.scan /\ tasks' = t
TaskEnds(s, i) == Goto(s, Without(s.tasks, {i}))
TaskGoesOn(s, i) == Goto(s, Advance(s.tasks, i))

\* The loader receives the result of task i.
ReceiveResult(i) ==
    /\ scan.remaining > 0
    /\ NextStep(i).op \in {"done", "error"}
    /\ TaskEnds(CASE NextStep(i).op = "error" -> BuildErrors(LoaderState, i)
                  [] tasks[i].external \/ tasks[i].id = Runtime -> LeafModuleDone(LoaderState, i)
                  [] OTHER -> NormalModuleDone(LoaderState, i), i)
    /\ watched' = IF tasks[i].external \/ tasks[i].id = Runtime THEN watched
                  ELSE watched \cup {tasks[i].id}
    /\ UNCHANGED <<disk, dirty, edits, parsed, completed, verdict, dropped>>

\* A variant: the waiter is left to the task.
FetchWithoutRelease(s, i, id) == TaskGoesOn(s, i) /\ completed' = completed

\* The loader receives the FetchModule message of a load; for an external
\* module no task will ever release the waiter, so the loader does.
FetchModule(s, i, id) ==
    /\ TaskGoesOn(s, i)
    /\ completed' = IF IsExternalModule(s, s.cache.ids[id]) THEN completed \cup {id}
                    ELSE completed

ReceiveFetch(i) ==
    /\ scan.remaining > 0
    /\ NextStep(i).op = "fetch"
    /\ FetchModule(SpawnRoot(LoaderState, NextStep(i).id), i, NextStep(i).id)
    /\ UNCHANGED <<disk, watched, dirty, edits, parsed, verdict, dropped>>

ReceiveEmit(i) ==
    /\ scan.remaining > 0
    /\ NextStep(i).op = "emit"
    /\ TaskGoesOn(AddEntryModule(LoaderState, NextStep(i).id), i)
    /\ UNCHANGED <<disk, watched, dirty, edits, parsed, completed, verdict, dropped>>

\* A hook of task i calls load.  `this.load` of JavaScript returns at once when the
\* ModuleInfo has code.  A task of this scan removes the code of the last one
\* when it starts, and adds its own before MarkLoaded.
CallLoad(i) ==
    /\ NextStep(i).op = "load"
    /\ LET id == NextStep(i).id
           beingRead == \E k \in DOMAIN tasks :
                           tasks[k].id = id /\ \E j \in DOMAIN tasks[k].steps :
                                                tasks[k].steps[j].op = "mark"
       IN \/ /\ NativeLoad \/ id \notin parsed \/ beingRead
             /\ tasks' = Advance(tasks, i)
          \/ /\ ~NativeLoad /\ id \in parsed
             /\ tasks' = Advance(Advance(Advance(tasks, i), i), i)
    /\ UNCHANGED <<disk, watched, dirty, edits, cache, scan, parsed, completed, verdict, dropped>>

\* Task i comes back from load: wait_for_completion.
LoadReturns(i) ==
    /\ NextStep(i).op = "wait"
    /\ NextStep(i).id \in completed
    /\ tasks' = Advance(tasks, i)
    /\ UNCHANGED <<disk, watched, dirty, edits, cache, scan, parsed, completed, verdict, dropped>>

\* Task i is parsed, or has failed: mark_context_load_modules_loaded.
MarkLoaded(i) ==
    /\ NextStep(i).op = "mark"
    /\ tasks' = Advance(tasks, i)
    /\ completed' = completed \cup {tasks[i].id}
    /\ parsed' = IF Head(Tail(tasks[i].steps)).op = "done" THEN parsed \cup {tasks[i].id}
                 ELSE parsed \ {tasks[i].id}
    /\ UNCHANGED <<disk, watched, dirty, edits, cache, scan, verdict, dropped>>

-----------------------------------------------------------------------------
(* The start of a scan.                                                     *)

NewLoader(mode, changed, c) ==
    [mode |-> mode, mods |-> <<>>, newIds |-> {}, external |-> {}, errors |-> {},
     entryIds |-> {}, emitted |-> {}, dynamicEntries |-> <<>>, tla |-> 0,
     remaining |-> 0, changed |-> changed,
     backup |-> c.barrel, before |-> <<c.ids, c.importers>>]

Begin(s) == Goto(s, s.tasks)
EntriesOf(s) == [s EXCEPT !.scan.entryIds = {s.cache.ids[id] : id \in IdsOf(Entries)}]

StartFullScan ==
    /\ ~Scanning
    /\ LET s0 == [cache |-> EmptyCache, scan |-> NewLoader("full", {}, EmptyCache),
                  tasks |-> <<>>]
       IN Begin(EntriesOf(FoldLeft(SpawnRoot, Spawn(s0, Runtime, FALSE), Entries)))
    /\ dirty' = {} /\ dropped' = {} /\ parsed' = {} /\ completed' = {}
    /\ verdict' = [verdict EXCEPT !.result = "running", !.disk = disk]
    /\ UNCHANGED <<disk, watched, edits>>

\* A variant: the visit state changes after the spawn.
RescanMarkedLate(s, id) == [SpawnRoot(s, id) EXCEPT !.cache.invalid = @ \cup {id}]

\* A changed file, or one an aborted scan left behind, is read again.
Rescan(s, id) ==
    SpawnRoot(IF id \in DOMAIN s.cache.ids
              THEN [s EXCEPT !.cache.invalid = @ \cup {id},
                             !.cache.barrel.info = Without(@, {s.cache.ids[id]})]
              ELSE s, id)

\* The HMR stage passes the changed files that are modules and goes on with the
\* plugin driver of the last build; a rebuild passes them all and has a new one.
StartPartialScan(hmr) ==
    /\ ~Scanning /\ HasSnapshot(cache)
    /\ LET changed == (IF hmr THEN dirty \cap DOMAIN cache.ids ELSE dirty) \cup cache.pending
       IN /\ Begin(FoldLeft(Rescan,
                             [cache |-> [cache EXCEPT !.pending = {}],
                              scan |-> NewLoader("partial", changed, cache), tasks |-> <<>>],
                             SetToSeq(changed)))
          /\ completed' = IF hmr THEN completed \ changed ELSE {}
          /\ dropped' = dropped \ changed
    /\ dirty' = {}
    /\ verdict' = [verdict EXCEPT !.result = "running", !.disk = disk]
    /\ UNCHANGED <<disk, watched, edits, parsed>>

-----------------------------------------------------------------------------
(* The end of a scan: revert_partial_scan, or the snapshot and merge.        *)

\* A variant: the importer lists are not rolled back.
DeriveNothing(modules) == cache.importers

\* derive_importers_from_snapshot
DeriveImporters(modules) ==
    LET Edges(i, d) == {<<i, Src(modules[i]).recs[r].kind>> :
                          r \in {q \in DOMAIN modules[i].resolved : modules[i].resolved[q] = d}}
    IN [d \in 1..Len(modules) |-> UNION {Edges(i, d) : i \in DOMAIN modules}]

\* A variant: only the entries are retried.
RetryEntries(id) == id \in IdsOf(Entries)

StillNeeded(id) ==
    \/ id \in IdsOf(Entries)
    \/ /\ id \in DOMAIN cache.ids /\ id \notin scan.newIds
       /\ \/ cache.ids[id] \in cache.snapshot.entryModules
          \/ cache.importers[cache.ids[id]] # {}

\* A failed full scan leaves a cache without a snapshot behind.
AbortScan ==
    /\ Scanning /\ scan.remaining = 0 /\ scan.errors # {}
    /\ cache' = IF scan.mode = "full" THEN cache
                ELSE [cache EXCEPT
                        !.ids = Without(@, scan.newIds),
                        !.importers = DeriveImporters(cache.snapshot.modules),
                        !.changedImporters = {},
                        !.barrel = scan.backup,
                        !.pending = {id \in scan.changed : StillNeeded(id)}]
    /\ dropped' = dropped \cup
         {id \in (scan.changed \cap DOMAIN cache.ids) \ (scan.newIds \cup IdsOf(Entries)) :
            /\ cache.ids[id] \notin cache.snapshot.entryModules
            /\ cache.importers[cache.ids[id]] = {}}
    /\ verdict' = [verdict EXCEPT !.result = "failed", !.mode = scan.mode]
    /\ scan' = NoScan /\ tasks' = <<>>
    /\ UNCHANGED <<disk, watched, dirty, edits, parsed, completed>>

EntryRow(kind, i, related) == [kind |-> kind, idx |-> i, related |-> related]

ScannedModules ==
    [i \in DOMAIN scan.mods |->
       IF scan.mods[i].external THEN scan.mods[i]
       ELSE [scan.mods[i] EXCEPT !.importers = cache.importers[i]]]

ScannedEntries ==
    LET userDefined == IF scan.mode = "full"
                       THEN {cache.ids[id] : id \in IdsOf(Entries)} ELSE {}
    IN {EntryRow("user", i, {}) : i \in userDefined}
       \cup {EntryRow("dynamic", i, scan.dynamicEntries[i]) :
               i \in DOMAIN scan.dynamicEntries \ scan.emitted}
       \cup {EntryRow("emitted", i, {}) : i \in scan.emitted}

FullSnapshot ==
    [modules |-> [i \in 1..Cardinality(DOMAIN scan.mods) |-> ScannedModules[i]],
     entries |-> ScannedEntries, entryModules |-> scan.entryIds, tla |-> scan.tla]

\* ScanStageCache::merge: a module behind the end of the table is appended.
MergeModule(snapshot, m) ==
    LET i == cache.ids[m.id]
    IN IF i > Len(snapshot.modules)
       THEN [snapshot EXCEPT !.modules = Append(@, m),
                             !.tla = IF Src(m).tla THEN @ + 1 ELSE @]
       ELSE [snapshot EXCEPT
               !.modules[i] = m,
               !.tla = CASE Src(snapshot.modules[i]).tla /\ ~Src(m).tla -> @ - 1
                         [] ~Src(snapshot.modules[i]).tla /\ Src(m).tla -> @ + 1
                         [] OTHER -> @]

\* A variant: the rows of rescanned importers stay.
UncleanedEntries == cache.snapshot.entries \cup ScannedEntries

MergedEntries ==
    LET cleaned == {[row EXCEPT !.related = {p \in @ : p[1] \notin DOMAIN scan.mods}] :
                      row \in {r \in cache.snapshot.entries : r.kind = "dynamic"}}
        kept == {row \in cache.snapshot.entries : row.kind # "dynamic"}
                \cup {row \in cleaned : row.related # {}}
        Same(a, b) == a.kind = b.kind /\ a.idx = b.idx
    IN {[row EXCEPT !.related = @ \cup UNION {n.related : n \in {m \in ScannedEntries : Same(m, row)}}] :
          row \in kept}
       \cup {n \in ScannedEntries : ~\E row \in kept : Same(n, row)}

MergedSnapshot ==
    LET spliced == FoldLeft(MergeModule, cache.snapshot,
                            [k \in 1..Cardinality(DOMAIN scan.mods) |->
                               ScannedModules[Ascending(DOMAIN scan.mods)[k]]])
        relinked == [i \in DOMAIN spliced.modules |->
                       IF i \in cache.changedImporters /\ ~spliced.modules[i].external
                       THEN [spliced.modules[i] EXCEPT !.importers = cache.importers[i]]
                       ELSE spliced.modules[i]]
        resolved == [i \in DOMAIN relinked |->
                       [relinked[i] EXCEPT !.resolved = [r \in DOMAIN @ |->
                          IF \E p \in cache.barrel.resolved : p[1] = i /\ p[2] = r
                          THEN (CHOOSE p \in cache.barrel.resolved : p[1] = i /\ p[2] = r)[3]
                          ELSE @[r]]]]
    IN [modules |-> resolved, entries |-> MergedEntries, tla |-> spliced.tla,
        entryModules |-> scan.entryIds \cup {cache.ids[id] : id \in IdsOf(Entries)}
            \cup {row.idx : row \in {r \in MergedEntries : r.kind = "emitted"}}]

FinishScan ==
    /\ Scanning /\ scan.remaining = 0 /\ scan.errors = {}
    /\ cache' = [cache EXCEPT
                   !.snapshot = IF scan.mode = "full" THEN FullSnapshot ELSE MergedSnapshot,
                   !.changedImporters = {}, !.barrel.resolved = {}]
    /\ verdict' = [verdict EXCEPT !.result = "ok", !.mode = scan.mode]
    /\ scan' = NoScan /\ tasks' = <<>>
    /\ parsed' = parsed \cup {cache'.snapshot.modules[i].id : i \in
                    {k \in cache.changedImporters : ~cache'.snapshot.modules[k].external}}
    /\ UNCHANGED <<disk, watched, dirty, edits, completed, dropped>>

-----------------------------------------------------------------------------

\* A file is saved while no scan runs; the watcher reports files a scan has read.
Edit(id) ==
    /\ ~Scanning /\ edits < MaxEdits
    /\ \E v \in DOMAIN Contents[id] \ {disk[id]} : disk' = [disk EXCEPT ![id] = v]
    /\ dirty' = dirty \cup ({id} \cap watched)
    /\ edits' = edits + 1
    /\ UNCHANGED <<watched, cache, scan, tasks, parsed, completed, verdict, dropped>>

Init ==
    /\ disk = [id \in Ids |-> 1]
    /\ watched = {} /\ dirty = {} /\ edits = 0
    /\ cache = EmptyCache
    /\ scan = NoScan /\ tasks = <<>> /\ parsed = {} /\ completed = {}
    /\ verdict = [result |-> "none", mode |-> "idle", disk |-> disk]
    /\ dropped = {}

TaskStep == \E i \in DOMAIN tasks : CallLoad(i) \/ LoadReturns(i) \/ MarkLoaded(i)
Receive == \E i \in DOMAIN tasks : ReceiveResult(i) \/ ReceiveFetch(i) \/ ReceiveEmit(i)

Next ==
    \/ \E id \in Ids : Edit(id)
    \/ StartFullScan
    \/ \E hmr \in BOOLEAN : StartPartialScan(hmr)
    \/ TaskStep
    \/ Receive
    \/ AbortScan
    \/ FinishScan

Spec == Init /\ [][Next]_vars

\* The runtime polls the tasks and the loop until nothing is ready.  This is
\* WF_vars(Scanning /\ Next): nothing else happens during a scan, and StepReady
\* is when such a step is enabled.
StepReady ==
    /\ Scanning
    /\ \/ scan.remaining = 0
       \/ \E i \in DOMAIN tasks : NextStep(i).op = "wait" => NextStep(i).id \in completed

FairSpec == Spec /\ ([]<>~StepReady \/ []<><<Scanning>>_vars)

-----------------------------------------------------------------------------
(* What a scan should produce: the graph of the files, defined by demand and  *)
(* without tasks, messages, indices or an order.                              *)

AsExports(names) == IF "*" \in names THEN All ELSE names

\* The records of src that are used when wanted is asked of it, and for what.
UsedRecords(src, wanted) ==
    LET whole == ~BarrelInfo(src).barrel \/ wanted = All
        runs == wanted \cap src.local # {}
        Through(r) == {n \in wanted : IF n \in DOMAIN src.named THEN src.named[n].rec = r
                                      ELSE src.recs[r].star}
        Asked(r) == UNION {IF n \in DOMAIN src.named THEN src.named[n].imported ELSE {n} :
                             n \in Through(r)}
        Own(r) == IF runs /\ ~src.recs[r].star /\ ~src.recs[r].direct
                  THEN src.recs[r].names ELSE {}
        used == {r \in DOMAIN src.recs :
                   src.recs[r].kind # "import" \/ whole \/ runs \/ Through(r) # {}}
    IN [r \in used |->
          CASE src.recs[r].kind # "import" \/ (whole /\ src.recs[r].star) -> All
            [] whole -> src.recs[r].names
            [] OTHER -> AsExports(Asked(r) \cup Own(r))]

\* The records of the modules in wants that are used; a broken file has none.
Uses(files, wants) ==
    UNION {{<<m, r>> : r \in DOMAIN UsedRecords(files[m], wants[m])} :
             m \in {k \in DOMAIN wants : files[k].ok}}

\* What each module is asked for; a load asks for all of a module, or, when the
\* module is there already, for nothing.
RECURSIVE Demand(_, _, _)
Demand(files, loadsAsk, wants) ==
    LET roots == IdsOf(Entries) \cup
                 UNION {(IF loadsAsk THEN IdsOf(files[m].loads) ELSE {})
                        \cup (IdsOf(files[m].emits) \cap Ids) : m \in DOMAIN wants}
        internal == {u \in Uses(files, wants) : ~files[u[1]].recs[u[2]].external}
        Into(id) == {u \in internal : files[u[1]].recs[u[2]].to = id}
        Of(id) == (IF id \in roots THEN All ELSE Get(wants, id, {})) \cup
                  UNION {UsedRecords(files[u[1]], wants[u[1]])[u[2]] : u \in Into(id)}
        next == [id \in DOMAIN wants \cup roots \cup {k \in Ids : Into(k) # {}} |->
                   AsExports(Of(id))]
    IN IF next = wants THEN wants ELSE Demand(files, loadsAsk, next)

FreshDemand(files, loadsAsk) == Demand(files, loadsAsk, <<>>)

\* The build of these files fails: a broken file, an entry that does not resolve,
\* or an id that is external for one import and a module for another.
BuildFails(files, loadsAsk) ==
    LET wants == FreshDemand(files, loadsAsk)
    IN \/ \E m \in DOMAIN wants : ~files[m].ok \/ ~(IdsOf(files[m].emits) \subseteq Ids)
       \/ \E u \in Uses(files, wants) :
             files[u[1]].recs[u[2]].external /\ files[u[1]].recs[u[2]].to \in DOMAIN wants

FreshEdges(files, loadsAsk) ==
    {<<u[1], u[2], files[u[1]].recs[u[2]].to>> : u \in Uses(files, FreshDemand(files, loadsAsk))}

Modules == cache.snapshot.modules

GraphEdges ==
    UNION {{<<Modules[i].id, r, Modules[Modules[i].resolved[r]].id>> :
              r \in {q \in DOMAIN Modules[i].resolved : Modules[i].resolved[q] # 0}} :
             i \in DOMAIN Modules}

Ended(mode, result) == verdict.mode = mode /\ verdict.result = result

FilesRead == [id \in Ids |-> Contents[id][verdict.disk[id]]]

-----------------------------------------------------------------------------

TypeOK ==
    /\ disk \in [Ids -> Nat] /\ watched \subseteq Ids /\ dirty \subseteq watched
    /\ edits \in 0..MaxEdits /\ completed \cup parsed \subseteq Ids \cup {Runtime} /\ dropped \subseteq Ids
    /\ DOMAIN cache.ids \subseteq Ids \cup {Runtime}
    /\ cache.pending \subseteq Ids /\ cache.invalid = {}
    /\ Scanning => /\ scan.mode \in {"full", "partial"} /\ scan.remaining \in Nat
                   /\ DOMAIN tasks \subseteq DOMAIN scan.mods
    /\ verdict.result \in {"none", "running", "ok", "failed"}

\* Everything a build of these files would load is in the graph, as it is in the
\* files.
CoversBuild(files) ==
    /\ ~BuildFails(files, FALSE)
    /\ FreshEdges(files, FALSE) \subseteq GraphEdges
    /\ \A id \in DOMAIN FreshDemand(files, FALSE) :
          id \in DOMAIN cache.ids /\ Src(Modules[cache.ids[id]]) = files[id]

\* A full scan fails only when the files on disk do not build, and otherwise loads
\* what the entries demand and nothing else: in whatever order the tasks finish,
\* no re-export a barrel was asked for is left out and none is loaded in vain.
FullScanExact ==
    /\ Ended("full", "failed") => BuildFails(FilesRead, TRUE)
    /\ Ended("full", "ok") =>
          /\ CoversBuild(FilesRead)
          /\ GraphEdges \subseteq FreshEdges(FilesRead, TRUE)
          /\ {Modules[i].id : i \in {k \in DOMAIN Modules : ~Modules[k].external}}
             \subseteq DOMAIN FreshDemand(FilesRead, TRUE) \cup {Runtime}

\* After a partial scan that succeeds the graph covers a fresh build of the tree,
\* also after scans that failed and were reverted: the edits that those scans
\* had read are not lost.  (A changed file whose last import a failed scan had
\* removed is taken as the graph has it; see EveryEditCounts.)
PartialScanCovers ==
    Ended("partial", "ok") =>
        CoversBuild([id \in Ids |-> IF id \in dropped THEN Src(Modules[cache.ids[id]])
                                    ELSE FilesRead[id]])

\* The same without the exception: a fresh build of the tree and the incremental
\* one agree on every file.
EveryEditCounts == Ended("partial", "ok") => CoversBuild(FilesRead)

\* Between scans the parts of the cache describe one graph: an id maps to the slot
\* of its module, the importer lists and the importer sets of the modules are the
\* inverse of the resolved records, and tla_module_count counts.
CacheIsWhole ==
    ~Scanning /\ HasSnapshot(cache) =>
        /\ \A i \in DOMAIN Modules : cache.ids[Modules[i].id] = i
        /\ Cardinality(DOMAIN cache.ids) = Len(Modules)
        /\ cache.importers = DeriveImporters(Modules)
        /\ \A i \in DOMAIN Modules :
              ~Modules[i].external => Modules[i].importers = cache.importers[i]
        /\ cache.snapshot.tla = Cardinality({i \in DOMAIN Modules : Src(Modules[i]).tla})

\* Between scans a module that is no entry of its own has a dynamic entry row
\* exactly for the import() expressions that lead to it.
DynamicEntriesMatchImports ==
    ~Scanning /\ HasSnapshot(cache) =>
        \A i \in DOMAIN Modules :
            LET Calls(k) == {<<k, r>> : r \in {q \in DOMAIN Modules[k].resolved :
                               /\ Modules[k].resolved[q] = i
                               /\ Src(Modules[k]).recs[q].kind = "dynamic"}}
                calls == UNION {Calls(k) : k \in DOMAIN Modules}
                rows == {row \in cache.snapshot.entries : row.kind = "dynamic" /\ row.idx = i}
            IN i \notin cache.snapshot.entryModules /\ ~Modules[i].external =>
                 rows = IF calls = {} THEN {} ELSE {EntryRow("dynamic", i, calls)}

\* A partial scan that fails leaves the cache as it found it, but for the queue of
\* files to retry.
FailureRestoresCache ==
    [][scan.mode = "partial" /\ verdict'.result = "failed" =>
         /\ cache'.snapshot = cache.snapshot
         /\ <<cache'.ids, cache'.importers>> = scan.before
         /\ cache'.barrel = scan.backup
         /\ cache'.invalid = {} /\ cache'.changedImporters = {}]_vars

\* Every scan ends: each task is counted once, and no `this.load` waits for a
\* module that will not be loaded.
ScanEnds == Scanning ~> ~Scanning
=============================================================================
