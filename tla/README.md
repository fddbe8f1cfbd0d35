# A formal model of rolldown

rolldown is a bundler. A build scans modules, links them and generates chunks; around
the build sit two long-running services, the *dev engine* (`crates/rolldown_dev`), an
actor that receives file changes, page loads, lazily compiled routes, manual restarts
and shutdown in any order while a build runs, and *watch mode* (`crates/rolldown_watcher`).
This directory models in TLA+ what is hard to test there: the dev engine, the delivery of
hot updates to pages, watch mode, the concurrent module loader with its scan cache, and
the first passes of the link stage, which walk graphs with cycles, and code splitting. TLC
checks the modules on small instances; TLAPS proves most safety properties of the dev engine,
the delivery, watch mode and the link stage for all instances.

## 1. Inventory of the system

| Component | State it keeps | Operations | Hard part |
|---|---|---|---|
| Bundle coordinator (`bundle_coordinator.rs`) | state machine, task queue, stash of changes that wait for a full build, staleness flag, future of the running task, watcher registrations | one handler per mailbox message | messages in any order; exactly one task at a time; failures that must not lose work |
| Task inputs (`types/task_input.rs`) | kind and changed files | `is_mergeable_with`, `merge_with` | merging queued work without losing a rebuild or an update |
| Bundling task (`bundling_task.rs`) | stage, error flags, watch list of the HMR stage | `run`: hooks, reload decision, HMR, rebuild, report | each stage may fail; the bundler lock is released between stages |
| Dev engine calls (`dev_engine.rs`) | closed flag, coordinator handle, one frame per call | `run`, `ensure_latest_bundle_output`, `wait_for_ongoing_bundle`, `trigger_full_build`, `compile_lazy_entry`, `close` | awaiting a build while it is replaced, fails or the engine closes |
| Bundler and scan cache (`rolldown/src/bundler`, `scan_stage_cache.rs`, `module_loader.rs`) | graph snapshot, `pending_rescans`, `lost_hmr_update`, watch list | full scan, partial scan, revert, generate | what an aborted step leaves behind |
| HMR stage (`hmr/hmr_stage.rs`) | works on the cache | `compute_hmr_update_for_file_changes`, `compile_lazy_entry` | fails before or after its merge |
| HMR delivery (`dev_context.rs`, `client_session.rs`, the client runtime) | sessions, `seq`, ship maps, pending payloads; the page's module cache and factories | register, remove, deliver, apply | late, lost and repeated reports; eviction; chunks and patches out of order |
| Watch mode (`rolldown_watcher`, `watcher.ts`) | debounce state machine, one flag per task | file changes, timeout, build sequence, close | changes during builds, close from a callback |
| File system watcher (`rolldown_fs_watcher`) | registered paths | wraps `notify` | reports only what is registered |
| Module loader (`module_loader.rs`, `lazy_barrel.rs`) | ids seen, outstanding task count, intermediate modules, barrel requests | fetch modules, receive results in any order, extra loads, revert | counting, partial scans on an old graph, aborts |
| Scan cache (`scan_stage_cache.rs`) | snapshot of modules, importers, entries, files to retry | create, merge, defer | a long sequence of partial scans equals a full one |
| Plugin driver, `this.load` (`native_plugin_context.rs`) | completion marks | load and wait | waits for a task that may never come |
| Link stage (`stages/link_stage`) | execution order, exports kinds, wrappers, verdicts | a sequence of passes over the module table | import cycles; passes that mark while they walk |
| Code splitting (`generate_stage/code_splitting.rs`, `dynamic_already_loaded.rs`, `chunk_optimizer.rs`) | entry bits, chunks, chunk dependencies | mark, reduce, assign, merge, drop facades | each merge is right for itself; a page sees their sum |
| Rest of the generate stage, resolver, parser, plugins, bindings | per build | sequential pipelines | data |

Interaction: every public call and the watcher send messages into one unbounded
FIFO mailbox that only the coordinator reads. The coordinator spawns a bundling
task and keeps its shared future; the task sends `BundleCompleted` into the same
mailbox. Task, lazy compile, `close()` and the coordinator's watch registration
share the bundler behind one async mutex. Callers hold reply channels and clones
of the shared future.

What correctness means here: builds are serialized; no reported change is lost,
whatever fails; a page load that is told the output is fresh gets fresh output;
every file in the graph is watched; a patch is never sent where a full build is due;
every call returns and shutdown terminates without a panic. `PROJECT.json` lists
the hazards behind these at the lines where they bite.

## 2. Modules

| Module | Content |
|---|---|
| `TaskInput` | task kinds, predicates, `merge_with`, and what the popping loop takes off a queue in closed form (`MergedTask`, `RemainingTasks`) |
| `BundleCoordinator` | coordinator, bundling task, engine calls, bundler cache, watcher and user, composed |
| `HmrDelivery` | server sessions, patches and lazy chunks on their way, and the page that applies them |
| `WatchMode` | watch coordinator, file system watcher, JavaScript watcher and its callbacks |
| `ModuleLoader` | full and partial scans, their concurrent tasks, lazy barrels, the scan cache |
| `ExecutionOrder` | the explicit-stack walk of `sort_modules` |
| `LinkStage` | the passes of `LinkStage::link` up to the side effects, on top of `ExecutionOrder` |
| `CodeSplitting` | the passes of `split_chunks` and a page that loads the chunks |
| `MC*` | constants for TLC; `MCBundleCoordinator` also compares `MergedTask` with the popping loop, task by task, on all queues of up to three tasks |
| `BundleCoordinatorProofs` | types, serialized builds, reloads and merging |
| `BuildResultProofs`, `FreshnessProofs` | one on top of the other: watched files and failed rebuilds; fresh output and answered page loads |
| `WatchModeProofs`, `HmrDeliveryProofs`, `ExecutionOrderProofs` | the theorems about these modules |
| `LinkStageProofs` | the passes of the link stage, and that it implements the walk, on top of `ExecutionOrderProofs` |
| `CurrentPageProofs` | the theorems that pages run current code and miss no factory, on top of `HmrDeliveryProofs` |

### How `BundleCoordinator` corresponds to the code

* **Coordinator.** `state` and `last_error_stage` are `CoordinatorState`; `stash` is
  `queued_file_changes_waited_for_full_build`; `queued_tasks`,
  `has_stale_bundle_output` and `current_bundling_future` keep their names.
  `mailbox` is the channel. Each `Handle*` action is one message and the whole
  handler, including the scheduling at its end. `schedule_build_if_stale` and
  `handle_file_changes` are operators that take the state the handler has assigned
  so far and constrain the primed variables. `LeaveLoop`/`Terminate` are the `Close`
  arm: the loop awaits the running task and then drops the receiver.
* **Task.** `RunWatchChange`, `DecideReload`, `GenerateHmrUpdates`, `RunRebuild`
  and `ReportCompletion` are the bundler lock regions of `run_inner` and `run`. The
  message is in the mailbox before the future resolves, as in `run`. `running`
  counts spawned tasks, so that overlapping tasks would be visible.
* **Failures.** `Failures` is the set of places a build may fail:
  `watch_change` and `hot_update` hooks, `hmr_scan` (refetch, before the merge),
  `hmr_late` (after it), `before_scan` (once a build has its empty watch list:
  `buildStart`, path resolution), `scan`, `generate` (everything after the scan),
  `lazy_scan`, `lazy_late`, `close_bundle`. Every place either fails or not, each time.
* **Cache.** `loaded` are the files of the graph, `pending_rescans`,
  `lost_hmr_update` and `has_snapshot` the fields of the same name, `watch_files` the
  watch list of the latest build (a build starts a new one, the HMR stage and a lazy
  compile add to the current one), `watched` what the watcher has registered.
* **Files.** Contents are abstracted to who is behind whom: `unscanned` files are
  newer on disk than in the graph, `unbuilt` newer in the graph than in the output,
  `unreported` were edited while nobody watched them. `Added` are files only an edit
  made during the session imports; a lazy proxy brings in `Target[p]` once fetched.
* **Calls.** `call[c]` is the frame of one `ensure_latest_bundle_output` (a caller)
  or `wait_for_ongoing_bundle` (a waiter). `RunCall` is the caller that is `DevEngine::run`
  itself: it asks for the output once the coordinator runs, and fairness says that it does.
  `owed_scan` and `owed_build` are history:
  what had been reported, or scanned, when the call was made and is not yet in the
  output. `rebuild_failed` is history too, and so is
  `unsent`: an update was merged into the graph and reached no client.

Simplifications, all in data: change kinds (create/update/delete) are dropped; a
scan is atomic within its lock region; every file in the graph stays needed (so the
filter in `revert_partial_scan` drops none; `ModuleLoader` has the filter, and the run
`StaleAfterRevert` shows what it loses); a `hotUpdate` hook may fail but does not
replace the set of changed modules; resolver caches, suppression of unchanged output
and client payloads are not modelled; a loaded file that a full scan fails to reach
stays in `loaded`. In `close()`, setting `is_closed` and sending `Close` are one step.
The two messages of the `testing` feature are left out, and so is the read of
`module_table()` for transform dependencies when there is no snapshot.

### How `HmrDelivery` corresponds to the code

`clients` are the `ClientSession`s (ship map, modules the client has run, next `seq`),
`pending` the payloads that were handed out and not reported, at most
`MAX_PENDING_PAYLOADS_PER_CLIENT` per client, `latest` the stamps of the newest render
of each module, `page` the client runtime (`runtime-extra-dev-common.js`): boot chunk,
module cache, factories with their stamps, `lastSeq`. `Compute`, `NumberPatches`,
`PublishPatch` and `HmrDone` are the steps of `generate_hmr_updates` between which the
clients lock is free; `CompileLazyEntry` is the lazy route; `ReceivePush` and
`ReceiveChunk` are the page, which applies a patch at its boundaries or reloads. Pushes
arrive in order (a web socket), chunks in any order (HTTP), delivery reports in any order
or never; a page can disconnect and load again at any time.

One client id is one page load. `Init` lets routes be compiled already. Two clients are
modelled: the one of `runtime-extra-dev-default.js` runs every patch (`RunPush`); the one the
design document describes (`internal-docs/hmr/design.md:94-98`, `:314`) checks the sequence number
and leaves a patch alone when none of the changed modules has run (`SkipPush`). Every push may be
taken either way, so the properties hold for both. Left out: what `BundleCoordinator` covers
(`lost_hmr_update`, full builds), deleted files, `hotUpdate` results, `acceptExports`, failing
lazy compiles, an engine without callback.

`missed` is history: why a page may lack an update.

* `late`: it was loading while an update was computed. The server takes its hello as up to date
  (`dev_engine.rs:316`); the design lists this under "Hello without a build id" as unresolved.
* `scan`: a scan that computes no update was the first to read an edit. Under the always strategy
  an edit between the two scans of one task (`bundling_task.rs:226`) reaches the graph through the
  rebuild; the HMR task of that edit then finds its render unchanged (`hmr_stage.rs:366`) and sends
  nothing, so an open page keeps the old code.
* `rescan`: the same, with an edit that a failed scan had left in `pending_rescans`.
* `skip`, `older`: the client left the patch alone; it held, or was about to get, an older copy
  of a changed module.

`NoMissingFactory` speaks of pages that missed nothing, `PagesAreCurrent` also of those that left
patches alone without an older copy, `StampNamesOneFactory` of those without `scan` and `rescan`.
What the documents say beyond that does not hold: see the run `LateChunk` and the statements
that TLC refutes in section 3.

### How `WatchMode` corresponds to the code

The coordinator is one task with a program counter: dispatching an event, awaiting the
consumer's callback, scanning file by file, writing, receiving, draining the channel when
the debounce deadline fires, closing. `state` and `changes` are `WatcherState`, merged by
the kind table of `watcher_state.rs`. Looking at the flag and starting what follows are two
steps, with `close()` on another thread between them: `Dispatch` and `StartCallback`,
`ScanSucceeds` and `StartWrite`. `late` counts what starts after the flag was set; the code lets
one callback or write slip in, and `AtMostOneLateStart` says no more than that. `os` holds the notifications each task's backend has not
handled; a file is reported only while its path is registered, which happens between
scan and write. `closed` and `permit` are the shared flag and `close_notify`;
`CallClose` to `wait_for_close` are the steps of `close()` in JavaScript and Rust, also
from inside a callback. `missed` is history: a file edited after the build read it and
before it was watched is lost to any watcher, and excused.

Two limits of the code are exempt from the properties (section 3 has statements without the
exemption, which TLC refutes). A `Create` and
a `Delete` within one debounce window cancel out even when the last build read the file in
between, so its output keeps a file that is gone until another change (the task stays marked
`needs_rebuild`). `close()` called before `createWatcher` has finished does
nothing. A second call resolves before the first has closed the watcher.

### How `ModuleLoader` corresponds to the code

A scan is `fetch_modules`: it clears what the edited modules imported, spawns their tasks,
and then handles results in any order; `remaining` is the counter that ends the loop.
Tasks resolve, load and parse one module; a barrel loads only the records whose names are
asked for, and later importers ask for more. Plugins may call `this.load`, which waits
for the module's completion mark. A failed partial scan reverts the ids, the barrel state and
the snapshot and queues files for a retry; a successful one is merged into the snapshot.
The cache properties compare a history of full and partial scans with the graph of the
files as they are.

Assumptions: the lazy barrel is on; files are edited between scans only; hash maps are
iterated in a fixed order; the runtime module imports nothing; calls of `this.load` are
acyclic. `NativeLoad` is FALSE in the runs; with TRUE, `load` is that of a native plugin, which
lacks the check of the JavaScript context for a module that is already parsed, and a scan can
wait for ever (section 3). Not checked, but met while modelling: `take_needed_records` treats two names that share one imported name as
one; a partial scan lists a user entry that it also imports dynamically twice; the usage map of
dynamic imports is not merged; a broken file that is dropped and loaded again through
`this.load` waits for ever; the kind an unchanged external gets is that of the snapshot.

### How `LinkStage` corresponds to the code

`table` is the module table with the import records of each module (kind, target, `export *`),
its exports kind, whether it awaits at top level, has effects or gets its exports late
(JSON and other data); `metas` is `LinkingMetadata`. A pass takes one stack item, import record,
recursive call or worklist item per step, because what it did to the earlier ones matters:
`sort_modules` with its explicit stack, `compute_tla` with its memo (`visited` and `source`; the
calls of `find_tla_source` in progress are in `calls`), the promotion of exports kinds,
`wrap_modules` with its visited set and recursion, then the worklists for dynamic exports and
side effects, which take their items in any order. The properties compare each result with a definition that knows no order: closed sets
of modules. `compute_tla` admits a limitation on import cycles; `AwaitsAreFound` says
exactly what remains true there. In the run records are at most one per pair of modules, in the
order of their targets; the module and its proofs allow any. `new URL` and hot-accept records,
symbols and wrapper statements are left out. Assumed of a project (`FamiliesAssumption`): an
external module imports nothing; the runtime is an ES module, nobody requires or dynamically
imports it, and it imports external modules only (`node:module` on the node platform, nothing
elsewhere).

### How `CodeSplitting` corresponds to the code

`project` is the input and `link` what the link stage hands over: the entries in their order,
the included modules, what each module reaches, which have side effects. `bits` are those of
`IndexSplittingInfo`, `atoms` the `ChunkAtom`s with their place in the `ReducedChunkGraph`,
`candidates` the `ChunkOptimizationGraph` with the dependencies as merging leaves them, `home`
is `module_to_chunk`, `removed` the chunks with a `PostChunkOptimizationOperation`. The actions
are the passes of `split_chunks` in their order; the reduction takes one atom per step and the
merging one common chunk per step, because each changes the graph the next one is judged by.
`Load` is the page: it loads one of the user's entries, then any dynamic import of a module that
the entries it asked for need. `ChunkImports` are the imports `compute_chunk_imports` writes.

`exporting`, `strict` and `sealed` keep what decides about signatures: a module exports something,
an entry's signature is strict, a dynamic entry can neither take further exports nor be read
through a namespace. Every module exports something or has side effects, so that tree shaking
keeps it. Assumed: ES modules without top-level await, every import is of a used
binding, no re-exports, no module both given by the user and imported dynamically, no groups and
emitted chunks, no strict execution order, no verdict from `package.json`. Then what an entry loads
are the atoms with its bit, and the reduced graph starts without cycles, so only that arm of
`try_move` is needed. The runtime module and its placement are left out. With verdicts from
`package.json` a chunk without effects of its own may import one that has some, and
`leak_possible` does not look there; no run covers it.

## 3. Runs

| Run | Question | Instance |
|---|---|---|
| `Coordinator` | Are builds serialized and is fresh output fresh under failures? `TypeOK`, `BuildsAccountedFor`, `FreshMeansFresh`, `EnsureIsFresh`, `SafetyValveUnused`, `FailedRebuildStaysStale` | 2 files, 3 edits, 1 page load, 1 restart, 5 failure places; 1.8 million states |
| `LazyRoutes` | Do tsconfig changes, new imports and lazy routes keep the graph watched and patches behind reloads? `GraphIsWatched`, `ReloadBeforePatch` | 4 files (tsconfig, added import, route), 1 proxy, always-rebuild; 1.1 million states |
| `Shutdown` | Does work get done, and does `close()` at any time let everything end? `ReportIsHeard`, `CallsReturn`, `CloseReturnsEventually`, `EditsReachGraph`, `QueuedWorkRuns` | 1 file, 2 edits, 1 page load, 1 waiter, failing hooks and scans; fair; 270 thousand states |
| `HmrDelivery` | Does a page run current code, with no missing factory, gap or step back, and does the ship map claim only what it has? `TypeOK`, `ShipMapIsHonest`, `StampNamesOneFactory`, `NoMissingFactory`, `NoSequenceGap`, `PagesAreCurrent`, `NeverOlder` | 1 page, 4 modules with one lazy route, 2 edits that change text, imports and module format, failing builds and imports, 1 pending payload, patches run or left alone; 1.2 million states |
| `WatchMode` | Is every edit of a watched file built, and does `close()` end everything once? `TypeOK`, `EditsAreNotForgotten`, `CloseIsComplete`, `AtMostOneLateStart`, `CloseReturns`, `EditsAreBuilt` | 1 task, 2 files, 2 edits of any kind, 4 failure places, 1 `close()`; fair; 191 thousand states |
| `ModuleLoader` | Does any sequence of scans give the graph of the files, does a failure leave the cache as it was, and does every scan end? `TypeOK`, `FullScanExact`, `PartialScanCovers`, `CacheIsWhole`, `DynamicEntriesMatchImports`, `FailureRestoresCache`, `ScanEnds` | six modules with two barrels, a plugin that loads and emits, 3 edits that break, repair and rewire them; fair; 259 thousand states |
| `LinkStage` | Do the passes compute what their reference definitions say? `ImportsRunFirst`, `CyclesAreReal`, `AwaitsAreFound`, `WrappersAreClosed`, `EffectsReachImporters` | 13,693 projects of three modules and the runtime: all graphs of imports, `require()` and dynamic imports with an await; module kinds, formats and JSON; star exports, externals and effects; a runtime that imports an external; 586 thousand states |
| `CodeSplitting` | Does a page run what its entries need and no side effects of others, and are chunks free of import cycles, whatever was merged? `EntriesAreIsolated`, `ChunksStayAcyclic` | 6144 projects: two entries of the user's, two dynamic ones and a shared module, 8 possible static and 3 dynamic imports, options on and off; 115 thousand states |

Four runs expect a violation. Each checks one property that a comment or an
internal document states and the code does not meet (quoted in `PROJECT.json`):

* `WatchChangeFails` (`EnsureIsFresh`): a task whose `watchChange` hook fails drops its
  changed files; after the next edit of another file, output that lacks the first edit is called fresh.
* `StaleAfterRevert` (`EveryEditCounts`): an edited file whose last import moved into a broken
  file is not queued for the retry; after the repair the graph has its old code.
* `ImportedEntry` (`EntriesAreIsolated`): an entry that another entry imports is missing from the
  map the merge guard uses; shared code is merged into the importing entry, and a page that loads
  the imported one and then a dynamic import runs the importing entry's side effects. A dynamic
  module that imports the entry has the same effect.
* `LateChunk` (`LateChunksAreHarmless`): a page that left the patch of an edit alone, because the
  module had not run, has no newer factory to protect it from a lazy chunk rendered before the
  edit, and runs the old module.

TLC refutes further statements on small instances; they are listed here with what to change in
the constants of a run, and have no run of their own:

| Statement | Instance | What happens |
|---|---|---|
| `QueuedWorkRuns` | `Shutdown` with `MaxTriggers = 2`, no edits, failures or close | A restart requested during the full build of an earlier one stays queued when that build ends: the `FullBuildInProgress` arm of `handle_bundle_completed` schedules nothing (`bundle_coordinator.rs:285`), while `trigger_full_build` says "Unconditionally schedule a full build" (`:442`). During the initial build the call of `run()` itself schedules it. |
| `MissingFactoryIsKnown` | `LateChunk` | The page of `LateChunk` can also run an old copy whose import no payload brings: a third way to `MissingFactoryError` beside the two of `internal-docs/hmr/design.md:461-464`. |
| `RescansReachPages` | `LateChunk` | A rebuild or a lazy compile takes the files a failed HMR scan left (`module_loader.rs:511`) and computes no update; the engine is fresh and without errors while an open page keeps the old code. `hmr_stage.rs:229-231` means to prevent that. |
| `ScanEnds` | `ModuleLoader` with `TypedIds`, `TypedContents`, `NativeLoad = TRUE`, one edit | A native plugin (the built-in isolated-declaration plugin does it) loads an unchanged module in a partial scan and waits for a signal nobody sends (`native_plugin_context.rs:81`). |
| `CloseStopsWatcher` | `WatchMode` | `close()` in the turn of `watch()`, as in the documented example (`api/watch/index.ts:30`), resolves, and the watcher starts afterwards: `emitter.close` is replaced later (`watcher.ts:79`). |
| `EveryEditIsBuilt` | `WatchMode` | A new version moved over a watched file and its deletion cancel out in the debounce window (`watcher_state.rs:134`); no build removes the file from the output. |

Accordingly the passing runs leave out what triggers them: `Coordinator` has no failing
`watch_change`, `Shutdown` has no restart, the contents of `ModuleLoader` do not move an
import into a broken file, `NativeLoad` is FALSE there, and in `CodeSplitting` no user entry
imports another, and where a dynamic module imports one, the other has no effects of its own. The
properties of `HmrDelivery` and `WatchMode` name the cases they exempt. `EditsReachGraph`
admits the failed states: a change reported during a full build that then fails stays in the
stash, and page loads are answered with the old failure until another change arrives. If a lazy
compile comes first, its rebuild succeeds on the old graph and the output is called fresh without
the stashed edit; no run has both a failing generate stage and lazy routes. On an instance with
both and a restart TLC finds `FreshMeansFresh` violated.

**Bounds.** `MaxEdits` = 2 gives an edit before, during and after a build and one that
repairs an earlier one, and 3 (in `Coordinator`) two that are queued and merged while a third is
built; two files separate the edit that fails from the one that
follows; one page load suffices because a call reads nothing of another call;
one restart can fall into any state. `LoopLimit` is 8 in place of 100: with at most three
edits, a restart and the initial build, fewer builds than that can end while one call
waits, so `SafetyValveUnused` fails exactly if a round does not wait for a new build.
In `HmrDelivery` two edits let a patch overtake a chunk and be overtaken, and one pending
payload makes eviction happen at the second; one page suffices for `StampNamesOneFactory` too, as
copies come by patch and by chunk. In `WatchMode` two edits give every pair of
kinds in one debounce window. In `ModuleLoader` three edits are a break, a repair and a
change in between. In `LinkStage` three modules are the smallest cycle with a way in and a
way out. In `CodeSplitting` two user entries make a leak possible, and two dynamic entries with a
shared module give several common chunks, whose merges meet. No symmetry is used. Deadlock is checked in `ModuleLoader` and `LinkStage`;
elsewhere an idle server or watcher rightly waits, or a page is done.

**Fairness.** `FairSpec` has weak fairness for the coordinator's start and loop, the
running task, each call, each lazy compile and `close()`: tokio polls every task that
has been woken, and its mutex is FIFO-fair. A build step that is enabled therefore ends;
plugin hooks are assumed to return. Nothing is assumed of the environment (edits, page
loads, restarts, `close`), except that `DevEngine::run` is called. `WatchMode` is alike: weak
fairness for the coordinator, the backend threads that hand on notifications, the steps of
`close()`, and callbacks that return unless they await `close()`. In `ModuleLoader` the steps of
a scan are taken as one process that never stops while it can move; the formula is weak
fairness written without ENABLED on the large step, since `StepReady` states when it can move.

## 4. Proofs

`BundleCoordinatorProofs` proves, from `ConstantsAssumption` only, for all sets of
files, proxies and callers, all failure sets and all bounds:

* `TypeCorrect`: `Spec => []TypeOK`. `TypeOK` is inductive: one lemma per action,
  supported by lemmas on the types of messages, tasks, calls and merged tasks.
* `BuildsSerialized`: `Spec => []BuildsAccountedFor`. The invariant speaks of the
  running loop only, so `BuildInv` adds that no task exists before it starts and none
  is left after it ends. The argument counts `BundleCompleted` messages: appending one
  and taking one off the mailbox changes the count by one (`AppendCompletions`,
  `TailCompletions`); every handler starts at most one task, and none while building
  (`ScheduleEffect`, `FileChangesEffect`); so a building state owes exactly one
  completion, from the running task or from the mailbox. `unwrap()` on the future is
  thus safe, and the "unexpected state" arm of `handle_bundle_completed` is dead code.
* `CompletionReceived`: `Spec => []ReportIsHeard`, from `BuildInv`: the `expect()` at
  the end of `BundlingTask::run` cannot fail, because `Close` drains first.
* `ReloadComesFirst`: `Spec => []ReloadBeforePatch`. `unsent` says what happened and
  `lost_hmr_update` what the engine remembers of it; the invariant ties them together, so that a
  failure after the merge that forgot to set the flag, or a reload that cleared it too early,
  would break it.
* `MergeForgetsNothing`: for queues of any length, the merged task covers the files,
  rebuilds and updates of the tasks it absorbed.

`BuildResultProofs` classifies the steps of the engine (`StepKinds`: a handler, a step of the
task, of the lazy compile, of a caller, or of a bystander) and proves

* `GraphWatched`: `Spec => []GraphIsWatched`, for all failures except `lazy_late` (section 5).
  The property speaks of quiet moments, so `WatchInv` says where the list of a loaded file
  is otherwise: in a `ModuleChanged`, in the task that will report it, or in its completion.
* `FailureStaysStale`: `Spec => []FailedRebuildStaysStale`, without hypotheses. `ResultInv`
  follows the outcome of the latest rebuild from the task over its completion to the flag.

`FreshnessProofs` proves `FreshIsFresh` (`Spec => []FreshMeansFresh`) and
`EnsureAnswersFresh` (`Spec => []EnsureIsFresh`). Both assume `NothingLost`: no failing
`watch_change` or `hot_update` hook, no `lazy_late`, and not a failing generate stage together
with lazy routes. TLC violates the properties for each of the four (the first is the run
`WatchChangeFails`), so none can be dropped; scans, generating without lazy routes and the other
failures are allowed. `FreshInv` says that an edit the graph lacks is reported in the mailbox or
*due* (queued, stashed, in the task, or marked for a retry), and that a graph ahead of the
output has a `ModuleChanged` in the mailbox or a rebuild ahead. It rests on

- `GraphInv`: a full scan reads every file the engine knows, and a known file outside the
  snapshot's graph comes with the next scan;
- `InputInv`: a task that only rebuilds names no file, since no edit asks for it;
- `CacheInv`: after a failed full build there is no snapshot, so the stash that waits for the
  next file change cannot be passed by a partial scan.

For a page load `OwedInv` states what the caller was owed when it asked and that the build it
awaits serves it; `AskedInv` states, for every request in the mailbox, that what it is owed is
due once the messages ahead of it are handled. The order of the mailbox is what makes this true.

`WatchModeProofs` proves, for all tasks, files, callers, failures and bounds:

* `TypeCorrect`: `Spec => []TypeOK`, with the fact that a build runs only for the task whose
  `bundle_start` was dispatched;
* `OneLateStart`: `Spec => []AtMostOneLateStart`. `LateInv`: once something has started late, the
  coordinator is in it or on its way to the closing sequence, where no other start is possible;
* `ClosesCompletely`: `Spec => []CloseIsComplete`; `CloseInv` counts the hooks: before the close
  event none has run, afterwards each once, and a `close()` is answered only when all is done;
* `EditsRemembered`: `Spec => []EditsAreNotForgotten`. During a build the mark of
  its task does not count, because the build will clear it: `EditInv` asks then for a
  notification that is on its way, and adds that what a scan has read and not yet watched is
  still current, and that what is unwatched when the output is written counts as missed.

`HmrDeliveryProofs` proves, for all modules, clients, routes and bounds:

* `TypeCorrect`: `Spec => []TypeOK`, from `TypeInv`, which adds the shape of the task in each
  phase and that sessions, updates and pending payloads name modules of the graph only;
* `NumbersHaveNoGap`: `Spec => []NoSequenceGap`. `SeqInv`: the server's next number is what the
  page has seen, plus what is queued for it, plus one while a patch is numbered and not published;
* `ShipMapsAreHonest`: `Spec => []ShipMapIsHonest`. `PayloadInv` gives every patch and chunk a
  file of its own and ties the pending entry of a file to what it carries; `ShipInv` then says
  that a page has what its session claims and what the files it ran carried, whenever and however
  often they are reported;
* `CopiesNeverGetOlder`: `Spec => NeverOlder`. `AgeInv`: a module that runs came with the entry
  chunk or is at most as new as the page's factory, and no copy is older than the entry chunk;
* `StampsNameOneFactory`: `Spec => []StampNamesOneFactory`. `StampInv`, of pages that were not open
  when a scan without an update read an edit (`ScanIsMissed`): a copy with the latest stamp is the
  module as the graph has it now. An unchanged render does not show that the format of an
  imported module is unchanged; `SourceInv` closes this: the text names the source.

`PageMoves` carries these proofs: every step leaves a page alone, or does one of five things
to it (go, load, receive, get a patch, get a chunk), so each invariant has a case per thing.

`CurrentPageProofs` proves `PagesRunCurrentCode`, `Spec => []PagesAreCurrent`, without further
hypotheses. The property speaks of settled pages only, so the invariant says of every moment why a page will get there:

- `CurrentInv`: what a page runs has the text and the imports of the graph, or a patch that
  carries a newer copy and names the module as changed is in the inbox or about to be
  published. The same holds of every copy sent to the page, since a late chunk may still bring
  it to run, unless the page has a newer factory already, so that `registerFactory` drops it.
  A patch that is left alone keeps this true when no older copy is held or on its way;
- `DiskInv`: where graph and disk differ, the module is in the events, in the files of a task
  before its scan or among the rescans a failed scan left;
- `RecordInv`: no recorded stamp is ahead of the rebuild counter, so the next hot update finds
  every changed module stale and its patch carries it (`PatchCarries`).

`CurrentKept` shows that only the HMR stage makes code outdated, `ComingKept` that a patch stays
on its way until the page takes it, and `PushRuns` that a page that takes it re-runs what changed.

It also proves `FactoriesAreThere`, `Spec => []NoMissingFactory`. A page
runs modules now and later, with the patches that will have arrived in order and the chunks that
will have arrived in any order; so the invariant speaks of *stocks*: the factories of the
page, the first patches on their way to it (`Line`) and any of its chunks (`Stock`). The newest
copy in a stock gives a module its row of imports (`Needs`), and `Runnable` is the largest set of
modules that are there with all their imports. `FactoryInv`, of a page that missed no update and
whose hello was not late:

- `Ready`: what ran, what the entry chunk evaluated, and a route whose chunk has landed, is
  runnable from the page's factories;
- `RoutesRun`: in every stock, the routes of its chunks are runnable;
- `RowsLast`: what arrives later adds no import to a row that is not runnable with it. Hence
  what is runnable stays so (`RunnableGrows`), the step that makes the invariant inductive.

`SnapInv` says that the sessions a task works from are those of the pages. For a new patch or chunk
the argument is the walk of `collect_unheld_sync_deps` (`WalkIsHeld`): what it reaches
from the imports that were added, or from the route, is carried, shipped or runnable in the page,
and it stops at evaluated modules only, so `Ready` is needed there; `CurrentInv` gives the rows
that a patch meets (`RowsAreCurrent`, `SuppliedWithPatch`), and `StampInv` those that a chunk
meets, since what it carries or relies on has the latest stamp (`RowsAreNewest`,
`SuppliedWithChunk`). On the page's side `RunnableRuns` shows that `initModule` of a runnable
module finds every factory and leaves the runnable modules as they were.

`ExecutionOrderProofs` proves, for every import graph and every list of entries,
`ImportsComeFirst` (`SortSpec => []ImportsRunFirst`) and `ReportedCyclesAreReal`
(`SortSpec => []CyclesAreReal`). It assumes that the runtime is a module
(`RuntimeAssumption`) and, as a conjunct of `SortSpec`, that what it imports imports nothing. Neither
property is inductive: what justifies a module's place is on the stack, not in the order.
The inductive invariant `SortInv` adds:

- `ChainInv`: a waiting module leads to the module of every item above it. It makes the
  chain that closes on a re-entered module a cycle;
- `PendingInv`: what a waiting module imports was entered, or is to be entered above it;
- `ExecutedInv`: a module that was entered has left or waits, never both, and waits once;
- `RootsInv`: the runtime, the entries and the imports of the modules that left were
  entered, or are still on the stack;
- `FirstInv`: until the runtime has left, the walk is at the runtime or at a module it imports,
  and only those have left.

`Reaches` is defined by closed sets rather than by paths, so that reflexivity, a step and
transitivity are first-order lemmas and need no induction.

`LinkStageProofs` proves, for every module table, entry list and options that meet the assumptions
of section 2:

* `SortingImplemented`: `Spec => SortSpec`, the link stage implements the walk. Its steps are those
  of the walk or leave it alone; what needs an argument is the start: `DepsOf` and `EntriesOf`
  give sequences of modules, and the runtime's list names external modules only (`WalkStarts`).
  Both select from a sequence by a recursive function; `SelectType` proves its type by
  a least counterexample (`LeastNumber`, from the well-foundedness of the naturals).
  `LinkedInOrder` carries the two theorems of the walk over;
* `TopLevelAwaits`: `Spec => []AwaitsAreFound`. The property speaks of the end of the pass; `AwaitInv`
  says what holds while it searches. A result names a module that awaits and is led to
  (`SourceInv`); the modules being searched lead to each other (`CallsInv`); the imports a search
  has passed over have no result and are not searched inside it (`PassedInv`); so a search
  that is over and found nothing leads to a cycle, or its imports are over and found nothing
  either (`NothingFoundInv`), and no await can be behind it. `VerdictsInv` ties the marks and errors
  written so far to the results;
* `Wrappers`: `Spec => []WrappersAreClosed`. `WrapInv` goes through the passes: a wrapper fits the
  exports of its module (`KindInv`), and while importers promote exports a wrapped module has the
  ones it will keep (`PromotedInv`); the exports pass wraps only what is on demand, and all
  of it that it has looked at (`DemandedInv`, `AllDemandedInv`); `wrap_modules` visits only what runs
  lazily, and what a visited module imports is visited or is about to be by a call in progress
  (`VisitedInv`, `WrapLookedInv`), so the visited modules are closed under imports when it ends;
* `Effects`: `Spec => EffectsReachImporters`. `MarkedInv`: what is marked leads to effects, and the
  importers of a marked module are marked too unless it is still in the worklist.

Only model-checked:

* `SafetyValveUnused`: it holds because the bounds on edits and restarts are below `LoopLimit`,
  and would need an induction that counts the builds;
* that the merging loop computes its closed form: `MCBundleCoordinator` states the loop with a
  recursive operator and compares the two on small queues;
* `ModuleLoader` and `CodeSplitting`, which use recursive operators;
* all liveness properties: liveness under fairness is outside the prover's reach.

## 5. Not modelled

* Binding imports to exports, constants, statement inclusion, manual chunk groups, order
  wrapping, the placement of the runtime module and the module finalizers: they rewrite symbols and statements, and a model that keeps
  what decides their result would repeat the code.
* Parsing, AST transforms, code generation, source maps, the resolver and its cache, built-in
  plugins, bindings, devtools: sequential conversions of data, with no state between calls that
  a property here depends on.
* A lazy compile that fails after its merge is in the model (`lazy_late`) but no run enables
  it: `GraphIsWatched` does not hold then, since no `ModuleChanged` is sent and the route stays
  unwatched. The read of `module_table()` without a snapshot after a failed full build is left out.

## 6. Plan

1. `ModuleLoader` and `CodeSplitting`, rewritten as small steps like `LinkStage` so that their
   invariants can be proved.
2. An abstract specification of the dev engine (a queue of changes and a fresh or stale
   output) implemented by `BundleCoordinator`, and of watch mode (every reported change is
   followed by a build that started after it).
3. In `CodeSplitting`: manual groups, emitted chunks and the placement of the runtime module.
