--------------------------- MODULE BundleCoordinator ---------------------------
(***************************************************************************)
(* The dev engine of rolldown (crates/rolldown_dev): a coordinator that    *)
(* owns a queue of build tasks and a FIFO mailbox, the one bundling task   *)
(* it lets run at a time, and the public calls of DevEngine that talk to   *)
(* it (ensure_latest_bundle_output, wait_for_ongoing_bundle,               *)
(* trigger_full_build, compile_lazy_entry, close), together with the file  *)
(* system watcher and the parts of the bundler that decide whether an edit *)
(* has reached the output.                                                 *)
(*                                                                         *)
(* File contents are abstracted to who is behind whom: unscanned files are *)
(* newer on disk than in the module graph, unbuilt files are newer in the  *)
(* graph than in the bundle output.                                        *)
(***************************************************************************)
EXTENDS Naturals, Sequences, FiniteSets

CONSTANTS
  Files,          \* source files the module graph can contain
  Tsconfigs,      \* those that are known tsconfig files
  Added,          \* those only an edit made during the session imports
  Proxies,        \* lazy proxy modules (ids ending in ?rolldown-lazy=1)
  Target,         \* [Proxies -> Files], the real module behind a proxy
  Callers,        \* calls of ensure_latest_bundle_output, each made once
  RunCall,        \* the one of them that DevEngine::run makes
  Waiters,        \* calls of wait_for_ongoing_bundle, each made once
  RebuildAlways,  \* options.rebuild_strategy.is_always()
  HasHmrCallback, \* options.on_hmr_updates is set
  Failures,       \* places where a build or a plugin hook may fail
  MayClose,       \* DevEngine::close may be called
  LoopLimit,      \* the safety valve of the ensure loop (100 in the code)
  MaxEdits,       \* bound: edits of files
  MaxTriggers     \* bound: calls of trigger_full_build

\* Where the code can take an error path.  before_scan stands for whatever
\* fails once a build has its watch list and before it reads a file.
FailurePlaces ==
  {"watch_change", "hot_update", "hmr_scan", "hmr_late", "before_scan", "scan",
   "generate", "lazy_scan", "lazy_late", "close_bundle"}

ASSUME ConstantsAssumption ==
  /\ Tsconfigs \subseteq Files
  /\ Added \subseteq Files
  /\ Proxies \cap Files = {}
  /\ Target \in [Proxies -> Files]
  /\ RunCall \in Callers
  /\ Callers \cap Waiters = {}
  /\ RebuildAlways \in BOOLEAN
  /\ HasHmrCallback \in BOOLEAN
  /\ MayClose \in BOOLEAN
  /\ Failures \subseteq FailurePlaces
  /\ LoopLimit \in Nat
  /\ MaxEdits \in Nat
  /\ MaxTriggers \in Nat

INSTANCE TaskInput WITH Paths <- Files \cup Proxies

VARIABLES
  \* BundleCoordinator
  coordinator,             \* the run loop: "init", "running", "draining", "terminated"
  state,                   \* self.state, without the field of Failed
  last_error_stage,        \* the field of Failed { last_error_stage }
  stash,                   \* queued_file_changes_waited_for_full_build
  queued_tasks,
  has_stale_bundle_output,
  current_bundling_future, \* current_bundling_future.is_some()
  watched,                 \* paths registered with the fs watcher
  mailbox,                 \* the unbounded mpsc channel, in FIFO order
  \* BundlingTask
  task,                    \* the latest spawned task
  running,                 \* how many spawned tasks have not finished
  last_task_errored,       \* DevContext::last_task_errored
  rebuild_failed,          \* history: the latest rebuild ended in an error
  \* Bundler
  bundler_lock,            \* "free" or held across steps by "close"
  has_snapshot,            \* cache.has_snapshot()
  pending_rescans,         \* cache.pending_rescans
  lost_hmr_update,
  unsent,                  \* history: the graph has an edit whose patch was lost
  loaded,                  \* files in the module graph
  watch_files,             \* watch list of the latest build
  fetched,                 \* proxies the lazy compilation plugin serves fetched
  \* DevEngine
  is_closed,
  call,                    \* progress of each ensure / wait call
  close_pc,                \* progress of close()
  lazy_pc,                 \* progress of compile_lazy_entry per proxy
  \* the files themselves
  unscanned,               \* newer on disk than in the graph
  unbuilt,                 \* newer in the graph than in the output
  unreported,              \* edited while the watcher did not watch them
  edits,                   \* edits made so far
  triggers                 \* calls of trigger_full_build made so far

coordVars  == <<coordinator, state, last_error_stage, stash, queued_tasks,
                has_stale_bundle_output, current_bundling_future>>
taskVars   == <<task, running>>
resultVars == <<last_task_errored, rebuild_failed>>
graphVars  == <<has_snapshot, pending_rescans, lost_hmr_update, unsent, loaded,
                watch_files, fetched>>
engineVars == <<is_closed, close_pc, lazy_pc>>
fileVars   == <<unscanned, unbuilt, unreported>>
envVars    == <<edits, triggers>>
vars == <<coordVars, watched, mailbox, taskVars, resultVars, bundler_lock,
          graphVars, engineVars, call, fileVars, envVars>>

-----------------------------------------------------------------------------
(* Messages (types/coordinator_msg.rs). *)

States == {"Initialized", "Idle", "FullBuildInProgress", "FullBuildFailed",
           "InProgress", "Failed"}
Building == {"FullBuildInProgress", "InProgress"}
Stages == {"None", "Hmr", "Rebuild"}

WatchEvent(fs)   == [type |-> "WatchEvent", files |-> fs]
ModuleChanged(p, list) ==
  [type |-> "ModuleChanged", module_id |-> p, watch_files |-> list]
BundleCompleted(stage, generated, list) ==
  [type |-> "BundleCompleted", error_stage |-> stage,
   has_generated_bundle_output |-> generated, hmr_stage_watch_files |-> list]
Request(kind, c) == [type |-> kind, reply |-> c]
Signal(kind)     == [type |-> kind]

Msgs ==
  [type : {"WatchEvent"}, files : SUBSET Files]
    \cup [type : {"ModuleChanged"}, module_id : Proxies, watch_files : SUBSET Files]
    \cup [type : {"BundleCompleted"}, error_stage : Stages,
          has_generated_bundle_output : BOOLEAN, hmr_stage_watch_files : SUBSET Files]
    \cup [type : {"EnsureLatestBundleOutput"}, reply : Callers]
    \cup [type : {"GetState"}, reply : Waiters]
    \cup [type : {"TriggerFullBuild", "Close"}]

InMailbox(kind) == \E i \in DOMAIN mailbox : mailbox[i].type = kind

\* The receiver is dropped when the run loop ends, and what is sent to it
\* afterwards, or was still queued, is gone.
Post(m) == mailbox' = IF coordinator = "terminated" THEN mailbox ELSE Append(mailbox, m)

Received(kind) ==
  /\ coordinator = "running"
  /\ mailbox # <<>>
  /\ Head(mailbox).type = kind
  /\ mailbox' = Tail(mailbox)

-----------------------------------------------------------------------------
(* Bundling tasks (bundling_task.rs). *)

NoTask == [pc |-> "none", input |-> FullBuild, hmr_errored |-> FALSE,
           rebuild_errored |-> FALSE, has_rebuild_happen |-> FALSE,
           hmr_stage_watch_files |-> {}]

\* BundlingTask::new
NewTask(input) == [NoTask EXCEPT !.pc = "hooks", !.input = input]

Tasks == [pc : {"none", "hooks", "reload", "hmr", "rebuild", "report"},
          input : TaskInputs, hmr_errored : BOOLEAN, rebuild_errored : BOOLEAN,
          has_rebuild_happen : BOOLEAN, hmr_stage_watch_files : SUBSET Files]

\* The task's next stage, given what its input asks for.
AfterReload(input) ==
  IF require_generate_hmr_update(input) THEN "hmr"
  ELSE IF requires_rebuild(input) THEN "rebuild" ELSE "report"
AfterHmr(input) == IF requires_rebuild(input) THEN "rebuild" ELSE "report"

\* A failed rebuild outranks a failed HMR stage.
final_error_stage(t) ==
  IF t.rebuild_errored THEN "Rebuild" ELSE IF t.hmr_errored THEN "Hmr" ELSE "None"

-----------------------------------------------------------------------------
(***************************************************************************)
(* Callers.  A call is a record: pc, whether the awaited future was the    *)
(* one scheduled for it (is_ensure_latest_bundle_output_future), the loop  *)
(* count, and how it ended.  owed_scan and owed_build are history: files   *)
(* with a reported edit, or with graph content the output lacks, when the  *)
(* call was made, by what still has to happen to them.                     *)
(***************************************************************************)
AllCalls == Callers \cup Waiters

IdleCall == [pc |-> "idle", flag |-> FALSE, loops |-> 0, result |-> "none",
             owed_scan |-> {}, owed_build |-> {}]

Calls == [pc : {"idle", "send", "reply", "await", "woken", "done"},
          flag : BOOLEAN, loops : Nat,
          result : {"none", "fresh", "failed", "closed", "limit", "waited"},
          owed_scan : SUBSET Files, owed_build : SUBSET Files]

\* A scan that reads the files S settles what a caller is owed of them, up to
\* the next output.
OwedAfterScan(S) ==
  [c \in AllCalls |->
     [call[c] EXCEPT !.owed_scan  = @ \ S,
                     !.owed_build = @ \cup (call[c].owed_scan \cap S)]]

\* A build that reads the files S and writes the output settles those too.
OwedAfterBuild(S) ==
  [c \in AllCalls |->
     [call[c] EXCEPT !.owed_scan = @ \ S, !.owed_build = {}]]

Ended(c, result) == [call EXCEPT ![c].pc = "done", ![c].result = result]

\* The caller of c now holds the future of the running task.  A task that has
\* finished without the coordinator having read its message resolves at once.
Awaiting(c, flag) ==
  [call EXCEPT ![c].pc = IF running' = 0 THEN "woken" ELSE "await", ![c].flag = flag]

-----------------------------------------------------------------------------
(* Scheduling (bundle_coordinator.rs). *)

\* The coordinator's state, task queue and future as a handler leaves them
\* when it starts nothing.
StartNothing(st, stage, q, fut) ==
  /\ state' = st
  /\ last_error_stage' = stage
  /\ queued_tasks' = q
  /\ current_bundling_future' = fut
  /\ UNCHANGED taskVars

\* A task made of the front of the queue q is spawned, and stage is what is
\* left of an earlier failure.
StartTask(q, stage) ==
  /\ state' = IF requires_full_rebuild(MergedTask(q))
              THEN "FullBuildInProgress" ELSE "InProgress"
  /\ last_error_stage' = stage
  /\ queued_tasks' = RemainingTasks(q)
  /\ current_bundling_future' = TRUE
  /\ task' = NewTask(MergedTask(q))
  /\ running' = running + 1

\* Starts a task without looking whether one is running.
ScheduleEvenIfBuilding(st, stage, q, fut) ==
  \/ q = <<>> /\ StartNothing(st, stage, q, fut)
  \/ q # <<>> /\ StartTask(q, "None")

\* Called with the state, queue and future the handler has assigned so far.
schedule_build_if_stale(st, stage, q, fut) ==
  \/ /\ st \in Building \cup {"Initialized"} \/ q = <<>>
     /\ StartNothing(st, stage, q, fut)
  \/ /\ st \in {"Idle", "FullBuildFailed", "Failed"}
     /\ q # <<>>
     /\ StartTask(q, "None")

\* The task a file change asks for outside full builds.
TaskForChanges(st, stage, fs) ==
  IF RebuildAlways \/ (st = "Failed" /\ stage = "Rebuild")
  THEN HmrRebuild(fs) ELSE Hmr(fs)

\* sh is the stash before the call.
handle_file_changes(st, stage, fs, sh, fut) ==
  \/ /\ fs = {} \/ st = "Initialized"
     /\ stash' = sh
     /\ StartNothing(st, stage, queued_tasks, fut)
  \/ /\ fs # {} /\ st = "FullBuildInProgress"
     /\ stash' = sh \cup fs
     /\ StartNothing(st, stage, queued_tasks, fut)
  \/ /\ fs # {} /\ st \in {"Idle", "InProgress", "Failed"}
     /\ stash' = sh
     /\ schedule_build_if_stale(st, stage,
          Append(queued_tasks, TaskForChanges(st, stage, fs)), fut)
  \/ /\ fs # {} /\ st = "FullBuildFailed"
     /\ stash' = {}
     /\ schedule_build_if_stale(st, stage, Append(queued_tasks, FullBuild), fut)

-----------------------------------------------------------------------------
(* The coordinator's run loop: start, one action per message, end. *)

\* DevEngine::run spawns the loop; its own ensure_latest_bundle_output is the
\* call RunCall, which begins once the loop is there.
Start ==
  /\ coordinator = "init"
  /\ coordinator' = "running"
  /\ schedule_build_if_stale("Idle", "None", Append(queued_tasks, FullBuild),
                             current_bundling_future)
  /\ UNCHANGED <<stash, has_stale_bundle_output, watched, mailbox,
                 resultVars, bundler_lock, graphVars, engineVars, call,
                 fileVars, envVars>>

HandleWatchEvent ==
  /\ Received("WatchEvent")
  /\ handle_file_changes(state, last_error_stage, Head(mailbox).files, stash,
                         current_bundling_future)
  /\ UNCHANGED <<coordinator, has_stale_bundle_output, watched,
                 resultVars, bundler_lock, graphVars, engineVars, call,
                 fileVars, envVars>>

\* The FullBuildInProgress arm without the stashed changes.
CompleteDroppingStash(m) ==
  /\ state = "FullBuildInProgress"
  /\ has_stale_bundle_output' = (m.error_stage # "None")
  /\ stash' = {}
  /\ StartNothing(IF m.error_stage = "None" THEN "Idle" ELSE "FullBuildFailed",
                  "None", queued_tasks, FALSE)

\* The FullBuildInProgress arm with the stash queued as it is, empty or not.
CompleteQueueingStash(m) ==
  /\ state = "FullBuildInProgress"
  /\ \/ /\ m.error_stage # "None"
        /\ has_stale_bundle_output' = TRUE
        /\ stash' = stash
        /\ StartNothing("FullBuildFailed", "None", queued_tasks, FALSE)
     \/ /\ m.error_stage = "None"
        /\ has_stale_bundle_output' = FALSE
        /\ stash' = {}
        /\ schedule_build_if_stale("Idle", "None",
             Append(queued_tasks, TaskForChanges("Idle", "None", stash)), FALSE)

\* The FullBuildInProgress arm; nothing schedules what is left in queued_tasks.
CompleteFullBuild(m) ==
  /\ state = "FullBuildInProgress"
  /\ \/ /\ m.error_stage # "None"
        /\ has_stale_bundle_output' = TRUE
        /\ stash' = stash
        /\ StartNothing("FullBuildFailed", "None", queued_tasks, FALSE)
     \/ /\ m.error_stage = "None"
        /\ has_stale_bundle_output' = FALSE
        /\ handle_file_changes("Idle", "None", stash, {}, FALSE)

\* The InProgress arm, in the form that schedules only after a success.
CompleteThenDrainOnSuccess(m) ==
  /\ state = "InProgress"
  /\ stash' = stash
  /\ \/ /\ m.error_stage # "None"
        /\ has_stale_bundle_output' = TRUE
        /\ StartNothing("Failed", m.error_stage, queued_tasks, FALSE)
     \/ /\ m.error_stage = "None"
        /\ has_stale_bundle_output' = ~m.has_generated_bundle_output
        /\ schedule_build_if_stale("Idle", "None", queued_tasks, FALSE)

\* Variant: a completed build is taken for a successful one.
CompleteIgnoringErrors(m) ==
  /\ state = "InProgress"
  /\ stash' = stash
  /\ has_stale_bundle_output' = ~m.has_generated_bundle_output
  /\ schedule_build_if_stale("Idle", "None", queued_tasks, FALSE)

\* The InProgress arm.
CompleteIncremental(m) ==
  /\ state = "InProgress"
  /\ stash' = stash
  /\ \/ /\ m.error_stage # "None"
        /\ has_stale_bundle_output' = TRUE
        /\ schedule_build_if_stale("Failed", m.error_stage, queued_tasks, FALSE)
     \/ /\ m.error_stage = "None"
        /\ has_stale_bundle_output' = ~m.has_generated_bundle_output
        /\ schedule_build_if_stale("Idle", "None", queued_tasks, FALSE)

\* update_watch_paths needs the bundler lock for the latest list.
update_watch_paths(m) == /\ bundler_lock = "free"
                         /\ watched' = watched \cup watch_files
                                               \cup m.hmr_stage_watch_files

HandleBundleCompleted ==
  /\ Received("BundleCompleted")
  /\ LET m == Head(mailbox) IN
     \/ /\ state \in Building
        /\ update_watch_paths(m)
        /\ CompleteFullBuild(m) \/ CompleteIncremental(m)
     \/ /\ state \notin Building       \* logged and ignored
        /\ StartNothing(state, last_error_stage, queued_tasks,
                        current_bundling_future)
        /\ UNCHANGED <<watched, has_stale_bundle_output, stash>>
  /\ UNCHANGED <<coordinator, resultVars, bundler_lock, graphVars,
                 engineVars, call, fileVars, envVars>>

\* Watch the lists the message does not carry: those of the latest build.
RegisterLatestList(m) == watched' = watched \cup watch_files

\* register_watch_files with the list the lazy compile sent.
RegisterLazyList(m) == watched' = watched \cup m.watch_files

HandleModuleChanged ==
  /\ Received("ModuleChanged")
  /\ RegisterLazyList(Head(mailbox))
  /\ has_stale_bundle_output' = TRUE
  /\ schedule_build_if_stale(state, last_error_stage,
       Append(queued_tasks, Rebuild({Head(mailbox).module_id})),
       current_bundling_future)
  /\ UNCHANGED <<coordinator, stash, resultVars, bundler_lock, graphVars,
                 engineVars, call, fileVars, envVars>>

\* trigger_full_build
HandleTriggerFullBuild ==
  /\ Received("TriggerFullBuild")
  /\ schedule_build_if_stale(state, last_error_stage, <<FullBuild>>,
                             current_bundling_future)
  /\ UNCHANGED <<coordinator, stash, has_stale_bundle_output, watched,
                 resultVars, bundler_lock, graphVars, engineVars, call,
                 fileVars, envVars>>

\* ensure_latest_bundle_output (BundleCoordinator)
HandleEnsureLatestBundleOutput ==
  /\ Received("EnsureLatestBundleOutput")
  /\ LET c == Head(mailbox).reply
         Keep == StartNothing(state, last_error_stage, queued_tasks,
                              current_bundling_future)
     IN
     \/ /\ state = "Idle" /\ queued_tasks = <<>> /\ has_stale_bundle_output
        /\ schedule_build_if_stale(state, last_error_stage, <<Rebuild({})>>,
                                   current_bundling_future)
        /\ call' = Awaiting(c, TRUE)
     \/ /\ state = "Idle" /\ queued_tasks = <<>> /\ ~has_stale_bundle_output
        /\ Keep
        /\ call' = Ended(c, "fresh")
     \/ /\ state = "Idle" /\ queued_tasks # <<>>
        /\ schedule_build_if_stale(state, last_error_stage, queued_tasks,
                                   current_bundling_future)
        /\ call' = Awaiting(c, FALSE)
     \/ /\ state \in Building
        /\ Keep
        /\ call' = Awaiting(c, FALSE)
     \/ /\ state \in {"FullBuildFailed", "Failed", "Initialized"}
        /\ Keep
        /\ call' = Ended(c, "failed")
  /\ UNCHANGED <<coordinator, stash, has_stale_bundle_output, watched,
                 resultVars, bundler_lock, graphVars, engineVars,
                 fileVars, envVars>>

\* create_state_snapshot; the reply's running_future is what the waiter awaits.
HandleGetState ==
  /\ Received("GetState")
  /\ UNCHANGED <<coordVars, taskVars>>
  /\ LET c == Head(mailbox).reply IN
     call' = IF current_bundling_future THEN Awaiting(c, FALSE) ELSE Ended(c, "waited")
  /\ UNCHANGED <<watched, resultVars, bundler_lock, graphVars, engineVars,
                 fileVars, envVars>>

\* The Close arm, awaiting the running task or not before the loop ends.  The
\* end of the loop drops the receiver with what it still holds.
LeaveLoop(drain) ==
  /\ coordinator = "running"
  /\ mailbox # <<>>
  /\ Head(mailbox).type = "Close"
  /\ coordinator' = IF drain THEN "draining" ELSE "terminated"
  /\ mailbox' = IF drain THEN Tail(mailbox) ELSE <<>>
  /\ current_bundling_future' = FALSE
  /\ UNCHANGED <<state, last_error_stage, stash, queued_tasks,
                 has_stale_bundle_output, watched, taskVars, resultVars,
                 bundler_lock, graphVars, engineVars, call, fileVars, envVars>>

CloseWithoutDraining == LeaveLoop(FALSE)

\* current_bundling_future.take()
HandleClose == LeaveLoop(current_bundling_future)

\* The awaited future is resolved: break, and drop the receiver.
Terminate ==
  /\ coordinator = "draining"
  /\ running = 0
  /\ coordinator' = "terminated"
  /\ mailbox' = <<>>
  /\ UNCHANGED <<state, last_error_stage, stash, queued_tasks,
                 has_stale_bundle_output, current_bundling_future, watched,
                 taskVars, resultVars, bundler_lock, graphVars,
                 engineVars, call, fileVars, envVars>>

-----------------------------------------------------------------------------
(***************************************************************************)
(* Scans and builds.  A partial scan of the graph re-reads the changed     *)
(* files it has, and the files pending_rescans carries over from an        *)
(* aborted scan; a file that was edited may import files in Added.         *)
(***************************************************************************)
\* The next partial scan forgets the files of the aborted one.
ScanChangedOnly(input) == changed_files(input) \cap (loaded \cup Proxies)

PartialScanSet(input) ==
  (changed_files(input) \cap (loaded \cup Proxies)) \cup pending_rescans

\* The sets of files new to the graph that a scan of S may load: the routes
\* behind proxies that serve their fetched template, and what edits import.
PulledIn(S) ==
  LET routes  == {Target[p] : p \in S \cap fetched} \ loaded
      imports == IF S \cap unscanned = {} THEN {{}} ELSE SUBSET (Added \ loaded)
  IN {routes \cup new : new \in imports}

\* What a full scan reaches: everything but the routes no proxy has opened
\* and the files no edit has imported.
Opened == loaded \cup {Target[p] : p \in fetched}
Reachable == Files \ (({Target[p] : p \in Proxies} \cup Added) \ Opened)

\* A scan read the files S and G (G new to the graph) and merged them.
MergeScan(S, G) ==
  /\ unscanned'  = unscanned \ (S \cup G)
  /\ unreported' = unreported \ (S \cup G)
  /\ loaded'     = loaded \cup G

GraphAhead(S, G) == unbuilt \cup (S \cap unscanned) \cup G

ScanFailed == UNCHANGED <<unscanned, unreported, loaded, unbuilt, call>>

-----------------------------------------------------------------------------
(* BundlingTask::run and run_inner, one action per bundler lock region. *)

TaskAt(pc) == task.pc = pc /\ running > 0

taskFrame == <<coordVars, watched, bundler_lock, engineVars, envVars>>

\* The watch_change hooks.  An error leaves run_inner.
RunWatchChange ==
  /\ TaskAt("hooks")
  /\ bundler_lock = "free"
  /\ \/ task' = [task EXCEPT !.pc = "reload"]
     \/ /\ "watch_change" \in Failures
        /\ changed_files(task.input) # {}
        /\ task' = [task EXCEPT !.pc = "report", !.hmr_errored = TRUE]
  /\ UNCHANGED <<taskFrame, running, mailbox, resultVars, graphVars, call,
                 fileVars>>

\* A lost update does not upgrade the task.
ReloadOnTsconfigOnly(input) == changed_files(input) \cap Tsconfigs # {}

\* reload_reason.is_some(): every client is told to reload and the task turns
\* into a full build, whatever state the coordinator is in.
MustReload(input) ==
  changed_files(input) \cap Tsconfigs # {} \/ lost_hmr_update

DecideReload ==
  /\ TaskAt("reload")
  /\ bundler_lock = "free"
  /\ LET input == IF MustReload(task.input) THEN FullBuild ELSE task.input IN
     task' = [task EXCEPT !.pc = AfterReload(input), !.input = input]
  /\ UNCHANGED <<taskFrame, running, mailbox, resultVars, graphVars, call,
                 fileVars>>

\* generate_hmr_updates returned Err: the task goes on only when the consumer
\* got the error through its callback.
HmrFailed ==
  task' = [task EXCEPT !.hmr_errored = TRUE,
                       !.pc = IF HasHmrCallback THEN AfterHmr(task.input) ELSE "report"]

\* The step-1 failure of an update that forgets the files it was to retry.
RevertForgetsRescans(S) == pending_rescans' = {}

\* revert_partial_scan
RequeueRescans(S) == pending_rescans' = S

\* compute_hmr_update_for_file_changes: hooks, one refetch, merge, patches.
GenerateHmrUpdates ==
  /\ TaskAt("hmr")
  /\ bundler_lock = "free"
  /\ LET S == IF has_snapshot THEN PartialScanSet(task.input) ELSE {} IN
     \/ /\ "hot_update" \in Failures
        /\ HmrFailed
        /\ ScanFailed
        /\ UNCHANGED <<pending_rescans, lost_hmr_update, unsent, watch_files>>
     \/ /\ S = {}                                   \* Noop for every client
        /\ task' = [task EXCEPT !.pc = AfterHmr(task.input)]
        /\ ScanFailed
        /\ UNCHANGED <<pending_rescans, lost_hmr_update, unsent, watch_files>>
     \/ /\ S # {} /\ "hmr_scan" \in Failures
        /\ HmrFailed
        /\ ScanFailed
        /\ RequeueRescans(S)
        /\ watch_files' = watch_files \cup (S \cap Files)
        /\ UNCHANGED <<lost_hmr_update, unsent>>
     \/ /\ S # {}
        /\ \E G \in PulledIn(S) :
             /\ MergeScan(S, G)
             /\ unbuilt' = GraphAhead(S, G)
             /\ watch_files' = watch_files \cup (S \cap Files) \cup G
             /\ call' = OwedAfterScan(S \cup G)
        /\ pending_rescans' = {}
        /\ \/ /\ task' = [task EXCEPT !.pc = AfterHmr(task.input)]
              /\ UNCHANGED <<lost_hmr_update, unsent>>
           \/ /\ "hmr_late" \in Failures           \* the edit is merged already
              /\ HmrFailed
              /\ lost_hmr_update' = TRUE
              /\ unsent' = TRUE
  /\ UNCHANGED <<taskFrame, running, mailbox, resultVars, has_snapshot,
                 fetched>>

\* The task with the outcome of its rebuild.  The list the HMR stage wrote to
\* is kept, because the build has a new one.
Rebuilt(failed) ==
  /\ task' = [task EXCEPT !.pc = "report", !.has_rebuild_happen = TRUE,
                       !.rebuild_errored = failed,
                       !.hmr_stage_watch_files =
                          IF require_generate_hmr_update(task.input)
                          THEN watch_files ELSE {}]
  /\ rebuild_failed' = failed

\* A full scan starts from an empty cache.
FullScanBuild ==
  \/ /\ Failures \cap {"before_scan", "scan"} # {}
     /\ Rebuilt(TRUE)
     /\ has_snapshot' = FALSE
     /\ ScanFailed
     /\ \E read \in SUBSET Reachable : watch_files' = read
     /\ UNCHANGED <<lost_hmr_update, unsent>>
  \/ \E G \in PulledIn(Files) :
     /\ MergeScan(Reachable, Reachable \cup G)
     /\ has_snapshot' = TRUE
     /\ watch_files' = Reachable \cup G
     /\ \/ /\ Rebuilt(FALSE)
           /\ unbuilt' = {}
           /\ call' = OwedAfterBuild(Reachable \cup G)
           /\ lost_hmr_update' = FALSE
           /\ unsent' = FALSE
        \/ /\ "generate" \in Failures
           /\ Rebuilt(TRUE)
           /\ unbuilt' = GraphAhead(Reachable, (Reachable \cup G) \ loaded)
           /\ call' = OwedAfterScan(Reachable \cup G)
           /\ UNCHANGED <<lost_hmr_update, unsent>>

PartialScanBuild ==
  LET S == PartialScanSet(task.input) IN
  /\ \/ /\ "before_scan" \in Failures
        /\ Rebuilt(TRUE)
        /\ ScanFailed
        /\ watch_files' = {}
        /\ UNCHANGED pending_rescans
     \/ /\ S # {} /\ "scan" \in Failures
        /\ Rebuilt(TRUE)
        /\ ScanFailed
        /\ watch_files' = S \cap Files
        /\ RequeueRescans(S)
     \/ \E G \in PulledIn(S) :
        /\ MergeScan(S, G)
        /\ watch_files' = (S \cap Files) \cup G
        /\ pending_rescans' = {}
        /\ \/ /\ Rebuilt(FALSE)
              /\ unbuilt' = {}
              /\ call' = OwedAfterBuild(S \cup G)
           \/ /\ "generate" \in Failures
              /\ Rebuilt(TRUE)
              /\ unbuilt' = GraphAhead(S, G)
              /\ call' = OwedAfterScan(S \cup G)
  /\ UNCHANGED <<has_snapshot, lost_hmr_update, unsent>>

\* rebuild: without a snapshot every scan is a full one.
RunRebuild ==
  /\ TaskAt("rebuild")
  /\ bundler_lock = "free"
  /\ \/ /\ requires_full_rebuild(task.input) \/ ~has_snapshot
        /\ FullScanBuild
        /\ pending_rescans' = {}
     \/ /\ ~requires_full_rebuild(task.input) /\ has_snapshot
        /\ PartialScanBuild
  /\ UNCHANGED <<taskFrame, running, mailbox, last_task_errored, fetched>>

\* The calls that await the task are woken; the one it was scheduled for has
\* its answer.
Woken(stage) ==
  [c \in AllCalls |->
     IF call[c].pc = "await"
     THEN [call[c] EXCEPT !.pc = "woken",
             !.result = IF ~call[c].flag THEN @
                        ELSE IF stage = "None" THEN "fresh" ELSE "failed"]
     ELSE call[c]]

TaskEnds(stage) ==
  /\ TaskAt("report")
  /\ last_task_errored' = (stage # "None")
  /\ call' = Woken(stage)
  /\ task' = NoTask
  /\ running' = running - 1
  /\ UNCHANGED <<taskFrame, rebuild_failed, graphVars, fileVars>>

\* A task that failed returns before it sends its message.
ReportSuccessOnly ==
  /\ TaskEnds(final_error_stage(task))
  /\ IF final_error_stage(task) = "None"
     THEN Post(BundleCompleted("None", task.has_rebuild_happen,
                               task.hmr_stage_watch_files))
     ELSE UNCHANGED mailbox

\* The end of run: the message is in the mailbox before the future resolves
\* and wakes whoever awaits it.
ReportCompletion ==
  LET stage == final_error_stage(task) IN
  /\ TaskEnds(stage)
  /\ Post(BundleCompleted(stage, task.has_rebuild_happen,
                          task.hmr_stage_watch_files))

-----------------------------------------------------------------------------
(* DevEngine: the calls that wait for a build (dev_engine.rs). *)

\* Only ensure_latest_bundle_output promises anything about the output.
Owed(c, fs) == IF c \in Callers THEN fs ELSE {}

\* create_error_if_closed / is_closed() at the head of both calls; run makes
\* its call when it has spawned the coordinator.
BeginCall(c) ==
  /\ call[c].pc = "idle"
  /\ c = RunCall => coordinator # "init"
  /\ ~is_closed
  /\ call' = [call EXCEPT ![c].pc = "send",
                          ![c].owed_scan = Owed(c, unscanned \ unreported),
                          ![c].owed_build = Owed(c, unbuilt)]
  /\ UNCHANGED <<coordVars, watched, mailbox, taskVars, resultVars,
                 bundler_lock, graphVars, engineVars, fileVars, envVars>>

\* One round of the loop in ensure_latest_bundle_output, up to the send.
SendEnsure(c) ==
  /\ c \in Callers
  /\ call[c].pc = "send"
  /\ \/ /\ call[c].loops >= LoopLimit
        /\ call' = Ended(c, "limit")
        /\ UNCHANGED mailbox
     \/ /\ call[c].loops < LoopLimit
        /\ coordinator = "terminated"
        /\ call' = Ended(c, "closed")
        /\ UNCHANGED mailbox
     \/ /\ call[c].loops < LoopLimit
        /\ coordinator # "terminated"
        /\ Post(Request("EnsureLatestBundleOutput", c))
        /\ call' = [call EXCEPT ![c].pc = "reply", ![c].loops = @ + 1]
  /\ UNCHANGED <<coordVars, watched, taskVars, resultVars, bundler_lock,
                 graphVars, engineVars, fileVars, envVars>>

\* wait_for_ongoing_bundle, up to the send.
SendGetState(c) ==
  /\ c \in Waiters
  /\ call[c].pc = "send"
  /\ \/ /\ coordinator = "terminated"
        /\ call' = Ended(c, "closed")
        /\ UNCHANGED mailbox
     \/ /\ coordinator # "terminated"
        /\ Post(Request("GetState", c))
        /\ call' = [call EXCEPT ![c].pc = "reply"]
  /\ UNCHANGED <<coordVars, watched, taskVars, resultVars, bundler_lock,
                 graphVars, engineVars, fileVars, envVars>>

\* The receiver was dropped with the request in it: the engine is closed.
ReplyDropped(c) ==
  /\ call[c].pc = "reply"
  /\ coordinator = "terminated"
  /\ call' = Ended(c, "closed")
  /\ UNCHANGED <<coordVars, watched, mailbox, taskVars, resultVars,
                 bundler_lock, graphVars, engineVars, fileVars, envVars>>

\* Returns after any build, whoever it was scheduled for.
ReturnAfterAnyBuild(c) ==
  /\ call[c].pc = "woken"
  /\ call' = [call EXCEPT ![c].pc = "done",
                          ![c].result = IF c \in Waiters THEN "waited"
                                        ELSE IF @ = "none" THEN "fresh" ELSE @]
  /\ UNCHANGED <<coordVars, watched, mailbox, taskVars, resultVars,
                 bundler_lock, graphVars, engineVars, fileVars, envVars>>

\* The awaited build is over: break, or ask again.
Resume(c) ==
  /\ call[c].pc = "woken"
  /\ \/ /\ c \in Waiters
        /\ call' = Ended(c, "waited")
     \/ /\ c \in Callers /\ call[c].flag
        /\ call' = [call EXCEPT ![c].pc = "done"]
     \/ /\ c \in Callers /\ ~call[c].flag
        /\ call' = [call EXCEPT ![c].pc = "send"]
  /\ UNCHANGED <<coordVars, watched, mailbox, taskVars, resultVars,
                 bundler_lock, graphVars, engineVars, fileVars, envVars>>

\* DevEngine::trigger_full_build
TriggerFullBuild ==
  /\ triggers < MaxTriggers
  /\ ~is_closed
  /\ triggers' = triggers + 1
  /\ Post(Signal("TriggerFullBuild"))
  /\ UNCHANGED <<coordVars, watched, taskVars, resultVars, bundler_lock,
                 graphVars, engineVars, call, fileVars, edits>>

-----------------------------------------------------------------------------
(* DevEngine::compile_lazy_entry.  The bundler lock is held from the request *)
(* to the message, so the compile is one step.                              *)

RequestLazy(p) ==
  /\ lazy_pc[p] = "idle"
  /\ loaded # {}             \* a page of some earlier build asks for it
  /\ ~is_closed
  /\ lazy_pc' = [lazy_pc EXCEPT ![p] = "locking"]
  /\ UNCHANGED <<coordVars, watched, mailbox, taskVars, resultVars,
                 bundler_lock, graphVars, is_closed, close_pc, call, fileVars,
                 envVars>>

CompileLazyEntry(p) ==
  /\ lazy_pc[p] = "locking"
  /\ bundler_lock = "free"
  /\ lazy_pc' = [lazy_pc EXCEPT ![p] = "done"]
  /\ fetched' = fetched \cup {p}                    \* mark_as_fetched, first
  /\ LET S == {p} \cup pending_rescans IN
     \/ /\ ~has_snapshot                            \* the error of hmr_stage.rs
        /\ ScanFailed
        /\ UNCHANGED <<mailbox, pending_rescans, watch_files>>
     \/ /\ has_snapshot /\ "lazy_scan" \in Failures
        /\ ScanFailed
        /\ RequeueRescans(S)
        /\ watch_files' = watch_files \cup (S \cap Files) \cup {Target[p]}
        /\ UNCHANGED mailbox
     \/ /\ has_snapshot
        /\ \E new \in PulledIn(S) :
           LET G == new \cup ({Target[p]} \ loaded) IN
           /\ MergeScan(S, G)
           /\ unbuilt' = GraphAhead(S, G)
           /\ watch_files' = watch_files \cup (S \cap Files) \cup G
           /\ call' = OwedAfterScan(S \cup G)
        /\ pending_rescans' = {}
        /\ \/ Post(ModuleChanged(p, watch_files'))
           \/ "lazy_late" \in Failures /\ UNCHANGED mailbox
  /\ UNCHANGED <<coordVars, watched, taskVars, resultVars, bundler_lock,
                 has_snapshot, lost_hmr_update, unsent, is_closed, close_pc,
                 envVars>>

-----------------------------------------------------------------------------
(* DevEngine::close. *)

CallClose ==
  /\ MayClose
  /\ ~is_closed
  /\ is_closed' = TRUE
  /\ Post(Signal("Close"))
  /\ close_pc' = "locking"
  /\ UNCHANGED <<coordVars, watched, taskVars, resultVars, bundler_lock,
                 graphVars, lazy_pc, call, fileVars, envVars>>

\* bundler.lock().await, then the closeBundle hook runs under the lock.
CloseLocksBundler ==
  /\ close_pc = "locking"
  /\ bundler_lock = "free"
  /\ bundler_lock' = "close"
  /\ close_pc' = "closing"
  /\ UNCHANGED <<coordVars, watched, mailbox, taskVars, resultVars,
                 graphVars, is_closed, lazy_pc, call, fileVars, envVars>>

\* Waits for the coordinator with the bundler still locked.
WaitHoldingLock ==
  /\ close_pc = "closing"
  /\ close_pc' = "waiting"
  /\ UNCHANGED <<coordVars, watched, mailbox, taskVars, resultVars,
                 bundler_lock, graphVars, is_closed, lazy_pc, call, fileVars,
                 envVars>>

\* The hook has run and the guard is dropped; its error ends close() early.
CloseReleasesBundler ==
  /\ close_pc = "closing"
  /\ bundler_lock' = "free"
  /\ \/ close_pc' = "waiting"
     \/ "close_bundle" \in Failures /\ close_pc' = "done"
  /\ UNCHANGED <<coordVars, watched, mailbox, taskVars, resultVars,
                 graphVars, is_closed, lazy_pc, call, fileVars, envVars>>

\* coordinator_handle.await; a coordinator that was never run has no handle.
CloseReturns ==
  /\ close_pc = "waiting"
  /\ coordinator \in {"init", "terminated"}
  /\ close_pc' = "done"
  /\ UNCHANGED <<coordVars, watched, mailbox, taskVars, resultVars,
                 bundler_lock, graphVars, is_closed, lazy_pc, call, fileVars,
                 envVars>>

-----------------------------------------------------------------------------
(* The user edits a file; the watcher reports it if it watches the file.    *)
(* Edits of files the engine has not come across have no effect on it.      *)

Edit(f) ==
  /\ edits < MaxEdits
  /\ f \in loaded \cup watched
  /\ coordinator # "terminated"          \* the watcher is dropped with it
  /\ edits' = edits + 1
  /\ unscanned' = unscanned \cup {f}
  /\ \/ /\ f \in watched
        /\ Post(WatchEvent({f}))
        /\ unreported' = unreported \ {f}
     \/ /\ f \notin watched
        /\ unreported' = unreported \cup {f}
        /\ UNCHANGED mailbox
  /\ UNCHANGED <<coordVars, watched, taskVars, resultVars, bundler_lock,
                 graphVars, engineVars, call, unbuilt, triggers>>

-----------------------------------------------------------------------------
Init ==
  /\ coordinator = "init"
  /\ state = "Initialized"
  /\ last_error_stage = "None"
  /\ stash = {}
  /\ queued_tasks = <<>>
  /\ has_stale_bundle_output = TRUE
  /\ current_bundling_future = FALSE
  /\ watched = {}
  /\ mailbox = <<>>
  /\ task = NoTask
  /\ running = 0
  /\ last_task_errored = FALSE
  /\ rebuild_failed = FALSE
  /\ bundler_lock = "free"
  /\ has_snapshot = FALSE
  /\ pending_rescans = {}
  /\ lost_hmr_update = FALSE
  /\ unsent = FALSE
  /\ loaded = {}
  /\ watch_files = {}
  /\ fetched = {}
  /\ is_closed = FALSE
  /\ call = [c \in AllCalls |-> IdleCall]
  /\ close_pc = "idle"
  /\ lazy_pc = [p \in Proxies |-> "idle"]
  /\ unscanned = {}
  /\ unbuilt = {}
  /\ unreported = {}
  /\ edits = 0
  /\ triggers = 0

Handle ==
  \/ HandleWatchEvent
  \/ HandleBundleCompleted
  \/ HandleModuleChanged
  \/ HandleTriggerFullBuild
  \/ HandleEnsureLatestBundleOutput
  \/ HandleGetState
  \/ HandleClose

RunTask ==
  \/ RunWatchChange
  \/ DecideReload
  \/ GenerateHmrUpdates
  \/ RunRebuild
  \/ ReportCompletion

StepCall(c) == SendEnsure(c) \/ SendGetState(c) \/ ReplyDropped(c) \/ Resume(c)

CloseSteps == CloseLocksBundler \/ CloseReleasesBundler \/ CloseReturns

Environment ==
  \/ \E c \in AllCalls : BeginCall(c)
  \/ TriggerFullBuild
  \/ \E p \in Proxies : RequestLazy(p)
  \/ CallClose
  \/ \E f \in Files : Edit(f)

Next ==
  \/ Start \/ Handle \/ Terminate
  \/ RunTask
  \/ \E c \in AllCalls : StepCall(c)
  \/ \E p \in Proxies : CompileLazyEntry(p)
  \/ CloseSteps
  \/ Environment

\* Tokio polls every woken task and the bundler mutex is fair, so each part of
\* the engine keeps going, and run() makes its call; nothing obliges users,
\* pages or editors to act.
Fairness ==
  /\ WF_vars(Start)
  /\ WF_vars(BeginCall(RunCall))
  /\ WF_vars(Handle)
  /\ WF_vars(Terminate)
  /\ WF_vars(RunTask)
  /\ \A c \in AllCalls : WF_vars(StepCall(c))
  /\ \A p \in Proxies : WF_vars(CompileLazyEntry(p))
  /\ WF_vars(CloseSteps)

Spec == Init /\ [][Next]_vars
FairSpec == Spec /\ Fairness

-----------------------------------------------------------------------------
(* Properties. *)

(* Every variable has its type; among them, a queued or running hot update  *)
(* names at least one changed file (handle_file_changes), and a failure is  *)
(* remembered by stage in the state Failed only.                            *)
TypeOK ==
  /\ coordinator \in {"init", "running", "draining", "terminated"}
  /\ state \in States
  /\ last_error_stage \in Stages
  /\ state = "Failed" <=> last_error_stage # "None"
  /\ stash \subseteq Files
  /\ queued_tasks \in Seq(TaskInputs)
  /\ has_stale_bundle_output \in BOOLEAN
  /\ current_bundling_future \in BOOLEAN
  /\ watched \subseteq Files
  /\ mailbox \in Seq(Msgs)
  /\ task \in Tasks
  /\ running \in Nat
  /\ last_task_errored \in BOOLEAN
  /\ rebuild_failed \in BOOLEAN
  /\ bundler_lock \in {"free", "close"}
  /\ has_snapshot \in BOOLEAN
  /\ pending_rescans \subseteq Files \cup Proxies
  /\ lost_hmr_update \in BOOLEAN
  /\ unsent \in BOOLEAN
  /\ loaded \subseteq Files
  /\ watch_files \subseteq Files
  /\ fetched \subseteq Proxies
  /\ is_closed \in BOOLEAN
  /\ call \in [AllCalls -> Calls]
  /\ close_pc \in {"idle", "locking", "closing", "waiting", "done"}
  /\ lazy_pc \in [Proxies -> {"idle", "locking", "done"}]
  /\ unscanned \subseteq Files
  /\ unbuilt \subseteq Files
  /\ unreported \subseteq Files
  /\ edits \in 0 .. MaxEdits
  /\ triggers \in 0 .. MaxTriggers

CompletionsIn(q) == {i \in DOMAIN q : q[i].type = "BundleCompleted"}

(* Builds are serialized and accounted for: while the run loop runs, the    *)
(* coordinator is in a building state exactly when it owes itself one       *)
(* BundleCompleted, either from the one running task or already in the      *)
(* mailbox, and then it holds that task's future.  Hence no two tasks       *)
(* overlap, no completion is ever ignored as unexpected, and the unwrap()   *)
(* of current_bundling_future in schedule_build_if_stale and                *)
(* ensure_latest_bundle_output cannot panic.                                *)
BuildsAccountedFor ==
  /\ running \in {0, 1}
  /\ coordinator = "running" =>
       IF state \in Building
       THEN /\ current_bundling_future
            /\ running = 1 => CompletionsIn(mailbox) = {}
            /\ running = 0 => \E i \in DOMAIN mailbox : CompletionsIn(mailbox) = {i}
       ELSE /\ ~current_bundling_future
            /\ running = 0
            /\ CompletionsIn(mailbox) = {}

(* A task that still has to send BundleCompleted has a coordinator to send  *)
(* it to: the expect() at the end of BundlingTask::run does not panic, also *)
(* when the engine is closed during the build.                              *)
ReportIsHeard == running > 0 => coordinator \in {"running", "draining"}

\* Files whose change is on its way to the coordinator.
ReportedInMailbox ==
  UNION {mailbox[i].files : i \in {j \in DOMAIN mailbox : mailbox[j].type = "WatchEvent"}}

(* When the coordinator is idle, has nothing queued and does not call the   *)
(* output stale, the output is up to date: every reported edit that it has  *)
(* not still in its mailbox is in the graph, and the graph is in the        *)
(* output, except for a route whose ModuleChanged is on its way.            *)
FreshMeansFresh ==
  coordinator = "running" /\ state = "Idle" /\ queued_tasks = <<>>
    /\ ~has_stale_bundle_output =>
      /\ unscanned \ unreported \subseteq ReportedInMailbox
      /\ unbuilt = {} \/ InMailbox("ModuleChanged")

(* What ensure_latest_bundle_output promises a page load: when it returns   *)
(* and the build it relies on did not fail, the output contains every       *)
(* change the watcher had reported before the call, whatever else happened  *)
(* in between.                                                              *)
EnsureIsFresh ==
  \A c \in Callers :
    call[c].pc = "done" /\ call[c].result = "fresh" =>
      call[c].owed_scan = {} /\ call[c].owed_build = {}

(* The loop of DevEngine::ensure_latest_bundle_output settles: each round   *)
(* waits for another build, so the safety valve (100 rounds in the code)    *)
(* stays closed when the builds are fewer than LoopLimit.                   *)
SafetyValveUnused == \A c \in Callers : call[c].result # "limit"

(* Every file in the module graph is watched once the lists of the builds   *)
(* and lazy compiles that loaded it have been handed to the coordinator     *)
(* (update_watch_paths, the ModuleChanged arm).                             *)
GraphIsWatched ==
  coordinator = "running" /\ running = 0
    /\ ~InMailbox("BundleCompleted") /\ ~InMailbox("ModuleChanged") =>
      loaded \subseteq watched

(* No patch or partial scan stands in for a full build that is due: neither *)
(* the HMR stage nor a partial rebuild runs with a tsconfig in its changed  *)
(* files, nor while the graph holds an edit that an earlier HMR stage       *)
(* merged without any client getting its patch, until a full build has      *)
(* replaced the output; only the task that lost it may still rebuild        *)
(* (run_inner, lost_hmr_update in compute_hmr_update_for_file_changes).     *)
ReloadBeforePatch ==
  running > 0 /\ (task.pc = "hmr" \/ (task.pc = "rebuild" /\ task.input.kind # "FullBuild")) =>
    /\ changed_files(task.input) \cap Tsconfigs = {}
    /\ unsent => task.hmr_errored

(* A failed rebuild leaves an output that lags the sources.  A task queued  *)
(* meanwhile may bring the engine back to Idle without another rebuild, but *)
(* then the output stays marked stale, so that the next page load builds it *)
(* (handle_bundle_completed).                                               *)
FailedRebuildStaysStale ==
  coordinator = "running" /\ state = "Idle" /\ rebuild_failed => has_stale_bundle_output

(* Every call of ensure_latest_bundle_output and wait_for_ongoing_bundle    *)
(* returns, also when the engine is closed under it.                        *)
CallsReturn ==
  \A c \in AllCalls : call[c].pc # "idle" ~> call[c].pc = "done"

(* close() returns: the coordinator, the task it waits for and close()      *)
(* itself do not wait for each other (the bundler lock is released first).  *)
CloseReturnsEventually == is_closed ~> close_pc = "done"

(* A reported edit is scanned in the end, unless the engine is closed, or a *)
(* build failed and waits for another change.                               *)
EditsReachGraph ==
  \A f \in Files :
    f \in unscanned \ unreported ~>
      (f \notin unscanned \/ is_closed \/ state \in {"Failed", "FullBuildFailed"})

(* Work that was queued while a build ran is started when that build is     *)
(* over, unless the engine is closed.                                       *)
QueuedWorkRuns == queued_tasks # <<>> ~> (queued_tasks = <<>> \/ is_closed)
=============================================================================
