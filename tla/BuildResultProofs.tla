---------------------------- MODULE BuildResultProofs ----------------------------
(***************************************************************************)
(* What a build of the dev engine leaves behind: the files the watcher has *)
(* been told of and the staleness of the output.  Further theorems about   *)
(* BundleCoordinator.tla.                                                  *)
(***************************************************************************)
EXTENDS BundleCoordinatorProofs

-----------------------------------------------------------------------------
(* The mailbox, or the task queue, as the set of what it holds. *)

Sent(q) == {q[i] : i \in DOMAIN q}
OfType(M, kind) == {m \in M : m.type = kind}

\* Sending adds the message.
LEMMA SentAppend ==
  ASSUME NEW T, NEW q \in Seq(T), NEW m \in T
  PROVE  Sent(Append(q, m)) = Sent(q) \cup {m}
<1>1. /\ DOMAIN q = 1 .. Len(q) /\ Len(q) \in Nat
      /\ DOMAIN Append(q, m) = 1 .. Len(q) + 1
      /\ \A i \in 1 .. Len(q) : Append(q, m)[i] = q[i]
      /\ Append(q, m)[Len(q) + 1] = m
  BY AppendProperties, LenProperties
<1>2. DOMAIN Append(q, m) = DOMAIN q \cup {Len(q) + 1}
  BY <1>1
<1> QED BY <1>1, <1>2 DEF Sent

\* Receiving takes the head off.
LEMMA SentTail ==
  ASSUME NEW T, NEW q \in Seq(T), q # <<>>
  PROVE  Sent(q) = {Head(q)} \cup Sent(Tail(q))
<1>1. /\ DOMAIN q = 1 .. Len(q) /\ Len(q) \in Nat \ {0}
      /\ DOMAIN Tail(q) = 1 .. Len(q) - 1
      /\ \A i \in 1 .. Len(q) - 1 : Tail(q)[i] = q[i + 1]
      /\ Head(q) = q[1]
  BY HeadTailProperties, LenProperties, EmptySeq
<1>2. ASSUME NEW m \in Sent(q) PROVE m \in {Head(q)} \cup Sent(Tail(q))
  <2>1. PICK i \in 1 .. Len(q) : m = q[i]
    BY <1>1, <1>2 DEF Sent
  <2>2. CASE i = 1
    BY <1>1, <2>1, <2>2
  <2>3. CASE i # 1
    <3>1. i - 1 \in 1 .. Len(q) - 1 /\ Tail(q)[i - 1] = q[i]
      BY <1>1, <2>3
    <3> QED BY <1>1, <2>1, <3>1 DEF Sent
  <2> QED BY <2>2, <2>3
<1>3. ASSUME NEW m \in Sent(Tail(q)) PROVE m \in Sent(q)
  <2>1. PICK i \in 1 .. Len(q) - 1 : m = q[i + 1]
    BY <1>1, <1>3 DEF Sent
  <2> QED BY <1>1, <2>1 DEF Sent
<1>4. Head(q) \in Sent(q)
  BY <1>1 DEF Sent
<1> QED BY <1>2, <1>3, <1>4

\* What the mailbox holds are messages, and none of a kind is in it exactly when
\* none of its places has that kind.
LEMMA SentType ==
  ASSUME NEW q \in Seq(Msgs)
  PROVE  /\ Sent(q) \subseteq Msgs
         /\ NoCompletion(q) <=> OfType(Sent(q), "BundleCompleted") = {}
         /\ OneCompletion(q) => \E m : OfType(Sent(q), "BundleCompleted") = {m}
<1>1. \A i \in DOMAIN q : q[i] \in Msgs
  OBVIOUS
<1>2. NoCompletion(q) <=> OfType(Sent(q), "BundleCompleted") = {}
  BY DEF NoCompletion, CompletionsIn, OfType, Sent
<1>3. ASSUME OneCompletion(q)
      PROVE  \E m : OfType(Sent(q), "BundleCompleted") = {m}
  <2>1. PICK i \in DOMAIN q : CompletionsIn(q) = {i}
    BY <1>3 DEF OneCompletion
  <2>2. OfType(Sent(q), "BundleCompleted") = {q[i]}
    BY <2>1 DEF CompletionsIn, OfType, Sent
  <2> QED BY <2>2
<1> QED BY <1>1, <1>2, <1>3 DEF Sent

\* A message that is received leaves the others where they are.
LEMMA ReceivedSent ==
  ASSUME TypeOK, NEW kind, Received(kind)
  PROVE  /\ Sent(mailbox) = {Head(mailbox)} \cup Sent(mailbox')
         /\ Head(mailbox) \in Msgs /\ Head(mailbox).type = kind
         /\ \A k : k # kind => OfType(Sent(mailbox'), k) = OfType(Sent(mailbox), k)
<1>1. /\ Sent(mailbox) = {Head(mailbox)} \cup Sent(mailbox')
      /\ Head(mailbox) \in Msgs /\ Head(mailbox).type = kind
  BY SentTail, ReceivedType DEF TypeOK, Received
<1> QED BY <1>1 DEF OfType

\* A message that is posted joins those of its kind.
LEMMA PostedSent ==
  ASSUME TypeOK, NEW m \in Msgs, Post(m)
  PROVE  /\ Sent(mailbox') = IF coordinator = "terminated" THEN Sent(mailbox)
                             ELSE Sent(mailbox) \cup {m}
         /\ \A k : k # m.type => OfType(Sent(mailbox'), k) = OfType(Sent(mailbox), k)
<1>1. Sent(mailbox') = IF coordinator = "terminated" THEN Sent(mailbox)
                       ELSE Sent(mailbox) \cup {m}
  <2>1. mailbox \in Seq(Msgs)
    BY DEF TypeOK
  <2>2. Sent(Append(mailbox, m)) = Sent(mailbox) \cup {m}
    BY <2>1, SentAppend
  <2> QED BY <2>2 DEF Post
<1> QED BY <1>1 DEF OfType

\* While the run loop runs there is a BundleCompleted in the mailbox exactly when
\* a build is over and not yet handled.
LEMMA CompletionPending ==
  ASSUME TypeOK, BuildInv, coordinator = "running"
  PROVE  /\ OfType(Sent(mailbox), "BundleCompleted") # {} <=>
              state \in Building /\ running = 0
         /\ running = 0 \/ running = 1
         /\ running = 1 => state \in Building
         /\ \A m, n \in OfType(Sent(mailbox), "BundleCompleted") : m = n
<1>1. /\ running \in {0, 1}
      /\ state \in Building => /\ running = 1 => NoCompletion(mailbox)
                               /\ running = 0 => OneCompletion(mailbox)
      /\ state \notin Building => running = 0 /\ NoCompletion(mailbox)
  BY DEF BuildInv, BuildsAccountedFor, NoCompletion, OneCompletion
<1>2. /\ NoCompletion(mailbox) <=> OfType(Sent(mailbox), "BundleCompleted") = {}
      /\ OneCompletion(mailbox) =>
           \E m : OfType(Sent(mailbox), "BundleCompleted") = {m}
  BY SentType DEF TypeOK
<1> QED BY <1>1, <1>2

\* The completion that is handled was the only one, and is expected.
LEMMA CompletionHandled ==
  ASSUME TypeOK, BuildInv, HandleBundleCompleted
  PROVE  /\ state \in Building /\ running = 0
         /\ OfType(Sent(mailbox), "BundleCompleted") = {Head(mailbox)}
         /\ OfType(Sent(mailbox'), "BundleCompleted") = {}
<1>1. /\ Received("BundleCompleted") /\ mailbox \in Seq(Msgs) /\ mailbox # <<>>
      /\ mailbox' = Tail(mailbox) /\ Head(mailbox).type = "BundleCompleted"
      /\ coordinator = "running"
  BY DEF HandleBundleCompleted, Received, TypeOK
<1>2. Head(mailbox) \in OfType(Sent(mailbox), "BundleCompleted")
  BY <1>1, ReceivedSent DEF OfType
<1>3. state \in Building /\ running = 0
      /\ OfType(Sent(mailbox), "BundleCompleted") = {Head(mailbox)}
  BY <1>1, <1>2, CompletionPending
<1>4. NoCompletion(mailbox')
  BY <1>1, <1>3, TailCompletions DEF BuildInv, BuildsAccountedFor, NoCompletion,
     OneCompletion
<1>5. mailbox' \in Seq(Msgs)
  BY <1>1, HeadTailProperties
<1> QED BY <1>3, <1>4, <1>5, SentType

-----------------------------------------------------------------------------
(* What the steps of the engine do to the latest task. *)

\* A new task is spawned; its kind decides the building state.
TaskStarted ==
  /\ running' = running + 1
  /\ \E input \in TaskInputs :
       /\ task' = NewTask(input)
       /\ state' = IF input.kind = "FullBuild" THEN "FullBuildInProgress" ELSE "InProgress"

\* Scheduling with the state st starts nothing, or a task when none is building.
Outcome(st) ==
  \/ UNCHANGED taskVars /\ state' = st
  \/ st \notin Building /\ TaskStarted

\* schedule_build_if_stale has one of the two outcomes.
LEMMA ScheduleOutcome ==
  ASSUME NEW st, NEW stage, NEW q \in Seq(TaskInputs), NEW fut,
         schedule_build_if_stale(st, stage, q, fut)
  PROVE  Outcome(st)
<1>1. CASE StartNothing(st, stage, q, fut)
  BY <1>1 DEF StartNothing, Outcome
<1>2. CASE /\ st \in {"Idle", "FullBuildFailed", "Failed"}
           /\ q # <<>>
           /\ StartTask(q, "None")
  <2>1. MergedTask(q) \in TaskInputs
    BY <1>2, MergedTaskType
  <2>2. TaskStarted
    BY <1>2, <2>1 DEF StartTask, TaskStarted, requires_full_rebuild
  <2> QED BY <1>2, <2>2 DEF Outcome, Building
<1> QED BY <1>1, <1>2 DEF schedule_build_if_stale

\* So does handle_file_changes.
LEMMA FileChangesOutcome ==
  ASSUME TypeOK, NEW st, NEW stage, NEW fs \in SUBSET Files, NEW sh, NEW fut,
         handle_file_changes(st, stage, fs, sh, fut)
  PROVE  Outcome(st)
<1>1. /\ fs # {} => Append(queued_tasks, TaskForChanges(st, stage, fs)) \in Seq(TaskInputs)
      /\ Append(queued_tasks, FullBuild) \in Seq(TaskInputs)
  <2>1. /\ fs # {} => TaskForChanges(st, stage, fs) \in TaskInputs
        /\ FullBuild \in TaskInputs
    BY DEF TaskForChanges, HmrRebuild, Hmr, TaskInputs
  <2> QED BY <2>1, AppendProperties DEF TypeOK
<1>2. CASE StartNothing(st, stage, queued_tasks, fut)
  BY <1>2 DEF StartNothing, Outcome
<1>3. CASE \E q \in Seq(TaskInputs) : schedule_build_if_stale(st, stage, q, fut)
  BY <1>3, ScheduleOutcome
<1> QED BY <1>1, <1>2, <1>3 DEF handle_file_changes

\* Every message but a completion and Close is handled without touching the graph
\* and the history of builds; only ModuleChanged brings files to watch and marks
\* the output stale.
PlainHandling(kind) ==
  /\ Received(kind)
  /\ coordinator' = coordinator
  /\ Outcome(state)
  /\ watched' = IF kind = "ModuleChanged" THEN watched \cup Head(mailbox).watch_files
                ELSE watched
  /\ has_stale_bundle_output' =
       IF kind = "ModuleChanged" THEN TRUE ELSE has_stale_bundle_output
  /\ UNCHANGED <<resultVars, graphVars, fileVars>>

PlainKinds ==
  {"WatchEvent", "ModuleChanged", "TriggerFullBuild", "EnsureLatestBundleOutput", "GetState"}

\* The arms of the run loop are plain, apart from those two.
LEMMA PlainHandlers ==
  ASSUME TypeOK, Handle
  PROVE  \/ \E kind \in PlainKinds : PlainHandling(kind)
         \/ HandleBundleCompleted
         \/ HandleClose
<1>1. CASE HandleWatchEvent
  <2>1. Head(mailbox).files \in SUBSET Files
    BY <1>1, ReceivedType, MsgFields DEF HandleWatchEvent
  <2>2. Outcome(state)
    BY <1>1, <2>1, FileChangesOutcome DEF HandleWatchEvent
  <2>3. PlainHandling("WatchEvent")
    BY <1>1, <2>2 DEF HandleWatchEvent, PlainHandling
  <2> QED BY <2>3 DEF PlainKinds
<1>2. CASE HandleModuleChanged
  <2>1. Rebuild({Head(mailbox).module_id}) \in TaskInputs
    BY <1>2, ReceivedType, MsgFields DEF HandleModuleChanged, Rebuild, TaskInputs
  <2>2. Append(queued_tasks, Rebuild({Head(mailbox).module_id})) \in Seq(TaskInputs)
    BY <2>1, AppendProperties DEF TypeOK
  <2>3. Outcome(state)
    BY <1>2, <2>2, ScheduleOutcome DEF HandleModuleChanged
  <2>4. PlainHandling("ModuleChanged")
    BY <1>2, <2>3 DEF HandleModuleChanged, RegisterLazyList, PlainHandling
  <2> QED BY <2>4 DEF PlainKinds
<1>3. CASE HandleTriggerFullBuild
  <2>1. <<FullBuild>> \in Seq(TaskInputs)
    BY DEF TaskInputs
  <2>2. Outcome(state)
    BY <1>3, <2>1, ScheduleOutcome DEF HandleTriggerFullBuild
  <2>3. PlainHandling("TriggerFullBuild")
    BY <1>3, <2>2 DEF HandleTriggerFullBuild, PlainHandling
  <2> QED BY <2>3 DEF PlainKinds
<1>4. CASE HandleEnsureLatestBundleOutput
  <2>1. <<Rebuild({})>> \in Seq(TaskInputs) /\ queued_tasks \in Seq(TaskInputs)
    <3>1. Rebuild({}) \in TaskInputs
      BY DEF Rebuild, TaskInputs
    <3> QED BY <3>1 DEF TypeOK
  <2>2. \/ StartNothing(state, last_error_stage, queued_tasks, current_bundling_future)
        \/ \E q \in Seq(TaskInputs) :
             schedule_build_if_stale(state, last_error_stage, q, current_bundling_future)
    BY <1>4, <2>1 DEF HandleEnsureLatestBundleOutput
  <2>3. Outcome(state)
    BY <2>2, ScheduleOutcome DEF StartNothing, Outcome
  <2>4. PlainHandling("EnsureLatestBundleOutput")
    BY <1>4, <2>3 DEF HandleEnsureLatestBundleOutput, PlainHandling
  <2> QED BY <2>4 DEF PlainKinds
<1>5. CASE HandleGetState
  <2>1. PlainHandling("GetState")
    BY <1>5 DEF HandleGetState, PlainHandling, Outcome, coordVars
  <2> QED BY <2>1 DEF PlainKinds
<1> QED BY <1>1, <1>2, <1>3, <1>4, <1>5 DEF Handle

\* handle_bundle_completed registers the lists, decides whether the output is
\* stale and either starts what is queued or leaves the building states.
LEMMA CompletionOutcome ==
  ASSUME TypeOK, BuildInv, HandleBundleCompleted
  PROVE  /\ coordinator = "running" /\ coordinator' = "running"
         /\ Outcome(IF Head(mailbox).error_stage = "None" THEN "Idle"
                    ELSE IF state = "FullBuildInProgress" THEN "FullBuildFailed"
                    ELSE "Failed")
         /\ watched' = watched \cup watch_files \cup Head(mailbox).hmr_stage_watch_files
         /\ has_stale_bundle_output' =
              \/ Head(mailbox).error_stage # "None"
              \/ state = "InProgress" /\ ~Head(mailbox).has_generated_bundle_output
         /\ UNCHANGED <<resultVars, graphVars, fileVars>>
<1> DEFINE m == Head(mailbox)
<1>1. /\ coordinator = "running" /\ coordinator' = "running"
      /\ UNCHANGED <<resultVars, graphVars, fileVars>>
  BY DEF HandleBundleCompleted, Received
<1>2. state \in Building
  BY CompletionHandled
<1>3. update_watch_paths(m) /\ (CompleteFullBuild(m) \/ CompleteIncremental(m))
  BY <1>2 DEF HandleBundleCompleted
<1>4. stash \in SUBSET Files /\ queued_tasks \in Seq(TaskInputs)
      /\ m.has_generated_bundle_output \in BOOLEAN
  BY ReceivedType, MsgFields DEF TypeOK, HandleBundleCompleted
<1>5. CASE CompleteFullBuild(m)
  <2>1. state = "FullBuildInProgress"
    BY <1>5 DEF CompleteFullBuild
  <2>2. CASE m.error_stage # "None"
    BY <1>1, <1>3, <1>5, <2>1, <2>2 DEF CompleteFullBuild, StartNothing, Outcome,
       update_watch_paths
  <2>3. CASE m.error_stage = "None"
    <3>1. Outcome("Idle")
      BY <1>4, <1>5, <2>3, FileChangesOutcome DEF CompleteFullBuild
    <3> QED BY <1>1, <1>3, <1>5, <2>1, <2>3, <3>1 DEF CompleteFullBuild,
            update_watch_paths
  <2> QED BY <2>2, <2>3
<1>6. CASE CompleteIncremental(m)
  <2>1. state = "InProgress"
    BY <1>6 DEF CompleteIncremental
  <2>2. CASE m.error_stage # "None"
    <3>1. Outcome("Failed")
      BY <1>4, <1>6, <2>2, ScheduleOutcome DEF CompleteIncremental
    <3> QED BY <1>1, <1>3, <1>6, <2>1, <2>2, <3>1 DEF CompleteIncremental,
            update_watch_paths
  <2>3. CASE m.error_stage = "None"
    <3>1. Outcome("Idle")
      BY <1>4, <1>6, <2>3, ScheduleOutcome DEF CompleteIncremental
    <3> QED BY <1>1, <1>3, <1>4, <1>6, <2>1, <2>3, <3>1 DEF CompleteIncremental,
            update_watch_paths
  <2> QED BY <2>2, <2>3
<1> QED BY <1>3, <1>5, <1>6

\* The first lines of run start the first full build.
LEMMA StartOutcome ==
  ASSUME TypeOK, BuildInv, Start
  PROVE  /\ coordinator = "init" /\ coordinator' = "running"
         /\ running = 0 /\ TaskStarted /\ mailbox' = mailbox
         /\ UNCHANGED <<has_stale_bundle_output, watched, resultVars, graphVars, fileVars>>
<1>1. Append(queued_tasks, FullBuild) \in Seq(TaskInputs)
      /\ Append(queued_tasks, FullBuild) # <<>>
  <2>1. queued_tasks \in Seq(TaskInputs) /\ FullBuild \in TaskInputs
    BY DEF TypeOK, TaskInputs
  <2> QED BY <2>1, AppendProperties
<1>2. StartTask(Append(queued_tasks, FullBuild), "None")
  BY <1>1 DEF Start, schedule_build_if_stale, Building
<1>3. MergedTask(Append(queued_tasks, FullBuild)) \in TaskInputs
  BY <1>1, MergedTaskType
<1>4. TaskStarted
  BY <1>2, <1>3 DEF StartTask, TaskStarted, requires_full_rebuild
<1> QED BY <1>4 DEF Start, BuildInv

\* The calls of DevEngine that build nothing, close() and the editor leave the
\* coordinator, the task and the graph alone.
Bystander ==
  /\ UNCHANGED <<coordVars, watched, taskVars, resultVars, graphVars>>
  /\ \/ UNCHANGED mailbox
     \/ \E m \in Msgs : m.type \notin {"BundleCompleted", "ModuleChanged"} /\ Post(m)

\* Those steps are bystanders.
LEMMA Bystanders ==
  ASSUME TypeOK,
         \/ \E c \in AllCalls : BeginCall(c) \/ StepCall(c)
         \/ \E p \in Proxies : RequestLazy(p)
         \/ TriggerFullBuild \/ CallClose \/ CloseSteps
         \/ \E f \in Files : Edit(f)
         \/ UNCHANGED vars
  PROVE  Bystander
<1> DEFINE Quiet == \/ UNCHANGED mailbox
                    \/ \E m \in Msgs : /\ m.type \notin {"BundleCompleted", "ModuleChanged"}
                                       /\ Post(m)
<1>1. UNCHANGED <<coordVars, watched, taskVars, resultVars, graphVars>>
  BY DEF BeginCall, StepCall, SendEnsure, SendGetState, ReplyDropped, Resume, RequestLazy,
         TriggerFullBuild, CallClose, CloseSteps, CloseLocksBundler,
         CloseReleasesBundler, CloseReturns, Edit, vars
<1>2. ASSUME NEW c \in AllCalls, BeginCall(c) \/ StepCall(c)
      PROVE  Quiet
  <2>1. /\ c \in Callers => Request("EnsureLatestBundleOutput", c) \in Msgs
        /\ c \in Waiters => Request("GetState", c) \in Msgs
        /\ Request("EnsureLatestBundleOutput", c).type = "EnsureLatestBundleOutput"
        /\ Request("GetState", c).type = "GetState"
    BY DEF Request, Msgs
  <2> QED BY <1>2, <2>1 DEF BeginCall, StepCall, SendEnsure, SendGetState,
                            ReplyDropped, Resume
<1>3. ASSUME NEW p \in Proxies, RequestLazy(p)
      PROVE  Quiet
  BY <1>3 DEF RequestLazy
<1>4. ASSUME TriggerFullBuild \/ CallClose \/ CloseSteps
      PROVE  Quiet
  <2>1. /\ Signal("TriggerFullBuild") \in Msgs /\ Signal("Close") \in Msgs
        /\ Signal("TriggerFullBuild").type = "TriggerFullBuild"
        /\ Signal("Close").type = "Close"
    BY DEF Signal, Msgs
  <2> QED BY <1>4, <2>1 DEF TriggerFullBuild, CallClose, CloseSteps, CloseLocksBundler,
                            CloseReleasesBundler, CloseReturns
<1>5. ASSUME NEW f \in Files, Edit(f)
      PROVE  Quiet
  <2>1. WatchEvent({f}) \in Msgs /\ WatchEvent({f}).type = "WatchEvent"
    BY DEF WatchEvent, Msgs
  <2> QED BY <1>5, <2>1 DEF Edit
<1>6. ASSUME UNCHANGED vars
      PROVE  Quiet
  BY <1>6 DEF vars
<1>7. Quiet
  BY <1>2, <1>3, <1>4, <1>5, <1>6
<1> QED BY <1>1, <1>7 DEF Bystander

\* A bystander posts neither completions nor module changes.
LEMMA BystanderSent ==
  ASSUME TypeOK, Bystander
  PROVE  \A k \in {"BundleCompleted", "ModuleChanged"} :
           OfType(Sent(mailbox'), k) = OfType(Sent(mailbox), k)
<1>1. CASE UNCHANGED mailbox
  BY <1>1
<1>2. CASE \E m \in Msgs : m.type \notin {"BundleCompleted", "ModuleChanged"} /\ Post(m)
  BY <1>2, PostedSent
<1> QED BY <1>1, <1>2 DEF Bystander

\* A lazy compile posts at most its ModuleChanged.
LEMMA LazySent ==
  ASSUME TypeOK, NEW p \in Proxies, CompileLazyEntry(p)
  PROVE  /\ OfType(Sent(mailbox'), "BundleCompleted") =
              OfType(Sent(mailbox), "BundleCompleted")
         /\ OfType(Sent(mailbox), "ModuleChanged") \subseteq
              OfType(Sent(mailbox'), "ModuleChanged")
         /\ Sent(mailbox) \subseteq Sent(mailbox')
<1>1. watch_files' \subseteq Files
  BY CompileLazyEntryType DEF TypeOK
<1>2. /\ ModuleChanged(p, watch_files') \in Msgs
      /\ ModuleChanged(p, watch_files').type = "ModuleChanged"
  BY <1>1 DEF ModuleChanged, Msgs
<1>3. UNCHANGED mailbox \/ Post(ModuleChanged(p, watch_files'))
  BY DEF CompileLazyEntry
<1> QED BY <1>2, <1>3, PostedSent DEF OfType

\* Every step of the engine is one of these, a step of the task, a lazy compile or
\* the end of the run loop.
LEMMA StepKinds ==
  ASSUME TypeOK, [Next]_vars
  PROVE  \/ Start
         \/ \E kind \in PlainKinds : PlainHandling(kind)
         \/ HandleBundleCompleted
         \/ HandleClose \/ Terminate
         \/ RunTask
         \/ \E p \in Proxies : CompileLazyEntry(p)
         \/ Bystander
<1>1. CASE Handle
  BY <1>1, PlainHandlers
<1>2. CASE \/ \E c \in AllCalls : StepCall(c)
           \/ CloseSteps
           \/ Environment
           \/ UNCHANGED vars
  BY <1>2, Bystanders DEF Environment
<1> QED BY <1>1, <1>2 DEF Next

-----------------------------------------------------------------------------
(* The shape of a running task. *)

\* run_inner: the HMR stage runs only for inputs that ask for it, nothing is
\* rebuilt before the rebuild, and a full build has no HMR stage and reports only
\* after its rebuild.  The coordinator's FullBuildInProgress is about a full build.
TaskShape ==
  running > 0 =>
    /\ task.pc # "none"
    /\ task.pc \in {"hooks", "reload", "hmr"} => ~task.hmr_errored
    /\ task.pc = "hmr" => require_generate_hmr_update(task.input)
    /\ task.pc = "rebuild" => requires_rebuild(task.input)
    /\ task.pc # "report" => ~task.has_rebuild_happen
    /\ task.rebuild_errored => task.has_rebuild_happen
    /\ task.input.kind = "FullBuild" =>
         /\ ~task.hmr_errored
         /\ task.pc = "report" => task.has_rebuild_happen
    /\ state = "FullBuildInProgress" => task.input.kind = "FullBuild"

\* BundlingTask::new has the shape.
LEMMA StartedShape == TaskStarted => TaskShape'
<1> SUFFICES ASSUME TaskStarted PROVE TaskShape'
  OBVIOUS
<1>1. PICK input \in TaskInputs :
        /\ task' = NewTask(input)
        /\ state' = IF input.kind = "FullBuild" THEN "FullBuildInProgress" ELSE "InProgress"
  BY DEF TaskStarted
<1>2. /\ task'.pc = "hooks" /\ ~task'.has_rebuild_happen /\ ~task'.rebuild_errored
      /\ ~task'.hmr_errored /\ task'.input = input
  BY <1>1 DEF NewTask, NoTask
<1> QED BY <1>1, <1>2 DEF TaskShape

\* The steps of a task keep it.
LEMMA TaskKeepsShape ==
  ASSUME TypeOK, BuildInv, TaskShape, RunTask
  PROVE  TaskShape'
<1>0. /\ task \in Tasks /\ task.input \in TaskInputs /\ running > 0
      /\ UNCHANGED state
  BY DEF TypeOK, Tasks, RunTask, RunWatchChange, DecideReload, GenerateHmrUpdates,
         RunRebuild, ReportCompletion, TaskEnds, TaskAt, taskFrame, coordVars
<1>1. CASE RunWatchChange
  <2>1. \/ task' = [task EXCEPT !.pc = "reload"]
        \/ /\ changed_files(task.input) # {}
           /\ task' = [task EXCEPT !.pc = "report", !.hmr_errored = TRUE]
    BY <1>1 DEF RunWatchChange
  <2>2. task.input.kind = "FullBuild" => changed_files(task.input) = {}
    BY <1>0 DEF TaskInputs, FullBuild, changed_files
  <2>3. task.pc = "hooks"
    BY <1>1 DEF RunWatchChange, TaskAt
  <2>4. /\ task'.input = task.input
        /\ task'.has_rebuild_happen = task.has_rebuild_happen
        /\ task'.rebuild_errored = task.rebuild_errored
        /\ \/ task'.pc = "reload" /\ task'.hmr_errored = task.hmr_errored
           \/ task'.pc = "report" /\ changed_files(task.input) # {}
    BY <1>0, <2>1 DEF Tasks
  <2>5. /\ ~task.hmr_errored /\ ~task.has_rebuild_happen /\ ~task.rebuild_errored
        /\ state = "FullBuildInProgress" => task.input.kind = "FullBuild"
    BY <1>0, <2>3 DEF TaskShape
  <2> QED BY <1>0, <2>2, <2>4, <2>5 DEF TaskShape
<1>2. CASE DecideReload
  <2>1. PICK input \in {task.input, FullBuild} :
          task' = [task EXCEPT !.pc = AfterReload(input), !.input = input]
    BY <1>2 DEF DecideReload
  <2>2. task.pc = "reload"
    BY <1>2 DEF DecideReload, TaskAt
  <2>3. /\ task'.pc = AfterReload(input) /\ task'.input = input
        /\ task'.has_rebuild_happen = task.has_rebuild_happen
        /\ task'.rebuild_errored = task.rebuild_errored
        /\ task'.hmr_errored = task.hmr_errored
    BY <1>0, <2>1 DEF Tasks
  <2>4. input.kind \in {"FullBuild", "Rebuild", "Hmr", "HmrRebuild"}
    BY <1>0, <2>1, InputFields DEF FullBuild
  <2>5. ~task.has_rebuild_happen /\ ~task.rebuild_errored
    BY <1>0, <2>2 DEF TaskShape
  <2>6. state = "FullBuildInProgress" => input.kind = "FullBuild"
    BY <1>0, <2>1 DEF TaskShape, FullBuild
  <2>7. ~task.hmr_errored
    BY <1>0, <2>2 DEF TaskShape
  <2> QED BY <1>0, <2>3, <2>4, <2>5, <2>6, <2>7
          DEF TaskShape, AfterReload, require_generate_hmr_update, requires_rebuild
<1>3. CASE GenerateHmrUpdates
  <2>1. task.pc = "hmr"
    BY <1>3 DEF GenerateHmrUpdates, TaskAt
  <2>2. task.input.kind # "FullBuild"
    BY <1>0, <2>1 DEF TaskShape, require_generate_hmr_update
  <2>3. /\ task'.input = task.input
        /\ task'.has_rebuild_happen = task.has_rebuild_happen
        /\ task'.rebuild_errored = task.rebuild_errored
        /\ task'.pc \in {AfterHmr(task.input), "report"}
    BY <1>0, <1>3 DEF GenerateHmrUpdates, HmrFailed, Tasks
  <2>4. task'.pc \in {"rebuild", "report"} /\ (task'.pc = "rebuild" => requires_rebuild(task.input))
    BY <2>3 DEF AfterHmr
  <2> QED BY <1>0, <2>1, <2>2, <2>3, <2>4 DEF TaskShape
<1>4. CASE RunRebuild
  <2>1. /\ task'.input = task.input /\ task'.pc = "report" /\ task'.has_rebuild_happen
        /\ task'.hmr_errored = task.hmr_errored
    BY <1>0, <1>4 DEF RunRebuild, FullScanBuild, PartialScanBuild, Rebuilt, Tasks
  <2> QED BY <1>0, <2>1 DEF TaskShape
<1>5. CASE ReportCompletion
  <2>1. running' = 0
    BY <1>5 DEF ReportCompletion, TaskEnds, BuildInv, BuildsAccountedFor, TaskAt
  <2> QED BY <2>1 DEF TaskShape
<1> QED BY <1>1, <1>2, <1>3, <1>4, <1>5 DEF RunTask

\* No step of the engine breaks it.
LEMMA NextShape ==
  ASSUME TypeOK, BuildInv, TaskShape, [Next]_vars
  PROVE  TaskShape'
<1>1. CASE Start
  BY <1>1, StartOutcome, StartedShape
<1>2. CASE \E kind \in PlainKinds : PlainHandling(kind)
  <2>1. (UNCHANGED taskVars /\ state' = state) \/ TaskStarted
    BY <1>2 DEF PlainHandling, Outcome
  <2> QED BY <2>1, StartedShape DEF TaskShape, taskVars
<1>3. CASE HandleBundleCompleted
  <2>1. running = 0 /\ (UNCHANGED running \/ TaskStarted)
    BY <1>3, CompletionHandled, CompletionOutcome DEF Outcome, taskVars
  <2> QED BY <2>1, StartedShape DEF TaskShape
<1>4. CASE HandleClose \/ Terminate
  BY <1>4 DEF HandleClose, LeaveLoop, Terminate, TaskShape, taskVars
<1>5. CASE RunTask
  BY <1>5, TaskKeepsShape
<1>6. CASE \E p \in Proxies : CompileLazyEntry(p)
  BY <1>6 DEF CompileLazyEntry, TaskShape, taskVars, coordVars
<1>7. CASE Bystander
  BY <1>7 DEF Bystander, TaskShape, taskVars, coordVars
<1> QED BY <1>1, <1>2, <1>3, <1>4, <1>5, <1>6, <1>7, StepKinds

\* No task runs at first.
LEMMA InitShape == Init => TaskShape
BY DEF Init, TaskShape

\* What every step of a reachable behaviour can rely on.
BaseInv == TypeOK /\ BuildInv /\ TaskShape

\* It is an invariant.
LEMMA InitBase == Init => BaseInv
BY InitType, InitBuildInv, InitShape DEF BaseInv

\* No step of the engine breaks it.
LEMMA NextBase == BaseInv /\ [Next]_vars => BaseInv'
BY NextType, NextBuildInv, NextShape DEF BaseInv

-----------------------------------------------------------------------------
(* The files of the graph are watched. *)

\* Files whose list is on its way to the watcher: in a ModuleChanged, in the task
\* that will report them, or in a completion that is not handled yet.  A rebuild
\* replaces the bundler's list, so the list of the HMR stage before it counts
\* only in a task that keeps it.
ListedFor(f) ==
  \/ \E m \in OfType(Sent(mailbox), "ModuleChanged") : f \in m.watch_files
  \/ /\ running > 0
     /\ \/ task.pc = "report" /\ f \in watch_files \cup task.hmr_stage_watch_files
        \/ /\ task.pc = "rebuild" /\ require_generate_hmr_update(task.input)
           /\ f \in watch_files
  \/ /\ running = 0
     /\ \E m \in OfType(Sent(mailbox), "BundleCompleted") :
          f \in watch_files \cup m.hmr_stage_watch_files

\* The inductive strengthening of GraphIsWatched.
WatchInv ==
  /\ coordinator = "init" => loaded = {} /\ ~has_snapshot
  /\ coordinator = "running" => \A f \in loaded : f \in watched \/ ListedFor(f)

\* The engine starts with an empty graph.
LEMMA InitWatchInv == Init => WatchInv
BY DEF Init, WatchInv

\* A plain message leaves the lists of the build alone, and that of a
\* ModuleChanged is registered.
LEMMA PlainKeepsWatchInv ==
  ASSUME TypeOK, BuildInv, WatchInv, NEW kind \in PlainKinds, PlainHandling(kind)
  PROVE  WatchInv'
<1>1. coordinator = "running" /\ coordinator' = "running" /\ UNCHANGED <<loaded, watch_files>>
  BY DEF PlainHandling, Received, graphVars
<1>2. OfType(Sent(mailbox'), "BundleCompleted") = OfType(Sent(mailbox), "BundleCompleted")
  BY ReceivedSent DEF PlainHandling, PlainKinds
<1>3. \A m \in OfType(Sent(mailbox), "ModuleChanged") :
        \/ m \in OfType(Sent(mailbox'), "ModuleChanged")
        \/ m.watch_files \subseteq watched'
  <2>1. CASE kind = "ModuleChanged"
    BY <2>1, ReceivedSent DEF PlainHandling, OfType
  <2>2. CASE kind # "ModuleChanged"
    BY <2>2, ReceivedSent DEF PlainHandling
  <2> QED BY <2>1, <2>2
<1>4. watched \subseteq watched'
  BY DEF PlainHandling
<1>5. UNCHANGED taskVars \/ (running = 0 /\ OfType(Sent(mailbox), "BundleCompleted") = {})
  BY <1>1, CompletionPending DEF PlainHandling, Outcome
<1>6. ASSUME NEW f \in loaded PROVE f \in watched' \/ ListedFor(f)'
  <2>1. f \in watched \/ ListedFor(f)
    BY <1>1 DEF WatchInv
  <2>2. CASE UNCHANGED taskVars
    BY <1>1, <1>2, <1>3, <1>4, <2>1, <2>2 DEF ListedFor, taskVars
  <2>3. CASE running = 0 /\ OfType(Sent(mailbox), "BundleCompleted") = {}
    BY <1>3, <1>4, <2>1, <2>3 DEF ListedFor
  <2> QED BY <1>5, <2>2, <2>3
<1> QED BY <1>1, <1>6 DEF WatchInv

\* A completion has the build's list and the HMR stage's list registered.
LEMMA CompletionKeepsWatchInv ==
  ASSUME TypeOK, BuildInv, WatchInv, HandleBundleCompleted
  PROVE  WatchInv'
<1>1. /\ coordinator = "running" /\ coordinator' = "running" /\ UNCHANGED loaded
      /\ watched' = watched \cup watch_files \cup Head(mailbox).hmr_stage_watch_files
  BY CompletionOutcome DEF graphVars
<1>2. /\ running = 0
      /\ OfType(Sent(mailbox), "BundleCompleted") = {Head(mailbox)}
      /\ OfType(Sent(mailbox'), "ModuleChanged") = OfType(Sent(mailbox), "ModuleChanged")
  BY CompletionHandled, ReceivedSent DEF HandleBundleCompleted
<1>3. ASSUME NEW f \in loaded PROVE f \in watched' \/ ListedFor(f)'
  BY <1>1, <1>2 DEF WatchInv, ListedFor
<1> QED BY <1>1, <1>3 DEF WatchInv

\* The files an HMR stage or a rebuild adds to the graph are in the lists their
\* task reports, also when the stage fails after its merge.
LEMMA TaskKeepsWatchInv ==
  ASSUME BaseInv, WatchInv, RunTask
  PROVE  WatchInv'
<1> USE DEF BaseInv
<1>0. task \in Tasks /\ task.input \in TaskInputs /\ running > 0 /\ UNCHANGED coordinator
  BY DEF TypeOK, Tasks, RunTask, RunWatchChange, DecideReload, GenerateHmrUpdates,
         RunRebuild, ReportCompletion, TaskEnds, TaskAt, taskFrame, coordVars
<1>1. coordinator # "init"
  BY <1>0 DEF BuildInv
<1>2. SUFFICES ASSUME coordinator = "running", NEW f \in loaded'
               PROVE  f \in watched' \/ ListedFor(f)'
  BY <1>0, <1>1 DEF WatchInv
<1>3. f \in loaded => f \in watched \/ ListedFor(f)
  BY <1>2 DEF WatchInv
<1>4. CASE RunWatchChange \/ DecideReload
  <2>1. UNCHANGED <<mailbox, watched, loaded, watch_files, running>>
    BY <1>4 DEF RunWatchChange, DecideReload, taskFrame, graphVars
  <2>2. task.pc \in {"hooks", "reload"}
    BY <1>4 DEF RunWatchChange, DecideReload, TaskAt
  <2> QED BY <1>0, <1>3, <2>1, <2>2 DEF ListedFor
<1>5. CASE GenerateHmrUpdates
  <2>1. UNCHANGED <<mailbox, watched, running>> /\ task.pc = "hmr"
    BY <1>5 DEF GenerateHmrUpdates, taskFrame, TaskAt
  <2>2. f \in loaded \/ f \in watch_files'
    BY <1>5 DEF GenerateHmrUpdates, ScanFailed, MergeScan
  <2>3. /\ task'.pc = "report" \/ task'.pc = "rebuild"
        /\ task'.input = task.input
    BY <1>0, <1>5 DEF GenerateHmrUpdates, HmrFailed, AfterHmr, Tasks
  <2>4. require_generate_hmr_update(task.input)
    BY <1>0, <2>1 DEF BaseInv, TaskShape
  <2> QED BY <1>0, <1>3, <2>1, <2>2, <2>3, <2>4 DEF ListedFor
<1>6. CASE RunRebuild
  <2>1. UNCHANGED <<mailbox, watched, running>> /\ task.pc = "rebuild"
    BY <1>6 DEF RunRebuild, taskFrame, TaskAt
  <2>2. /\ task'.pc = "report"
        /\ require_generate_hmr_update(task.input) =>
             task'.hmr_stage_watch_files = watch_files
    BY <1>0, <1>6 DEF RunRebuild, FullScanBuild, PartialScanBuild, Rebuilt, Tasks
  <2>3. f \in loaded \/ f \in watch_files'
    BY <1>6 DEF RunRebuild, FullScanBuild, PartialScanBuild, ScanFailed, MergeScan
  <2> QED BY <1>0, <1>3, <2>1, <2>2, <2>3 DEF ListedFor
<1>7. CASE ReportCompletion
  <2> DEFINE m == BundleCompleted(final_error_stage(task), task.has_rebuild_happen,
                                  task.hmr_stage_watch_files)
  <2>1. /\ UNCHANGED <<watched, loaded, watch_files>> /\ task.pc = "report"
        /\ running = 1 /\ running' = 0 /\ Post(m)
    BY <1>7 DEF ReportCompletion, TaskEnds, taskFrame, graphVars, TaskAt, BuildInv,
       BuildsAccountedFor
  <2>2. m \in Msgs /\ m.type = "BundleCompleted"
        /\ m.hmr_stage_watch_files = task.hmr_stage_watch_files
    BY DEF TypeOK, Tasks, Msgs, BundleCompleted, final_error_stage, Stages
  <2> HIDE DEF m
  <2>3. /\ m \in OfType(Sent(mailbox'), "BundleCompleted")
        /\ OfType(Sent(mailbox'), "ModuleChanged") = OfType(Sent(mailbox), "ModuleChanged")
    BY <1>2, <2>1, <2>2, PostedSent DEF OfType
  <2> QED BY <1>3, <2>1, <2>2, <2>3 DEF ListedFor
<1> QED BY <1>4, <1>5, <1>6, <1>7 DEF RunTask

\* A lazy compile sends the list with the files it added.
LEMMA LazyKeepsWatchInv ==
  ASSUME "lazy_late" \notin Failures, TypeOK, WatchInv,
         NEW p \in Proxies, CompileLazyEntry(p)
  PROVE  WatchInv'
<1>0. UNCHANGED <<coordinator, watched, task, running, has_snapshot>>
  BY DEF CompileLazyEntry, coordVars, taskVars
<1>1. \/ UNCHANGED <<mailbox, loaded>> /\ watch_files \subseteq watch_files'
      \/ /\ has_snapshot
         /\ Post(ModuleChanged(p, watch_files'))
         /\ watch_files \subseteq watch_files'
         /\ loaded' \subseteq loaded \cup watch_files'
  BY DEF CompileLazyEntry, ScanFailed, MergeScan
<1>2. CASE UNCHANGED <<mailbox, loaded>> /\ watch_files \subseteq watch_files'
  BY <1>0, <1>2 DEF WatchInv, ListedFor
<1>3. CASE /\ has_snapshot
           /\ Post(ModuleChanged(p, watch_files'))
           /\ watch_files \subseteq watch_files'
           /\ loaded' \subseteq loaded \cup watch_files'
  <2> DEFINE m == ModuleChanged(p, watch_files')
  <2>1. m \in Msgs /\ m.type = "ModuleChanged" /\ m.watch_files = watch_files'
    <3>1. watch_files' \subseteq Files
      BY CompileLazyEntryType DEF TypeOK
    <3> QED BY <3>1 DEF ModuleChanged, Msgs
  <2>2. SUFFICES ASSUME coordinator = "running", NEW f \in loaded'
                 PROVE  f \in watched' \/ ListedFor(f)'
    BY <1>0, <1>3 DEF WatchInv
  <2> HIDE DEF m
  <2>3. /\ Sent(mailbox') = Sent(mailbox) \cup {m}
        /\ OfType(Sent(mailbox'), "BundleCompleted") = OfType(Sent(mailbox), "BundleCompleted")
    BY <1>3, <2>1, <2>2, PostedSent DEF m
  <2>4. OfType(Sent(mailbox'), "ModuleChanged") =
          OfType(Sent(mailbox), "ModuleChanged") \cup {m}
    BY <2>1, <2>3 DEF OfType
  <2>5. CASE f \in watch_files'
    BY <2>1, <2>4, <2>5 DEF ListedFor
  <2>6. CASE f \in loaded
    <3>1. f \in watched \/ ListedFor(f)
      BY <2>2, <2>6 DEF WatchInv
    <3> QED BY <1>0, <1>3, <2>3, <2>4, <3>1 DEF ListedFor
  <2> QED BY <1>3, <2>5, <2>6
<1> QED BY <1>1, <1>2, <1>3

\* No step of the engine breaks the invariant.
LEMMA NextWatchInv ==
  ASSUME "lazy_late" \notin Failures, BaseInv, WatchInv, [Next]_vars
  PROVE  WatchInv'
<1> USE DEF BaseInv
<1>1. CASE Start
  <2>1. /\ loaded' = {} /\ coordinator' = "running"
    BY <1>1, StartOutcome DEF WatchInv, graphVars
  <2> QED BY <2>1 DEF WatchInv
<1>2. CASE \E kind \in PlainKinds : PlainHandling(kind)
  BY <1>2, PlainKeepsWatchInv
<1>3. CASE HandleBundleCompleted
  BY <1>3, CompletionKeepsWatchInv
<1>4. CASE HandleClose \/ Terminate
  <2>1. coordinator' \in {"draining", "terminated"}
    BY <1>4 DEF HandleClose, LeaveLoop, Terminate
  <2> QED BY <2>1 DEF WatchInv
<1>5. CASE RunTask
  BY <1>5, TaskKeepsWatchInv
<1>6. CASE \E p \in Proxies : CompileLazyEntry(p)
  BY <1>6, LazyKeepsWatchInv
<1>7. CASE Bystander
  BY <1>7, BystanderSent
     DEF Bystander, WatchInv, ListedFor, coordVars, taskVars, graphVars
<1> QED BY <1>1, <1>2, <1>3, <1>4, <1>5, <1>6, <1>7, StepKinds

\* Every file of the module graph is watched once the lists of the builds and lazy
\* compiles that loaded it are handled: the HMR stage's list survives the rebuild
\* that replaces it, and a list is not lost when the build fails
\* (update_watch_paths, hmr_stage_watch_files).  A lazy compile that fails after
\* its merge sends no message, so that failure is left out.
THEOREM GraphWatched ==
  ASSUME "lazy_late" \notin Failures
  PROVE  Spec => []GraphIsWatched
<1>1. WatchInv => GraphIsWatched
  <2> SUFFICES ASSUME WatchInv, coordinator = "running", running = 0,
                      ~InMailbox("BundleCompleted"), ~InMailbox("ModuleChanged")
               PROVE  loaded \subseteq watched
    BY DEF GraphIsWatched
  <2>1. /\ OfType(Sent(mailbox), "BundleCompleted") = {}
        /\ OfType(Sent(mailbox), "ModuleChanged") = {}
    BY DEF InMailbox, OfType, Sent
  <2> QED BY <2>1 DEF WatchInv, ListedFor
<1>2. BaseInv /\ WatchInv /\ [Next]_vars => WatchInv'
  BY NextWatchInv
<1> QED BY <1>1, <1>2, InitBase, NextBase, InitWatchInv, PTL DEF Spec

-----------------------------------------------------------------------------
(* A failed rebuild keeps the output marked stale. *)

\* The inductive strengthening of FailedRebuildStaysStale: the outcome of the
\* latest rebuild, from the task over its completion to the coordinator's flag.
ResultInv ==
  /\ coordinator = "init" => ~rebuild_failed
  /\ running > 0 /\ task.has_rebuild_happen => task.rebuild_errored = rebuild_failed
  /\ coordinator = "running" =>
       /\ \A m \in OfType(Sent(mailbox), "BundleCompleted") :
            /\ m.error_stage = "None" /\ m.has_generated_bundle_output => ~rebuild_failed
            /\ state = "FullBuildInProgress" => m.has_generated_bundle_output
       /\ state \notin Building /\ rebuild_failed => has_stale_bundle_output

\* Nothing has failed at first.
LEMMA InitResultInv == Init => ResultInv
BY EmptySeq DEF Init, ResultInv, Sent, OfType

\* A new task has rebuilt nothing.
LEMMA StartedResult ==
  ASSUME TaskStarted
  PROVE  task'.has_rebuild_happen = FALSE /\ state' \in Building
BY DEF TaskStarted, NewTask, NoTask, Building

\* A message other than a completion changes neither the outcome nor, outside of
\* builds, clears the flag.
LEMMA PlainKeepsResultInv ==
  ASSUME BaseInv, ResultInv, NEW kind \in PlainKinds, PlainHandling(kind)
  PROVE  ResultInv'
<1>1. /\ coordinator = "running" /\ coordinator' = "running" /\ UNCHANGED rebuild_failed
      /\ has_stale_bundle_output' \in {TRUE, has_stale_bundle_output}
  BY DEF PlainHandling, Received, resultVars
<1>2. OfType(Sent(mailbox'), "BundleCompleted") = OfType(Sent(mailbox), "BundleCompleted")
  BY ReceivedSent DEF PlainHandling, PlainKinds, BaseInv
<1>3. CASE UNCHANGED taskVars /\ state' = state
  BY <1>1, <1>2, <1>3 DEF ResultInv, taskVars
<1>4. CASE state \notin Building /\ TaskStarted
  <2>1. OfType(Sent(mailbox'), "BundleCompleted") = {}
    BY <1>1, <1>2, <1>4, CompletionPending DEF BaseInv
  <2> QED BY <1>1, <1>4, <2>1, StartedResult DEF ResultInv
<1> QED BY <1>3, <1>4 DEF PlainHandling, Outcome

\* A completion without error clears the flag only after a rebuild that succeeded.
LEMMA CompletionKeepsResultInv ==
  ASSUME BaseInv, ResultInv, HandleBundleCompleted
  PROVE  ResultInv'
<1> DEFINE m == Head(mailbox)
<1>1. /\ coordinator = "running" /\ coordinator' = "running" /\ UNCHANGED rebuild_failed
      /\ has_stale_bundle_output' =
           (m.error_stage # "None" \/ (state = "InProgress" /\ ~m.has_generated_bundle_output))
      /\ (UNCHANGED taskVars /\ state' \notin Building) \/ TaskStarted
  BY CompletionOutcome DEF BaseInv, resultVars, Outcome, Building
<1>2. /\ running = 0 /\ state \in Building
      /\ m \in OfType(Sent(mailbox), "BundleCompleted")
      /\ OfType(Sent(mailbox'), "BundleCompleted") = {}
  BY CompletionHandled DEF BaseInv
<1>3. rebuild_failed => has_stale_bundle_output'
  BY <1>1, <1>2 DEF ResultInv, Building
<1>4. running' > 0 => TaskStarted
  BY <1>1, <1>2 DEF taskVars
<1> QED BY <1>1, <1>2, <1>3, <1>4, StartedResult DEF ResultInv

\* The task reports the outcome of the rebuild it made, if it made one.
LEMMA TaskKeepsResultInv ==
  ASSUME BaseInv, ResultInv, RunTask
  PROVE  ResultInv'
<1> USE DEF BaseInv
<1>0. /\ task \in Tasks /\ running = 1
      /\ UNCHANGED <<coordinator, state, has_stale_bundle_output>>
  BY DEF TypeOK, BuildInv, BuildsAccountedFor, RunTask, RunWatchChange, DecideReload,
         GenerateHmrUpdates, RunRebuild, ReportCompletion, TaskEnds, TaskAt, taskFrame,
         coordVars
<1>1. coordinator # "init"
  BY <1>0 DEF BuildInv
<1>2. coordinator = "running" =>
        state \in Building /\ OfType(Sent(mailbox), "BundleCompleted") = {}
  BY <1>0, CompletionPending
<1>3. CASE RunWatchChange \/ DecideReload \/ GenerateHmrUpdates
  <2>1. UNCHANGED <<mailbox, rebuild_failed, running>>
    BY <1>3 DEF RunWatchChange, DecideReload, GenerateHmrUpdates, resultVars
  <2>2. task'.has_rebuild_happen = task.has_rebuild_happen
    BY <1>0, <1>3 DEF RunWatchChange, DecideReload, GenerateHmrUpdates, HmrFailed, Tasks
  <2>3. ~task.has_rebuild_happen
    BY <1>0, <1>3 DEF TaskShape, RunWatchChange, DecideReload, GenerateHmrUpdates, TaskAt
  <2> QED BY <1>0, <1>1, <1>2, <2>1, <2>2, <2>3 DEF ResultInv
<1>4. CASE RunRebuild
  <2>1. UNCHANGED <<mailbox, running>>
    BY <1>4 DEF RunRebuild
  <2>2. task'.rebuild_errored = rebuild_failed'
    <3>1. \E failed \in BOOLEAN : Rebuilt(failed)
      BY <1>4 DEF RunRebuild, FullScanBuild, PartialScanBuild
    <3> QED BY <1>0, <3>1 DEF Rebuilt, Tasks
  <2> QED BY <1>0, <1>1, <1>2, <2>1, <2>2 DEF ResultInv
<1>5. CASE ReportCompletion
  <2> DEFINE m == BundleCompleted(final_error_stage(task), task.has_rebuild_happen,
                                  task.hmr_stage_watch_files)
  <2>1. /\ UNCHANGED rebuild_failed /\ running' = 0 /\ Post(m) /\ task.pc = "report"
    BY <1>0, <1>5 DEF ReportCompletion, TaskEnds, TaskAt
  <2>2. /\ m \in Msgs /\ m.type = "BundleCompleted"
        /\ m.has_generated_bundle_output = task.has_rebuild_happen
        /\ m.error_stage = "None" => ~task.rebuild_errored
    BY DEF TypeOK, Tasks, Msgs, BundleCompleted, final_error_stage, Stages
  <2>3. /\ task.has_rebuild_happen => task.rebuild_errored = rebuild_failed
        /\ state = "FullBuildInProgress" => task.has_rebuild_happen
    BY <1>0, <2>1 DEF ResultInv, TaskShape
  <2> HIDE DEF m
  <2>4. coordinator = "running" => OfType(Sent(mailbox'), "BundleCompleted") = {m}
    BY <1>2, <2>1, <2>2, PostedSent DEF OfType
  <2> QED BY <1>0, <1>1, <1>2, <2>1, <2>2, <2>3, <2>4 DEF ResultInv
<1> QED BY <1>3, <1>4, <1>5 DEF RunTask

\* No step of the engine breaks the invariant.
LEMMA NextResultInv == BaseInv /\ ResultInv /\ [Next]_vars => ResultInv'
<1> SUFFICES ASSUME BaseInv, ResultInv, [Next]_vars PROVE ResultInv'
  OBVIOUS
<1> USE DEF BaseInv
<1>1. CASE Start
  <2>1. /\ ~rebuild_failed' /\ coordinator' = "running" /\ TaskStarted /\ mailbox' = mailbox
        /\ OfType(Sent(mailbox), "BundleCompleted") = {}
    BY <1>1, StartOutcome, SentType DEF ResultInv, resultVars, BuildInv, TypeOK
  <2> QED BY <2>1, StartedResult DEF ResultInv
<1>2. CASE \E kind \in PlainKinds : PlainHandling(kind)
  BY <1>2, PlainKeepsResultInv
<1>3. CASE HandleBundleCompleted
  BY <1>3, CompletionKeepsResultInv
<1>4. CASE HandleClose \/ Terminate
  <2>1. /\ coordinator' \in {"draining", "terminated"}
        /\ UNCHANGED <<running, task, rebuild_failed>>
    BY <1>4 DEF HandleClose, LeaveLoop, Terminate, taskVars, resultVars
  <2> QED BY <2>1 DEF ResultInv
<1>5. CASE RunTask
  BY <1>5, TaskKeepsResultInv
<1>6. CASE \E p \in Proxies : CompileLazyEntry(p)
  <2>1. PICK p \in Proxies : CompileLazyEntry(p)
    BY <1>6
  <2>2. UNCHANGED <<coordVars, taskVars, resultVars>>
    BY <2>1 DEF CompileLazyEntry
  <2>3. OfType(Sent(mailbox'), "BundleCompleted") = OfType(Sent(mailbox), "BundleCompleted")
    BY <2>1, LazySent
  <2> QED BY <2>2, <2>3 DEF ResultInv, coordVars, taskVars, resultVars
<1>7. CASE Bystander
  BY <1>7, BystanderSent DEF Bystander, ResultInv, coordVars, taskVars, resultVars
<1> QED BY <1>1, <1>2, <1>3, <1>4, <1>5, <1>6, <1>7, StepKinds

\* After a rebuild that failed the engine is never idle with its output taken for
\* fresh, whatever builds and messages come in between, until a later rebuild
\* succeeds (handle_bundle_completed).
THEOREM FailureStaysStale == Spec => []FailedRebuildStaysStale
<1>1. ResultInv => FailedRebuildStaysStale
  BY DEF ResultInv, FailedRebuildStaysStale, Building
<1> QED BY <1>1, InitBase, NextBase, InitResultInv, NextResultInv, PTL DEF Spec

=============================================================================
