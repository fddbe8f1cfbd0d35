------------------------ MODULE BundleCoordinatorProofs ------------------------
(***************************************************************************)
(* Theorems about the dev engine of BundleCoordinator.tla, for any set of  *)
(* files, proxies, callers and failures, both rebuild strategies and any   *)
(* number of edits and restarts.                                           *)
(***************************************************************************)
EXTENDS BundleCoordinator, WellFoundedInduction, SequenceTheorems, TLAPS

-----------------------------------------------------------------------------
(* Merging queued tasks. *)

\* What the fields of a task input can be (types/task_input.rs).
LEMMA InputFields ==
  ASSUME NEW t \in TaskInputs
  PROVE  /\ t.kind \in {"FullBuild", "Rebuild", "Hmr", "HmrRebuild"}
         /\ t.files \subseteq Files \cup Proxies
         /\ t.kind \in {"Hmr", "HmrRebuild"} => t.files # {}
BY DEF TaskInputs, FullBuild

\* A non-empty set of numbers has a least one.
LEMMA LeastNumber ==
  ASSUME NEW T \in SUBSET Nat, T # {}
  PROVE  \E n \in T : \A m \in T : n <= m
<1>1. \E n \in T : \A m \in T : ~(<<m, n>> \in OpToRel(<, Nat))
  BY NatLessThanWellFounded, WFMin
<1>2. \A m, n \in Nat : m < n => <<m, n>> \in OpToRel(<, Nat)
  BY DEF OpToRel
<1>3. \A m, n \in Nat : ~(m < n) => n <= m
  OBVIOUS
<1> QED BY <1>1, <1>2, <1>3

\* The CHOOSE of MergedCount has a witness: the popping loop of
\* schedule_build_if_stale takes at least the front task and at most the whole
\* queue, and everything it takes can be merged with the front.
LEMMA MergedCountExists ==
  ASSUME NEW q \in Seq(TaskInputs), q # <<>>
  PROVE  /\ MergedCount(q) \in 1 .. Len(q)
         /\ Absorbable(q, MergedCount(q))
<1> DEFINE P(n) == /\ Absorbable(q, n)
                   /\ n < Len(q) => ~is_mergeable_with(q[1], q[n + 1])
           T == {n \in 1 .. Len(q) : n < Len(q) => ~is_mergeable_with(q[1], q[n + 1])}
<1>1. Len(q) \in T
  BY LenProperties, EmptySeq
<1>2. PICK n \in T : \A m \in T : n <= m
  <2>1. T \in SUBSET Nat /\ T # {}
    BY <1>1
  <2> HIDE DEF T
  <2> QED BY <2>1, LeastNumber
<1>3. Absorbable(q, n)
  <2> SUFFICES ASSUME NEW i \in 2 .. n PROVE is_mergeable_with(q[1], q[i])
    BY DEF Absorbable
  <2>1. i - 1 \in 1 .. Len(q) /\ i - 1 < n
    BY <1>2
  <2>2. i - 1 \notin T
    <3>1. n \in Nat
      BY <1>2
    <3>2. ~(n <= i - 1)
      BY <2>1, <3>1
    <3> QED BY <1>2, <3>2
  <2> QED BY <2>1, <2>2
<1>4. \E k \in 1 .. Len(q) : P(k)
  BY <1>2, <1>3
<1> QED BY <1>4 DEF MergedCount

\* What a queued task asked for, the task it was merged into still does, for
\* queues of any length: every changed file is in the merged list or a full scan
\* reads it, and a rebuild or a hot update that was asked for takes place
\* (merge_with and the popping loop of schedule_build_if_stale).
THEOREM MergeForgetsNothing ==
  ASSUME NEW q \in Seq(TaskInputs), q # <<>>, NEW i \in 1 .. MergedCount(q)
  PROVE  LET t == MergedTask(q) IN
         \/ requires_full_rebuild(t)
         \/ /\ changed_files(q[i]) \subseteq changed_files(t)
            /\ requires_rebuild(q[i]) => requires_rebuild(t)
            /\ require_generate_hmr_update(q[i]) => require_generate_hmr_update(t)
<1>1. /\ q[1] \in TaskInputs /\ q[i] \in TaskInputs
      /\ i = 1 \/ is_mergeable_with(q[1], q[i])
  <2>1. 1 \in 1 .. Len(q) /\ i \in 1 .. Len(q) /\ (i = 1 \/ i \in 2 .. MergedCount(q))
    BY MergedCountExists
  <2> QED BY <2>1, MergedCountExists DEF Absorbable
<1>2. CASE q[1].kind = "FullBuild"
  BY <1>2 DEF MergedTask, requires_full_rebuild, FullBuild
<1>3. CASE q[1].kind # "FullBuild"
  <2>1. /\ MergedTask(q).files = UNION {q[j].files : j \in 1 .. MergedCount(q)}
        /\ MergedTask(q).kind = IF \E j \in 1 .. MergedCount(q) : q[j].kind = "HmrRebuild"
                                THEN "HmrRebuild" ELSE q[1].kind
    BY <1>3 DEF MergedTask
  <2>2. q[i].files \subseteq MergedTask(q).files
    BY <2>1
  <2>3. MergedTask(q).kind \in {q[1].kind, "HmrRebuild"}
        /\ (q[i].kind = "HmrRebuild" => MergedTask(q).kind = "HmrRebuild")
    BY <2>1
  <2>4. /\ q[i].kind # "FullBuild"
        /\ q[i].kind = "Rebuild" <=> q[1].kind = "Rebuild"
    BY <1>1, <1>3 DEF is_mergeable_with
  <2>5. /\ requires_rebuild(q[i]) => requires_rebuild(MergedTask(q))
        /\ require_generate_hmr_update(q[i]) => require_generate_hmr_update(MergedTask(q))
    BY <1>1, <1>3, <2>3, <2>4, InputFields
       DEF requires_rebuild, require_generate_hmr_update
  <2> QED BY <2>2, <2>5 DEF changed_files
<1> QED BY <1>2, <1>3

\* The popping loop yields a task and leaves a queue of tasks.
LEMMA MergedTaskType ==
  ASSUME NEW q \in Seq(TaskInputs), q # <<>>
  PROVE  /\ MergedTask(q) \in TaskInputs
         /\ RemainingTasks(q) \in Seq(TaskInputs)
<1> DEFINE taken == 1 .. MergedCount(q)
<1>1. \A i \in taken : q[i] \in TaskInputs
  BY MergedCountExists
<1>2. UNION {q[i].files : i \in taken} \subseteq Files \cup Proxies
  BY <1>1, InputFields
<1>3. q[1] \in TaskInputs
  BY <1>1, MergedCountExists
<1>4. MergedTask(q) \in TaskInputs
  <2>1. CASE q[1].kind = "FullBuild"
    BY <2>1 DEF MergedTask, TaskInputs
  <2>2. CASE q[1].kind # "FullBuild"
    <3> DEFINE t == MergedTask(q)
    <3>1. /\ t = [kind |-> IF \E i \in taken : q[i].kind = "HmrRebuild"
                         THEN "HmrRebuild" ELSE q[1].kind,
                 files |-> UNION {q[i].files : i \in taken}]
          /\ 1 \in taken
      BY <2>2, MergedCountExists DEF MergedTask
    <3>2. ASSUME t.kind \in {"Hmr", "HmrRebuild"}
          PROVE  t.files # {}
      <4>1. \E i \in taken : q[i].kind \in {"Hmr", "HmrRebuild"}
        BY <3>1, <3>2
      <4>2. PICK i \in taken : q[i].kind \in {"Hmr", "HmrRebuild"}
        BY <4>1
      <4>3. q[i].files # {}
        BY <1>1, <4>2, InputFields
      <4> QED BY <3>1, <4>3
    <3>3. t.kind \in {"Rebuild", "Hmr", "HmrRebuild"}
      BY <1>3, <2>2, <3>1, InputFields
    <3> QED BY <1>2, <3>1, <3>2, <3>3 DEF TaskInputs
  <2> QED BY <2>1, <2>2
<1>5. RemainingTasks(q) \in Seq(TaskInputs)
  BY MergedCountExists DEF RemainingTasks
<1> QED BY <1>4, <1>5

-----------------------------------------------------------------------------
(* Type correctness, one lemma per action. *)

\* The payload of a message, by its kind (types/coordinator_msg.rs).
LEMMA MsgFields ==
  ASSUME NEW m \in Msgs
  PROVE  /\ m.type = "WatchEvent" => m.files \subseteq Files
         /\ m.type = "ModuleChanged" =>
              m.module_id \in Proxies /\ m.watch_files \subseteq Files
         /\ m.type = "BundleCompleted" =>
              /\ m.error_stage \in Stages
              /\ m.has_generated_bundle_output \in BOOLEAN
              /\ m.hmr_stage_watch_files \subseteq Files
         /\ m.type = "EnsureLatestBundleOutput" => m.reply \in Callers
         /\ m.type = "GetState" => m.reply \in Waiters
BY DEF Msgs

\* Fresh tasks are well typed (BundlingTask::new).
LEMMA TaskTypes ==
  /\ NoTask \in Tasks
  /\ \A input \in TaskInputs : NewTask(input) \in Tasks
<1>1. FullBuild \in TaskInputs
  BY DEF TaskInputs
<1>2. NoTask \in Tasks
  BY <1>1 DEF NoTask, Tasks
<1>3. \A input \in TaskInputs : NewTask(input) \in Tasks
  BY <1>2 DEF NewTask, Tasks, NoTask
<1> QED BY <1>2, <1>3

\* What a handler that may start a task has to leave well typed.
SchedulingTypeOK ==
  /\ state \in States
  /\ last_error_stage \in Stages
  /\ state = "Failed" <=> last_error_stage # "None"
  /\ queued_tasks \in Seq(TaskInputs)
  /\ current_bundling_future \in BOOLEAN
  /\ task \in Tasks
  /\ running \in Nat

\* A handler that starts nothing keeps the scheduling state well typed.
LEMMA StartNothingType ==
  ASSUME TypeOK, NEW st \in States, NEW stage \in Stages,
         st = "Failed" <=> stage # "None",
         NEW q \in Seq(TaskInputs), NEW fut \in BOOLEAN,
         StartNothing(st, stage, q, fut)
  PROVE  SchedulingTypeOK'
BY DEF TypeOK, StartNothing, SchedulingTypeOK, taskVars

\* schedule_build_if_stale keeps the scheduling state well typed.
LEMMA ScheduleType ==
  ASSUME TypeOK, NEW st \in States, NEW stage \in Stages,
         st = "Failed" <=> stage # "None",
         NEW q \in Seq(TaskInputs), NEW fut \in BOOLEAN,
         schedule_build_if_stale(st, stage, q, fut)
  PROVE  SchedulingTypeOK'
<1>1. CASE StartNothing(st, stage, q, fut)
  BY <1>1, StartNothingType
<1>2. CASE q # <<>> /\ StartTask(q, "None")
  <2>1. NewTask(MergedTask(q)) \in Tasks
    BY <1>2, MergedTaskType, TaskTypes
  <2> QED BY <1>2, <2>1, MergedTaskType
          DEF TypeOK, StartTask, SchedulingTypeOK, States, Stages
<1> QED BY <1>1, <1>2 DEF schedule_build_if_stale

\* handle_file_changes keeps the scheduling state and the stash well typed.
LEMMA FileChangesType ==
  ASSUME TypeOK, NEW st \in States, NEW stage \in Stages,
         st = "Failed" <=> stage # "None",
         NEW fs \in SUBSET Files, NEW sh \in SUBSET Files, NEW fut \in BOOLEAN,
         handle_file_changes(st, stage, fs, sh, fut)
  PROVE  SchedulingTypeOK' /\ stash' \subseteq Files
<1>1. queued_tasks \in Seq(TaskInputs)
  BY DEF TypeOK
<1>2. /\ fs # {} => TaskForChanges(st, stage, fs) \in TaskInputs
      /\ FullBuild \in TaskInputs
  BY DEF TaskForChanges, HmrRebuild, Hmr, TaskInputs
<1>3. /\ fs # {} => Append(queued_tasks, TaskForChanges(st, stage, fs)) \in Seq(TaskInputs)
      /\ Append(queued_tasks, FullBuild) \in Seq(TaskInputs)
  BY <1>1, <1>2, AppendProperties
<1>4. stash' \subseteq Files
  BY DEF handle_file_changes
<1>5. CASE StartNothing(st, stage, queued_tasks, fut)
  BY <1>1, <1>4, <1>5, StartNothingType
<1>6. CASE fs # {} /\ schedule_build_if_stale(st, stage,
             Append(queued_tasks, TaskForChanges(st, stage, fs)), fut)
  BY <1>3, <1>4, <1>6, ScheduleType
<1>7. CASE schedule_build_if_stale(st, stage, Append(queued_tasks, FullBuild), fut)
  BY <1>3, <1>4, <1>7, ScheduleType
<1> QED BY <1>5, <1>6, <1>7 DEF handle_file_changes

\* The state DevEngine::new builds is well typed.
LEMMA InitType == Init => TypeOK
<1> SUFFICES ASSUME Init PROVE TypeOK
  OBVIOUS
<1>1. task \in Tasks
  BY TaskTypes DEF Init
<1>2. call \in [AllCalls -> Calls]
  BY DEF Init, IdleCall, Calls
<1>3. edits \in 0 .. MaxEdits /\ triggers \in 0 .. MaxTriggers
  BY ConstantsAssumption DEF Init
<1>4. queued_tasks \in Seq(TaskInputs) /\ mailbox \in Seq(Msgs)
  BY EmptySeq DEF Init
<1>5. lazy_pc \in [Proxies -> {"idle", "locking", "done"}]
  BY DEF Init
<1> QED BY <1>1, <1>2, <1>3, <1>4, <1>5 DEF Init, TypeOK, States, Stages

\* The run loop takes a message off the mailbox.
LEMMA ReceivedType ==
  ASSUME TypeOK, NEW kind, Received(kind)
  PROVE  Head(mailbox) \in Msgs /\ Head(mailbox).type = kind /\ mailbox' \in Seq(Msgs)
BY HeadTailProperties DEF TypeOK, Received

\* The first lines of BundleCoordinator::run keep every variable well typed.
LEMMA StartType == TypeOK /\ Start => TypeOK'
<1> SUFFICES ASSUME TypeOK, Start PROVE TypeOK'
  OBVIOUS
<1>1. Append(queued_tasks, FullBuild) \in Seq(TaskInputs)
  BY AppendProperties DEF TypeOK, TaskInputs
<1>2. SchedulingTypeOK'
  BY <1>1, ScheduleType DEF Start, TypeOK, States, Stages
<1> QED BY <1>2 DEF Start, TypeOK, SchedulingTypeOK, resultVars, graphVars,
                    engineVars, fileVars, envVars

\* So does handle_watch_event.
LEMMA HandleWatchEventType == TypeOK /\ HandleWatchEvent => TypeOK'
<1> SUFFICES ASSUME TypeOK, HandleWatchEvent PROVE TypeOK'
  OBVIOUS
<1>1. Head(mailbox).files \in SUBSET Files /\ mailbox' \in Seq(Msgs)
  BY ReceivedType, MsgFields DEF HandleWatchEvent
<1>2. SchedulingTypeOK' /\ stash' \subseteq Files
  <2>1. /\ state \in States /\ last_error_stage \in Stages
        /\ state = "Failed" <=> last_error_stage # "None"
        /\ stash \in SUBSET Files /\ current_bundling_future \in BOOLEAN
    BY DEF TypeOK
  <2>2. handle_file_changes(state, last_error_stage, Head(mailbox).files, stash,
                            current_bundling_future)
    BY DEF HandleWatchEvent
  <2> QED BY <1>1, <2>1, <2>2, FileChangesType
<1> QED BY <1>1, <1>2 DEF HandleWatchEvent, TypeOK, SchedulingTypeOK, resultVars,
                          graphVars, engineVars, fileVars, envVars

\* So does handle_bundle_completed.
LEMMA HandleBundleCompletedType == TypeOK /\ HandleBundleCompleted => TypeOK'
<1> SUFFICES ASSUME TypeOK, HandleBundleCompleted PROVE TypeOK'
  OBVIOUS
<1> DEFINE m == Head(mailbox)
<1>1. /\ mailbox' \in Seq(Msgs)
      /\ m.error_stage \in Stages
      /\ m.has_generated_bundle_output \in BOOLEAN
      /\ m.hmr_stage_watch_files \subseteq Files
  BY ReceivedType, MsgFields DEF HandleBundleCompleted
<1>2. watched' \subseteq Files
  BY <1>1 DEF HandleBundleCompleted, update_watch_paths, TypeOK
<1>3. /\ SchedulingTypeOK' /\ stash' \subseteq Files
      /\ has_stale_bundle_output' \in BOOLEAN
  <2>1. CASE CompleteFullBuild(m)
    <3>1. CASE m.error_stage # "None"
      BY <2>1, <3>1, StartNothingType
         DEF CompleteFullBuild, TypeOK, States, Stages
    <3>2. CASE m.error_stage = "None"
      BY <2>1, <3>2, FileChangesType DEF CompleteFullBuild, TypeOK, States, Stages
    <3> QED BY <3>1, <3>2
  <2>2. CASE CompleteIncremental(m)
    <3>1. CASE m.error_stage # "None"
      BY <1>1, <2>2, <3>1, ScheduleType DEF CompleteIncremental, TypeOK, States, Stages
    <3>2. CASE m.error_stage = "None"
      BY <1>1, <2>2, <3>2, ScheduleType DEF CompleteIncremental, TypeOK, States, Stages
    <3> QED BY <3>1, <3>2
  <2>3. CASE /\ StartNothing(state, last_error_stage, queued_tasks,
                             current_bundling_future)
             /\ UNCHANGED <<watched, has_stale_bundle_output, stash>>
    BY <2>3, StartNothingType DEF TypeOK
  <2> QED BY <2>1, <2>2, <2>3 DEF HandleBundleCompleted
<1> QED BY <1>1, <1>2, <1>3 DEF HandleBundleCompleted, TypeOK, SchedulingTypeOK,
             resultVars, graphVars, engineVars, fileVars, envVars

\* So does the ModuleChanged arm.
LEMMA HandleModuleChangedType == TypeOK /\ HandleModuleChanged => TypeOK'
<1> SUFFICES ASSUME TypeOK, HandleModuleChanged PROVE TypeOK'
  OBVIOUS
<1> DEFINE m == Head(mailbox)
           q == Append(queued_tasks, Rebuild({m.module_id}))
<1>1. /\ mailbox' \in Seq(Msgs)
      /\ m.module_id \in Proxies
      /\ m.watch_files \subseteq Files
  BY ReceivedType, MsgFields DEF HandleModuleChanged
<1>2. Rebuild({m.module_id}) \in TaskInputs
  BY <1>1 DEF Rebuild, TaskInputs
<1>3. q \in Seq(TaskInputs)
  BY <1>2, AppendProperties DEF TypeOK
<1>4. SchedulingTypeOK'
  BY <1>3, ScheduleType DEF HandleModuleChanged, TypeOK
<1>5. watched' \subseteq Files /\ has_stale_bundle_output' \in BOOLEAN
  BY <1>1 DEF HandleModuleChanged, RegisterLazyList, TypeOK
<1> QED BY <1>1, <1>4, <1>5 DEF HandleModuleChanged, TypeOK, SchedulingTypeOK,
             resultVars, graphVars, engineVars, fileVars, envVars

\* So does trigger_full_build of the coordinator.
LEMMA HandleTriggerFullBuildType == TypeOK /\ HandleTriggerFullBuild => TypeOK'
<1> SUFFICES ASSUME TypeOK, HandleTriggerFullBuild PROVE TypeOK'
  OBVIOUS
<1>1. <<FullBuild>> \in Seq(TaskInputs)
  BY DEF TaskInputs
<1>2. SchedulingTypeOK'
  BY <1>1, ScheduleType DEF HandleTriggerFullBuild, TypeOK
<1>3. mailbox' \in Seq(Msgs)
  BY ReceivedType DEF HandleTriggerFullBuild
<1> QED BY <1>2, <1>3 DEF HandleTriggerFullBuild, TypeOK, SchedulingTypeOK,
             resultVars, graphVars, engineVars, fileVars, envVars

\* The ways a waiting call moves on are well typed (dev_engine.rs).
LEMMA CallTypes ==
  ASSUME TypeOK, NEW c \in AllCalls
  PROVE  /\ call[c] \in Calls
         /\ \A r \in {"fresh", "failed", "closed", "limit", "waited"} :
              Ended(c, r) \in [AllCalls -> Calls]
         /\ \A flag \in BOOLEAN : Awaiting(c, flag) \in [AllCalls -> Calls]
<1>1. call \in [AllCalls -> Calls] /\ call[c] \in Calls
  BY DEF TypeOK
<1>2. \A r \in {"fresh", "failed", "closed", "limit", "waited"} :
        Ended(c, r) \in [AllCalls -> Calls]
  <2> TAKE r \in {"fresh", "failed", "closed", "limit", "waited"}
  <2>1. [call[c] EXCEPT !.pc = "done", !.result = r] \in Calls
    BY <1>1 DEF Calls
  <2>2. Ended(c, r) = [call EXCEPT ![c] = [call[c] EXCEPT !.pc = "done", !.result = r]]
    BY <1>1 DEF Ended
  <2> QED BY <1>1, <2>1, <2>2
<1>3. \A flag \in BOOLEAN : Awaiting(c, flag) \in [AllCalls -> Calls]
  <2> TAKE flag \in BOOLEAN
  <2>1. [call[c] EXCEPT !.pc = IF running' = 0 THEN "woken" ELSE "await",
                        !.flag = flag] \in Calls
    BY <1>1 DEF Calls
  <2>2. Awaiting(c, flag) =
          [call EXCEPT ![c] = [call[c] EXCEPT !.pc = IF running' = 0 THEN "woken" ELSE "await",
                                              !.flag = flag]]
    BY <1>1 DEF Awaiting
  <2> QED BY <1>1, <2>1, <2>2
<1> QED BY <1>1, <1>2, <1>3

\* So does ensure_latest_bundle_output of the coordinator.
LEMMA HandleEnsureType == TypeOK /\ HandleEnsureLatestBundleOutput => TypeOK'
<1> SUFFICES ASSUME TypeOK, HandleEnsureLatestBundleOutput PROVE TypeOK'
  OBVIOUS
<1> DEFINE c == Head(mailbox).reply
<1>1. mailbox' \in Seq(Msgs) /\ c \in AllCalls
  BY ReceivedType, MsgFields DEF HandleEnsureLatestBundleOutput, AllCalls
<1>2. call' \in [AllCalls -> Calls]
  <2>1. \/ \E flag \in BOOLEAN : call' = Awaiting(c, flag)
        \/ \E r \in {"fresh", "failed"} : call' = Ended(c, r)
    BY Zenon DEF HandleEnsureLatestBundleOutput
  <2> HIDE DEF c
  <2>2. ASSUME NEW flag \in BOOLEAN, call' = Awaiting(c, flag)
        PROVE  call' \in [AllCalls -> Calls]
    BY <1>1, <2>2, CallTypes
  <2>3. ASSUME NEW r \in {"fresh", "failed"}, call' = Ended(c, r)
        PROVE  call' \in [AllCalls -> Calls]
    BY <1>1, <2>3, CallTypes
  <2> QED BY <2>1, <2>2, <2>3
<1>3. SchedulingTypeOK'
  <2>1. CASE StartNothing(state, last_error_stage, queued_tasks,
                          current_bundling_future)
    BY <2>1, StartNothingType DEF TypeOK
  <2>2. CASE schedule_build_if_stale(state, last_error_stage, <<Rebuild({})>>,
                                     current_bundling_future)
    <3>1. Rebuild({}) \in TaskInputs
      BY DEF Rebuild, TaskInputs
    <3>2. <<Rebuild({})>> \in Seq(TaskInputs)
      BY <3>1
    <3> QED BY <2>2, <3>2, ScheduleType DEF TypeOK
  <2>3. CASE schedule_build_if_stale(state, last_error_stage, queued_tasks,
                                     current_bundling_future)
    BY <2>3, ScheduleType DEF TypeOK
  <2> QED BY <2>1, <2>2, <2>3 DEF HandleEnsureLatestBundleOutput
<1> QED BY <1>1, <1>2, <1>3 DEF HandleEnsureLatestBundleOutput, TypeOK,
             SchedulingTypeOK, resultVars, graphVars,
             engineVars, fileVars, envVars

\* So does create_state_snapshot.
LEMMA HandleGetStateType == TypeOK /\ HandleGetState => TypeOK'
<1> SUFFICES ASSUME TypeOK, HandleGetState PROVE TypeOK'
  OBVIOUS
<1> DEFINE c == Head(mailbox).reply
<1>1. mailbox' \in Seq(Msgs) /\ c \in AllCalls
  BY ReceivedType, MsgFields DEF HandleGetState, AllCalls
<1>2. call' \in [AllCalls -> Calls]
  BY <1>1, CallTypes DEF HandleGetState
<1> HIDE DEF c
<1>3. UNCHANGED <<coordVars, taskVars, watched, resultVars, bundler_lock, graphVars,
                  engineVars, fileVars, envVars>>
  BY DEF HandleGetState
<1> QED BY <1>1, <1>2, <1>3 DEF TypeOK, coordVars, taskVars, resultVars, graphVars,
             engineVars, fileVars, envVars

\* So does the end of the run loop.
LEMMA LeaveType == TypeOK /\ (HandleClose \/ Terminate) => TypeOK'
<1> SUFFICES ASSUME TypeOK, HandleClose \/ Terminate PROVE TypeOK'
  OBVIOUS
<1>1. mailbox' \in Seq(Msgs)
  <2>1. <<>> \in Seq(Msgs)
    BY EmptySeq
  <2>2. mailbox # <<>> => Tail(mailbox) \in Seq(Msgs)
    BY HeadTailProperties DEF TypeOK
  <2> QED BY <2>1, <2>2 DEF HandleClose, LeaveLoop, Terminate
<1>2. SchedulingTypeOK'
  BY DEF HandleClose, LeaveLoop, Terminate, TypeOK, taskVars, SchedulingTypeOK
<1>3. coordinator' \in {"draining", "terminated"}
  BY DEF HandleClose, LeaveLoop, Terminate
<1> QED BY <1>1, <1>2, <1>3
        DEF HandleClose, LeaveLoop, Terminate, TypeOK, SchedulingTypeOK, resultVars,
            graphVars, engineVars, fileVars, envVars

\* The updates a bundling task makes to itself are well typed.
LEMMA TaskStepTypes ==
  ASSUME NEW t \in Tasks, NEW input \in TaskInputs, NEW list \in SUBSET Files,
         NEW failed \in BOOLEAN
  PROVE  /\ \A pc \in {"reload", "hmr", "rebuild", "report"} :
              /\ [t EXCEPT !.pc = pc] \in Tasks
              /\ [t EXCEPT !.pc = pc, !.input = input] \in Tasks
              /\ [t EXCEPT !.pc = pc, !.hmr_errored = TRUE] \in Tasks
              /\ [t EXCEPT !.hmr_errored = TRUE, !.pc = pc] \in Tasks
         /\ [t EXCEPT !.pc = "report", !.has_rebuild_happen = TRUE,
                      !.rebuild_errored = failed,
                      !.hmr_stage_watch_files = list] \in Tasks
         /\ AfterReload(input) \in {"reload", "hmr", "rebuild", "report"}
         /\ AfterHmr(input) \in {"reload", "hmr", "rebuild", "report"}
         /\ t.input \in TaskInputs
BY DEF Tasks, AfterReload, AfterHmr

\* So do the watch_change hooks and the reload decision of run_inner.
LEMMA HooksType == TypeOK /\ (RunWatchChange \/ DecideReload) => TypeOK'
<1> SUFFICES ASSUME TypeOK, RunWatchChange \/ DecideReload PROVE TypeOK'
  OBVIOUS
<1>1. task' \in Tasks
  <2>1. task \in Tasks /\ task.input \in TaskInputs /\ FullBuild \in TaskInputs
    BY TaskTypes DEF TypeOK, Tasks, TaskInputs
  <2>2. CASE RunWatchChange
    BY <2>1, <2>2, TaskStepTypes DEF RunWatchChange
  <2>3. CASE DecideReload
    BY <2>1, <2>3, TaskStepTypes DEF DecideReload
  <2> QED BY <2>2, <2>3
<1> QED BY <1>1 DEF RunWatchChange, DecideReload, taskFrame, TypeOK, coordVars,
             resultVars, graphVars, engineVars, fileVars, envVars

\* Sending to the coordinator keeps the mailbox well typed.
LEMMA PostType ==
  ASSUME TypeOK, NEW m \in Msgs, Post(m)
  PROVE  mailbox' \in Seq(Msgs)
BY AppendProperties DEF TypeOK, Post

\* The history of what callers are owed is well typed.
LEMMA OwedTypes ==
  ASSUME TypeOK, NEW S
  PROVE  /\ OwedAfterScan(S) \in [AllCalls -> Calls]
         /\ OwedAfterBuild(S) \in [AllCalls -> Calls]
<1>1. call \in [AllCalls -> Calls]
  BY DEF TypeOK
<1>2. \A c \in AllCalls :
        /\ [call[c] EXCEPT !.owed_scan = @ \ S,
                           !.owed_build = @ \cup (call[c].owed_scan \cap S)] \in Calls
        /\ [call[c] EXCEPT !.owed_scan = @ \ S, !.owed_build = {}] \in Calls
  BY <1>1 DEF Calls
<1> QED BY <1>2 DEF OwedAfterScan, OwedAfterBuild

\* A scan brings in files.
LEMMA PulledInType ==
  ASSUME TypeOK, NEW S, NEW G \in PulledIn(S)
  PROVE  G \subseteq Files
<1>1. {Target[p] : p \in S \cap fetched} \subseteq Files
  BY ConstantsAssumption DEF TypeOK
<1>2. Added \subseteq Files
  BY ConstantsAssumption
<1> QED BY <1>1, <1>2 DEF PulledIn

\* A partial scan reads files and lazy proxies.
LEMMA PartialScanSetType ==
  ASSUME TypeOK
  PROVE  PartialScanSet(task.input) \subseteq Files \cup Proxies
BY DEF TypeOK, PartialScanSet

\* What a scan has to leave well typed.
ScanTypeOK ==
  /\ unscanned \subseteq Files
  /\ unreported \subseteq Files
  /\ unbuilt \subseteq Files
  /\ loaded \subseteq Files
  /\ pending_rescans \subseteq Files \cup Proxies
  /\ watch_files \subseteq Files
  /\ call \in [AllCalls -> Calls]

\* The error path of generate_hmr_updates leaves a task.
LEMMA HmrFailedType ==
  ASSUME TypeOK, HmrFailed
  PROVE  task' \in Tasks
<1>1. task \in Tasks /\ task.input \in TaskInputs
  BY DEF TypeOK, Tasks
<1> QED BY <1>1, TaskStepTypes DEF HmrFailed

\* So does generate_hmr_updates.
LEMMA GenerateHmrUpdatesType == TypeOK /\ GenerateHmrUpdates => TypeOK'
<1> SUFFICES ASSUME TypeOK, GenerateHmrUpdates PROVE TypeOK'
  OBVIOUS
<1> DEFINE S == IF has_snapshot THEN PartialScanSet(task.input) ELSE {}
<1>1. S \subseteq Files \cup Proxies
  BY PartialScanSetType
<1>2. UNCHANGED <<coordVars, watched, bundler_lock, engineVars, envVars, running,
                  mailbox, resultVars, has_snapshot, fetched>>
  BY DEF GenerateHmrUpdates, taskFrame
<1>3. task' \in Tasks
  <2>1. task \in Tasks /\ task.input \in TaskInputs
    BY DEF TypeOK, Tasks
  <2>2. HmrFailed \/ task' = [task EXCEPT !.pc = AfterHmr(task.input)]
    BY DEF GenerateHmrUpdates
  <2> QED BY <2>1, <2>2, HmrFailedType, TaskStepTypes
<1>4. ScanTypeOK' /\ lost_hmr_update' \in BOOLEAN /\ unsent' \in BOOLEAN
  <2>0. ScanTypeOK /\ lost_hmr_update \in BOOLEAN /\ unsent \in BOOLEAN
    BY DEF TypeOK, ScanTypeOK
  <2>1. CASE ScanFailed /\ UNCHANGED <<pending_rescans, lost_hmr_update, unsent, watch_files>>
    BY <2>0, <2>1 DEF ScanFailed, ScanTypeOK
  <2>2. CASE /\ ScanFailed
             /\ RequeueRescans(S)
             /\ watch_files' = watch_files \cup (S \cap Files)
             /\ UNCHANGED <<lost_hmr_update, unsent>>
    BY <1>1, <2>0, <2>2 DEF ScanFailed, ScanTypeOK, RequeueRescans
  <2>3. ASSUME NEW G \in PulledIn(S),
               MergeScan(S, G), unbuilt' = GraphAhead(S, G),
               watch_files' = watch_files \cup (S \cap Files) \cup G,
               call' = OwedAfterScan(S \cup G),
               pending_rescans' = {},
               lost_hmr_update' \in {TRUE, lost_hmr_update},
               unsent' \in {TRUE, unsent}
        PROVE  ScanTypeOK' /\ lost_hmr_update' \in BOOLEAN /\ unsent' \in BOOLEAN
    <3>1. G \subseteq Files
      BY PulledInType
    <3>2. call' \in [AllCalls -> Calls]
      BY <2>3, OwedTypes
    <3> QED BY <2>0, <2>3, <3>1, <3>2 DEF ScanTypeOK, MergeScan, GraphAhead
  <2> QED BY <2>1, <2>2, <2>3 DEF GenerateHmrUpdates
<1> QED BY <1>2, <1>3, <1>4 DEF TypeOK, ScanTypeOK, coordVars, resultVars, graphVars,
             engineVars, fileVars, envVars

\* The end of rebuild leaves a task.
LEMMA RebuiltType ==
  ASSUME TypeOK, NEW failed \in BOOLEAN, Rebuilt(failed)
  PROVE  task' \in Tasks /\ rebuild_failed' \in BOOLEAN
<1>1. /\ task \in Tasks /\ task.input \in TaskInputs
      /\ (IF require_generate_hmr_update(task.input) THEN watch_files ELSE {})
            \in SUBSET Files
  BY DEF TypeOK, Tasks
<1> QED BY <1>1, TaskStepTypes DEF Rebuilt

\* A full build keeps what it touches well typed.
LEMMA FullScanBuildType ==
  ASSUME TypeOK, FullScanBuild, pending_rescans' = {}
  PROVE  /\ ScanTypeOK' /\ task' \in Tasks /\ rebuild_failed' \in BOOLEAN
         /\ has_snapshot' \in BOOLEAN /\ lost_hmr_update' \in BOOLEAN /\ unsent' \in BOOLEAN
<1>0. ScanTypeOK /\ lost_hmr_update \in BOOLEAN /\ unsent \in BOOLEAN
  BY DEF TypeOK, ScanTypeOK
<1>1. Reachable \subseteq Files
  BY DEF Reachable
<1>2. task' \in Tasks /\ rebuild_failed' \in BOOLEAN
  BY RebuiltType DEF FullScanBuild
<1>3. CASE /\ has_snapshot' = FALSE
           /\ ScanFailed
           /\ \E read \in SUBSET Reachable : watch_files' = read
           /\ UNCHANGED <<lost_hmr_update, unsent>>
  BY <1>0, <1>1, <1>2, <1>3 DEF ScanFailed, ScanTypeOK
<1>4. ASSUME NEW G \in PulledIn(Files),
             MergeScan(Reachable, Reachable \cup G), has_snapshot' = TRUE,
             watch_files' = Reachable \cup G,
             unbuilt' \in {{}, GraphAhead(Reachable, (Reachable \cup G) \ loaded)},
             call' \in {OwedAfterBuild(Reachable \cup G), OwedAfterScan(Reachable \cup G)},
             lost_hmr_update' \in {FALSE, lost_hmr_update},
             unsent' \in {FALSE, unsent}
      PROVE  /\ ScanTypeOK' /\ has_snapshot' \in BOOLEAN
             /\ lost_hmr_update' \in BOOLEAN /\ unsent' \in BOOLEAN
  <2>1. G \subseteq Files
    BY PulledInType
  <2>2. call' \in [AllCalls -> Calls]
    BY <1>4, OwedTypes
  <2> QED BY <1>0, <1>1, <1>4, <2>1, <2>2 DEF ScanTypeOK, MergeScan, GraphAhead
<1> QED BY <1>2, <1>3, <1>4 DEF FullScanBuild

\* So does an incremental one.
LEMMA PartialScanBuildType ==
  ASSUME TypeOK, PartialScanBuild
  PROVE  /\ ScanTypeOK' /\ task' \in Tasks /\ rebuild_failed' \in BOOLEAN
         /\ has_snapshot' \in BOOLEAN /\ lost_hmr_update' \in BOOLEAN /\ unsent' \in BOOLEAN
<1> DEFINE S == PartialScanSet(task.input)
<1>0. ScanTypeOK /\ lost_hmr_update \in BOOLEAN /\ unsent \in BOOLEAN /\ has_snapshot \in BOOLEAN
  BY DEF TypeOK, ScanTypeOK
<1>1. S \subseteq Files \cup Proxies
  BY PartialScanSetType
<1>2. task' \in Tasks /\ rebuild_failed' \in BOOLEAN
  BY RebuiltType DEF PartialScanBuild
<1>3. has_snapshot' \in BOOLEAN /\ lost_hmr_update' \in BOOLEAN /\ unsent' \in BOOLEAN
  BY <1>0 DEF PartialScanBuild
<1> HIDE DEF S
<1>4. CASE ScanFailed /\ watch_files' = {} /\ UNCHANGED pending_rescans
  BY <1>0, <1>2, <1>3, <1>4 DEF ScanFailed, ScanTypeOK
<1>5. CASE ScanFailed /\ watch_files' = S \cap Files /\ RequeueRescans(S)
  BY <1>0, <1>1, <1>2, <1>3, <1>5 DEF ScanFailed, ScanTypeOK, RequeueRescans
<1>6. ASSUME NEW G \in PulledIn(S),
             MergeScan(S, G), watch_files' = (S \cap Files) \cup G,
             pending_rescans' = {},
             unbuilt' \in {{}, GraphAhead(S, G)},
             call' \in {OwedAfterBuild(S \cup G), OwedAfterScan(S \cup G)}
      PROVE  ScanTypeOK'
  <2>1. G \subseteq Files
    BY PulledInType
  <2>2. call' \in [AllCalls -> Calls]
    BY <1>6, OwedTypes
  <2> QED BY <1>0, <1>1, <1>6, <2>1, <2>2 DEF ScanTypeOK, MergeScan, GraphAhead
<1> QED BY <1>2, <1>3, <1>4, <1>5, <1>6 DEF PartialScanBuild, S

\* So does rebuild as a whole.
LEMMA RunRebuildType == TypeOK /\ RunRebuild => TypeOK'
<1> SUFFICES ASSUME TypeOK, RunRebuild PROVE TypeOK'
  OBVIOUS
<1>1. /\ ScanTypeOK' /\ task' \in Tasks /\ rebuild_failed' \in BOOLEAN
      /\ has_snapshot' \in BOOLEAN /\ lost_hmr_update' \in BOOLEAN /\ unsent' \in BOOLEAN
  BY FullScanBuildType, PartialScanBuildType DEF RunRebuild
<1>2. UNCHANGED <<coordVars, watched, bundler_lock, engineVars, envVars, running,
                  mailbox, last_task_errored, fetched>>
  BY DEF RunRebuild, taskFrame
<1> QED BY <1>1, <1>2 DEF TypeOK, ScanTypeOK, coordVars, engineVars, envVars

\* So does the end of BundlingTask::run.
LEMMA ReportCompletionType == TypeOK /\ ReportCompletion => TypeOK'
<1> SUFFICES ASSUME TypeOK, ReportCompletion PROVE TypeOK'
  OBVIOUS
<1> DEFINE stage == final_error_stage(task)
           m == BundleCompleted(stage, task.has_rebuild_happen,
                                task.hmr_stage_watch_files)
<1>1. mailbox' \in Seq(Msgs)
  <2>1. m \in Msgs
    BY DEF TypeOK, Tasks, Msgs, BundleCompleted, final_error_stage, Stages
  <2> QED BY <2>1, PostType DEF ReportCompletion
<1>2. call' \in [AllCalls -> Calls]
  <2>1. call \in [AllCalls -> Calls]
    BY DEF TypeOK
  <2>2. ASSUME NEW c \in AllCalls
        PROVE  Woken(stage)[c] \in Calls
    <3>1. call[c] \in Calls
      BY <2>1
    <3>2. CASE call[c].pc = "await"
      <4>1. PICK r \in {call[c].result, "fresh", "failed"} :
              Woken(stage)[c] = [call[c] EXCEPT !.pc = "woken", !.result = r]
        BY <3>2 DEF Woken
      <4> QED BY <3>1, <4>1 DEF Calls
    <3>3. CASE call[c].pc # "await"
      BY <3>1, <3>3 DEF Woken
    <3> QED BY <3>2, <3>3
  <2> QED BY <2>2 DEF ReportCompletion, TaskEnds, Woken
<1>3. UNCHANGED <<coordVars, watched, bundler_lock, engineVars, envVars,
                  rebuild_failed, graphVars, fileVars>>
  BY DEF ReportCompletion, TaskEnds, taskFrame
<1>4. /\ task' \in Tasks /\ running' \in Nat
      /\ last_task_errored' \in BOOLEAN
  BY TaskTypes DEF ReportCompletion, TaskEnds, TaskAt, TypeOK
<1> QED BY <1>1, <1>2, <1>3, <1>4 DEF TypeOK, coordVars, graphVars, engineVars,
             fileVars, envVars

\* So does the start of a call that waits for a build.
LEMMA BeginCallType ==
  ASSUME TypeOK, NEW c \in AllCalls, BeginCall(c)
  PROVE  TypeOK'
<1> DEFINE r == [call[c] EXCEPT !.pc = "send",
                                !.owed_scan = Owed(c, unscanned \ unreported),
                                !.owed_build = Owed(c, unbuilt)]
<1>1. call \in [AllCalls -> Calls] /\ call[c] \in Calls
  BY DEF TypeOK
<1>2. /\ Owed(c, unscanned \ unreported) \in SUBSET Files
      /\ Owed(c, unbuilt) \in SUBSET Files
  BY DEF TypeOK, Owed
<1>3. r \in Calls
  BY <1>1, <1>2 DEF Calls
<1>4. call' = [call EXCEPT ![c] = r]
  BY <1>1 DEF BeginCall
<1>5. call' \in [AllCalls -> Calls]
  BY <1>1, <1>3, <1>4
<1>6. UNCHANGED <<coordVars, watched, mailbox, taskVars, resultVars, bundler_lock,
                  graphVars, engineVars, fileVars, envVars>>
  BY DEF BeginCall
<1> QED BY <1>5, <1>6 DEF TypeOK, coordVars, taskVars, resultVars, graphVars,
             engineVars, fileVars, envVars

\* So does every later step of such a call.
LEMMA StepCallType ==
  ASSUME TypeOK, NEW c \in AllCalls, StepCall(c)
  PROVE  TypeOK'
<1>1. call \in [AllCalls -> Calls] /\ call[c] \in Calls
  BY DEF TypeOK
<1>2. call' \in [AllCalls -> Calls]
  <2>1. [call EXCEPT ![c].pc = "reply", ![c].loops = @ + 1] \in [AllCalls -> Calls]
    <3>1. [call[c] EXCEPT !.pc = "reply", !.loops = @ + 1] \in Calls
      <4>1. call[c].loops + 1 \in Nat
        BY <1>1 DEF Calls
      <4> QED BY <1>1, <4>1 DEF Calls
    <3>2. [call EXCEPT ![c].pc = "reply", ![c].loops = @ + 1] =
            [call EXCEPT ![c] = [call[c] EXCEPT !.pc = "reply", !.loops = @ + 1]]
      BY <1>1
    <3> QED BY <1>1, <3>1, <3>2
  <2>a. /\ Ended(c, "closed") \in [AllCalls -> Calls]
        /\ Ended(c, "limit") \in [AllCalls -> Calls]
        /\ Ended(c, "waited") \in [AllCalls -> Calls]
    BY CallTypes
  <2>b. /\ [call EXCEPT ![c].pc = "send"] \in [AllCalls -> Calls]
        /\ [call EXCEPT ![c].pc = "reply"] \in [AllCalls -> Calls]
        /\ [call EXCEPT ![c].pc = "done"] \in [AllCalls -> Calls]
    BY <1>1 DEF Calls
  <2>2. CASE SendEnsure(c)
    BY <2>1, <2>2, <2>a DEF SendEnsure
  <2>3. CASE SendGetState(c)
    BY <2>3, <2>a, <2>b DEF SendGetState
  <2>4. CASE ReplyDropped(c)
    BY <2>4, <2>a DEF ReplyDropped
  <2>5. CASE Resume(c)
    BY <2>5, <2>a, <2>b DEF Resume
  <2> QED BY <2>2, <2>3, <2>4, <2>5 DEF StepCall
<1>3. mailbox' \in Seq(Msgs)
  <2>1. /\ c \in Callers => Request("EnsureLatestBundleOutput", c) \in Msgs
        /\ c \in Waiters => Request("GetState", c) \in Msgs
    BY DEF Request, Msgs
  <2>2. mailbox \in Seq(Msgs)
    BY DEF TypeOK
  <2>3. CASE SendEnsure(c)
    BY <2>1, <2>2, <2>3, PostType DEF SendEnsure
  <2>4. CASE SendGetState(c)
    BY <2>1, <2>2, <2>4, PostType DEF SendGetState
  <2>5. CASE UNCHANGED mailbox
    BY <2>2, <2>5
  <2> QED BY <2>3, <2>4, <2>5 DEF StepCall, ReplyDropped, Resume
<1>4. UNCHANGED <<coordVars, watched, taskVars, resultVars, bundler_lock, graphVars,
                  engineVars, fileVars, envVars>>
  BY DEF StepCall, SendEnsure, SendGetState, ReplyDropped, Resume
<1> QED BY <1>2, <1>3, <1>4 DEF TypeOK, coordVars, taskVars, resultVars, graphVars,
             engineVars, fileVars, envVars

\* So does DevEngine::trigger_full_build.
LEMMA TriggerFullBuildType == TypeOK /\ TriggerFullBuild => TypeOK'
<1> SUFFICES ASSUME TypeOK, TriggerFullBuild PROVE TypeOK'
  OBVIOUS
<1>1. mailbox' \in Seq(Msgs)
  <2>1. Signal("TriggerFullBuild") \in Msgs
    BY DEF Signal, Msgs
  <2> QED BY <2>1, PostType DEF TriggerFullBuild
<1>2. triggers' \in 0 .. MaxTriggers
  BY ConstantsAssumption DEF TriggerFullBuild, TypeOK
<1>3. UNCHANGED <<coordVars, watched, taskVars, resultVars, bundler_lock, graphVars,
                  engineVars, call, fileVars, edits>>
  BY DEF TriggerFullBuild
<1> QED BY <1>1, <1>2, <1>3 DEF TypeOK, coordVars, taskVars, resultVars, graphVars,
             engineVars, fileVars, envVars

\* So does DevEngine::compile_lazy_entry.
LEMMA CompileLazyEntryType ==
  ASSUME TypeOK, NEW p \in Proxies, CompileLazyEntry(p)
  PROVE  TypeOK'
<1> DEFINE S == {p} \cup pending_rescans
<1>0. ScanTypeOK
  BY DEF TypeOK, ScanTypeOK
<1>1. S \subseteq Files \cup Proxies /\ Target[p] \in Files
  BY ConstantsAssumption DEF TypeOK
<1>2. ScanTypeOK' /\ mailbox' \in Seq(Msgs)
  <2>0. mailbox \in Seq(Msgs)
    BY DEF TypeOK
  <2>1. CASE ScanFailed /\ UNCHANGED <<mailbox, pending_rescans, watch_files>>
    BY <1>0, <2>0, <2>1 DEF ScanFailed, ScanTypeOK
  <2>2. CASE /\ ScanFailed
             /\ RequeueRescans(S)
             /\ watch_files' = watch_files \cup (S \cap Files) \cup {Target[p]}
             /\ UNCHANGED mailbox
    BY <1>0, <1>1, <2>0, <2>2 DEF ScanFailed, ScanTypeOK, RequeueRescans
  <2>3. ASSUME NEW new \in PulledIn(S),
               MergeScan(S, new \cup ({Target[p]} \ loaded)),
               unbuilt' = GraphAhead(S, new \cup ({Target[p]} \ loaded)),
               watch_files' = watch_files \cup (S \cap Files)
                                \cup (new \cup ({Target[p]} \ loaded)),
               call' = OwedAfterScan(S \cup (new \cup ({Target[p]} \ loaded))),
               pending_rescans' = {},
               Post(ModuleChanged(p, watch_files')) \/ UNCHANGED mailbox
        PROVE  ScanTypeOK' /\ mailbox' \in Seq(Msgs)
    <3>1. new \subseteq Files
      BY PulledInType
    <3>2. call' \in [AllCalls -> Calls]
      BY <2>3, OwedTypes
    <3>3. ScanTypeOK'
      BY <1>0, <1>1, <2>3, <3>1, <3>2 DEF ScanTypeOK, MergeScan, GraphAhead
    <3>4. ModuleChanged(p, watch_files') \in Msgs
      BY <3>3 DEF ScanTypeOK, ModuleChanged, Msgs
    <3> QED BY <2>0, <2>3, <3>3, <3>4, PostType
  <2> QED BY <2>1, <2>2, <2>3 DEF CompileLazyEntry
<1>3. /\ fetched' \subseteq Proxies
      /\ lazy_pc' \in [Proxies -> {"idle", "locking", "done"}]
  BY DEF CompileLazyEntry, TypeOK
<1>4. UNCHANGED <<coordVars, watched, taskVars, resultVars, bundler_lock, has_snapshot,
                  lost_hmr_update, unsent, is_closed, close_pc, envVars>>
  BY DEF CompileLazyEntry
<1> QED BY <1>2, <1>3, <1>4 DEF TypeOK, ScanTypeOK, coordVars, taskVars, resultVars,
             envVars

\* So does the request that leads to it.
LEMMA RequestLazyType ==
  ASSUME TypeOK, NEW p \in Proxies, RequestLazy(p)
  PROVE  TypeOK'
<1>1. lazy_pc' \in [Proxies -> {"idle", "locking", "done"}]
  BY DEF RequestLazy, TypeOK
<1>2. UNCHANGED <<coordVars, watched, mailbox, taskVars, resultVars, bundler_lock,
                  graphVars, is_closed, close_pc, call, fileVars, envVars>>
  BY DEF RequestLazy
<1> QED BY <1>1, <1>2 DEF TypeOK, coordVars, taskVars, resultVars, graphVars,
             engineVars, fileVars, envVars

\* So does DevEngine::close.
LEMMA CloseType == TypeOK /\ (CallClose \/ CloseSteps) => TypeOK'
<1> SUFFICES ASSUME TypeOK, CallClose \/ CloseSteps PROVE TypeOK'
  OBVIOUS
<1>1. mailbox' \in Seq(Msgs)
  <2>1. Signal("Close") \in Msgs
    BY DEF Signal, Msgs
  <2>2. mailbox \in Seq(Msgs)
    BY DEF TypeOK
  <2> QED BY <2>1, <2>2, PostType DEF CallClose, CloseSteps, CloseLocksBundler,
               CloseReleasesBundler, CloseReturns
<1>2. /\ is_closed' \in BOOLEAN
      /\ close_pc' \in {"idle", "locking", "closing", "waiting", "done"}
      /\ bundler_lock' \in {"free", "close"}
  BY DEF TypeOK, CallClose, CloseSteps, CloseLocksBundler, CloseReleasesBundler,
         CloseReturns
<1>3. UNCHANGED <<coordVars, watched, taskVars, resultVars, graphVars, lazy_pc, call,
                  fileVars, envVars>>
  BY DEF CallClose, CloseSteps, CloseLocksBundler, CloseReleasesBundler, CloseReturns
<1> QED BY <1>1, <1>2, <1>3 DEF TypeOK, coordVars, taskVars, resultVars, graphVars,
             engineVars, fileVars, envVars

\* So does an edit of a file.
LEMMA EditType ==
  ASSUME TypeOK, NEW f \in Files, Edit(f)
  PROVE  TypeOK'
<1>1. mailbox' \in Seq(Msgs)
  <2>1. WatchEvent({f}) \in Msgs
    BY DEF WatchEvent, Msgs
  <2> QED BY <2>1, PostType DEF Edit, TypeOK
<1>2. /\ unscanned' \subseteq Files /\ unreported' \subseteq Files
      /\ edits' \in 0 .. MaxEdits
  BY ConstantsAssumption DEF Edit, TypeOK
<1>3. UNCHANGED <<coordVars, watched, taskVars, resultVars, bundler_lock, graphVars,
                  engineVars, call, unbuilt, triggers>>
  BY DEF Edit
<1> QED BY <1>1, <1>2, <1>3 DEF TypeOK, coordVars, taskVars, resultVars, graphVars,
             engineVars, fileVars, envVars

\* So does a step of something else.
LEMMA StutterType == TypeOK /\ UNCHANGED vars => TypeOK'
BY DEF TypeOK, vars, coordVars, taskVars, resultVars, graphVars,
             engineVars, fileVars, envVars

\* No step of the engine leaves the types.
LEMMA NextType == TypeOK /\ [Next]_vars => TypeOK'
<1> SUFFICES ASSUME TypeOK, [Next]_vars PROVE TypeOK'
  OBVIOUS
<1>1. CASE Start
  BY <1>1, StartType
<1>2. CASE Handle
  BY <1>2, HandleWatchEventType, HandleBundleCompletedType, HandleModuleChangedType,
     HandleTriggerFullBuildType, HandleEnsureType, HandleGetStateType, LeaveType
     DEF Handle
<1>3. CASE Terminate
  BY <1>3, LeaveType
<1>4. CASE RunTask
  BY <1>4, HooksType, GenerateHmrUpdatesType, RunRebuildType, ReportCompletionType
     DEF RunTask
<1>5. CASE \E c \in AllCalls : StepCall(c)
  BY <1>5, StepCallType
<1>6. CASE \E p \in Proxies : CompileLazyEntry(p)
  BY <1>6, CompileLazyEntryType
<1>7. CASE CloseSteps
  BY <1>7, CloseType
<1>8. CASE Environment
  BY <1>8, BeginCallType, TriggerFullBuildType, RequestLazyType, CloseType, EditType
     DEF Environment
<1>9. CASE UNCHANGED vars
  BY <1>9, StutterType
<1> QED BY <1>1, <1>2, <1>3, <1>4, <1>5, <1>6, <1>7, <1>8, <1>9 DEF Next

\* Every variable of the dev engine keeps its type, and the error stage is set
\* exactly in the Failed state that carries it (CoordinatorState).
THEOREM TypeCorrect == Spec => []TypeOK
BY InitType, NextType, PTL DEF Spec

-----------------------------------------------------------------------------
(* Builds are serialized. *)

NoCompletion(q)  == CompletionsIn(q) = {}
OneCompletion(q) == \E i \in DOMAIN q : CompletionsIn(q) = {i}

\* The inductive strengthening: BuildsAccountedFor says nothing before the run
\* loop starts and after it ends, where no task may be left.
BuildInv ==
  /\ BuildsAccountedFor
  /\ coordinator = "init" =>
       /\ running = 0
       /\ ~current_bundling_future
       /\ NoCompletion(mailbox)
  /\ coordinator = "terminated" => running = 0

\* Sending to the mailbox adds a completion exactly when it is one.
LEMMA AppendCompletions ==
  ASSUME NEW q \in Seq(Msgs), NEW m \in Msgs
  PROVE  /\ m.type # "BundleCompleted" => CompletionsIn(Append(q, m)) = CompletionsIn(q)
         /\ m.type = "BundleCompleted" /\ NoCompletion(q) => OneCompletion(Append(q, m))
<1>1. /\ DOMAIN q = 1 .. Len(q) /\ Len(q) \in Nat
      /\ DOMAIN Append(q, m) = 1 .. Len(q) + 1
      /\ \A i \in 1 .. Len(q) : Append(q, m)[i] = q[i]
      /\ Append(q, m)[Len(q) + 1] = m
  BY AppendProperties, LenProperties
<1>2. ASSUME m.type # "BundleCompleted"
      PROVE  CompletionsIn(Append(q, m)) = CompletionsIn(q)
  BY <1>1, <1>2 DEF CompletionsIn
<1>3. ASSUME m.type = "BundleCompleted", NoCompletion(q)
      PROVE  OneCompletion(Append(q, m))
  <2>1. CompletionsIn(Append(q, m)) = {Len(q) + 1}
    BY <1>1, <1>3 DEF CompletionsIn, NoCompletion
  <2>2. Len(q) + 1 \in DOMAIN Append(q, m)
    BY <1>1
  <2> QED BY <2>1, <2>2 DEF OneCompletion
<1> QED BY <1>2, <1>3

\* Receiving from the mailbox removes a completion exactly when it is one.
LEMMA TailCompletions ==
  ASSUME NEW q \in Seq(Msgs), q # <<>>
  PROVE  /\ NoCompletion(q) => NoCompletion(Tail(q))
         /\ Head(q).type = "BundleCompleted" =>
              ~NoCompletion(q) /\ (OneCompletion(q) => NoCompletion(Tail(q)))
         /\ Head(q).type # "BundleCompleted" /\ OneCompletion(q) => OneCompletion(Tail(q))
<1>1. /\ DOMAIN q = 1 .. Len(q) /\ Len(q) \in Nat \ {0}
      /\ DOMAIN Tail(q) = 1 .. Len(q) - 1
      /\ \A i \in 1 .. Len(q) - 1 : Tail(q)[i] = q[i + 1]
      /\ Head(q) = q[1]
  BY HeadTailProperties, LenProperties, EmptySeq
<1>2. NoCompletion(q) => NoCompletion(Tail(q))
  BY <1>1 DEF CompletionsIn, NoCompletion
<1>3. ASSUME Head(q).type = "BundleCompleted"
      PROVE  ~NoCompletion(q) /\ (OneCompletion(q) => NoCompletion(Tail(q)))
  <2>1. 1 \in CompletionsIn(q)
    BY <1>1, <1>3 DEF CompletionsIn
  <2>2. ASSUME OneCompletion(q) PROVE NoCompletion(Tail(q))
    <3>1. CompletionsIn(q) = {1}
      BY <2>1, <2>2 DEF OneCompletion
    <3> QED BY <1>1, <3>1 DEF CompletionsIn, NoCompletion
  <2> QED BY <2>1, <2>2 DEF NoCompletion
<1>4. ASSUME Head(q).type # "BundleCompleted", OneCompletion(q)
      PROVE  OneCompletion(Tail(q))
  <2>1. PICK i \in DOMAIN q : CompletionsIn(q) = {i}
    BY <1>4 DEF OneCompletion
  <2>2. i # 1 /\ i - 1 \in DOMAIN Tail(q)
    BY <1>1, <1>4, <2>1 DEF CompletionsIn
  <2>3. CompletionsIn(Tail(q)) = {i - 1}
    BY <1>1, <2>1, <2>2 DEF CompletionsIn
  <2> QED BY <2>2, <2>3 DEF OneCompletion
<1> QED BY <1>2, <1>3, <1>4

\* A handler that left st and fut when it came to schedule started at most one
\* task, and none while one was running.
StartsAtMostOne(st, fut) ==
  \/ /\ state' = st
     /\ current_bundling_future' = fut
     /\ running' = running
  \/ /\ st \notin Building
     /\ state' \in Building
     /\ current_bundling_future' = TRUE
     /\ running' = running + 1

\* schedule_build_if_stale starts at most one task, and none in a building state.
LEMMA ScheduleEffect ==
  ASSUME NEW st, NEW stage, NEW q, NEW fut, schedule_build_if_stale(st, stage, q, fut)
  PROVE  StartsAtMostOne(st, fut)
BY DEF schedule_build_if_stale, StartNothing, StartTask, StartsAtMostOne, Building,
       taskVars

\* So does handle_file_changes.
LEMMA FileChangesEffect ==
  ASSUME NEW st, NEW stage, NEW fs, NEW sh, NEW fut,
         handle_file_changes(st, stage, fs, sh, fut)
  PROVE  StartsAtMostOne(st, fut)
<1>1. CASE StartNothing(st, stage, queued_tasks, fut)
  BY <1>1 DEF StartNothing, StartsAtMostOne, taskVars
<1>2. CASE \E q : schedule_build_if_stale(st, stage, q, fut)
  BY <1>2, ScheduleEffect
<1> QED BY <1>1, <1>2 DEF handle_file_changes

\* Every handler but that of BundleCompleted keeps builds accounted for.
LEMMA HandlerKeepsBuildInv ==
  ASSUME TypeOK, BuildInv, NEW kind, kind # "BundleCompleted", Received(kind),
         StartsAtMostOne(state, current_bundling_future), coordinator' = coordinator
  PROVE  BuildInv'
<1>1. /\ mailbox \in Seq(Msgs) /\ mailbox # <<>> /\ Head(mailbox).type # "BundleCompleted"
      /\ mailbox' = Tail(mailbox) /\ coordinator = "running" /\ running \in {0, 1}
  BY DEF TypeOK, Received, BuildInv, BuildsAccountedFor
<1>2. CASE state \in Building
  <2>1. UNCHANGED <<state, current_bundling_future, running>>
    BY <1>2 DEF StartsAtMostOne
  <2>2. /\ running = 1 => NoCompletion(mailbox')
        /\ running = 0 => OneCompletion(mailbox')
    BY <1>1, <1>2, TailCompletions
       DEF BuildInv, BuildsAccountedFor, NoCompletion, OneCompletion
  <2> QED BY <1>1, <1>2, <2>1, <2>2
          DEF BuildInv, BuildsAccountedFor, NoCompletion, OneCompletion
<1>3. CASE state \notin Building
  BY <1>1, <1>3, TailCompletions
     DEF BuildInv, BuildsAccountedFor, StartsAtMostOne, NoCompletion, OneCompletion
<1> QED BY <1>2, <1>3

\* handle_bundle_completed takes the one completion in the mailbox, in a building
\* state with no task running, and starts at most one task.
LEMMA BundleCompletedKeepsBuildInv ==
  TypeOK /\ BuildInv /\ HandleBundleCompleted => BuildInv'
<1> SUFFICES ASSUME TypeOK, BuildInv, HandleBundleCompleted PROVE BuildInv'
  OBVIOUS
<1> DEFINE m == Head(mailbox)
<1>1. /\ mailbox \in Seq(Msgs) /\ mailbox # <<>> /\ Head(mailbox).type = "BundleCompleted"
      /\ mailbox' = Tail(mailbox) /\ coordinator = "running" /\ coordinator' = "running"
  BY DEF TypeOK, HandleBundleCompleted, Received
<1>2. state \in Building /\ running = 0 /\ NoCompletion(mailbox')
  BY <1>1, TailCompletions DEF BuildInv, BuildsAccountedFor, NoCompletion, OneCompletion
<1>3. \E st : st \notin Building /\ StartsAtMostOne(st, FALSE)
  <2>1. CASE CompleteFullBuild(m)
    <3>1. "FullBuildFailed" \notin Building /\ "Idle" \notin Building
      BY DEF Building
    <3>2. CASE StartNothing("FullBuildFailed", "None", queued_tasks, FALSE)
      BY <3>1, <3>2 DEF StartNothing, StartsAtMostOne, taskVars
    <3>3. CASE handle_file_changes("Idle", "None", stash, {}, FALSE)
      BY <3>1, <3>3, FileChangesEffect
    <3> QED BY <2>1, <3>2, <3>3 DEF CompleteFullBuild
  <2>2. CASE CompleteIncremental(m)
    <3>1. "Failed" \notin Building /\ "Idle" \notin Building
      BY DEF Building
    <3> QED BY <2>2, <3>1, ScheduleEffect DEF CompleteIncremental
  <2> QED BY <1>2, <2>1, <2>2 DEF HandleBundleCompleted
<1> QED BY <1>1, <1>2, <1>3
        DEF BuildInv, BuildsAccountedFor, StartsAtMostOne, NoCompletion, OneCompletion

\* A step outside the coordinator that posts no BundleCompleted keeps it too.
LEMMA QuietStepKeepsBuildInv ==
  ASSUME TypeOK, BuildInv,
         UNCHANGED <<coordinator, state, current_bundling_future, running>>,
         \/ UNCHANGED mailbox
         \/ \E m \in Msgs : m.type # "BundleCompleted" /\ Post(m)
  PROVE  BuildInv'
<1>1. CASE UNCHANGED mailbox
  BY <1>1 DEF BuildInv, BuildsAccountedFor, NoCompletion, CompletionsIn
<1>2. CASE \E m \in Msgs : m.type # "BundleCompleted" /\ Post(m)
  <2>1. PICK m \in Msgs : m.type # "BundleCompleted" /\ Post(m)
    BY <1>2
  <2>2. mailbox \in Seq(Msgs)
    BY DEF TypeOK
  <2>3. mailbox' = mailbox \/ mailbox' = Append(mailbox, m)
    BY <2>1 DEF Post
  <2>4. CompletionsIn(mailbox') = CompletionsIn(mailbox)
    BY <2>1, <2>2, <2>3, AppendCompletions
  <2>5. OneCompletion(mailbox) <=> OneCompletion(mailbox')
    <3>1. CompletionsIn(mailbox) \subseteq DOMAIN mailbox
          /\ CompletionsIn(mailbox') \subseteq DOMAIN mailbox'
      BY DEF CompletionsIn
    <3> QED BY <2>4, <3>1 DEF OneCompletion
  <2> QED BY <2>4, <2>5 DEF BuildInv, BuildsAccountedFor, NoCompletion, OneCompletion
<1> QED BY <1>1, <1>2

\* BundlingTask::run ends by turning the running task into a message.
LEMMA ReportKeepsBuildInv == TypeOK /\ BuildInv /\ ReportCompletion => BuildInv'
<1> SUFFICES ASSUME TypeOK, BuildInv, ReportCompletion PROVE BuildInv'
  OBVIOUS
<1> DEFINE m == BundleCompleted(final_error_stage(task), task.has_rebuild_happen,
                                task.hmr_stage_watch_files)
<1>1. m \in Msgs /\ m.type = "BundleCompleted"
  BY DEF TypeOK, Tasks, Msgs, BundleCompleted, final_error_stage, Stages
<1>2. running = 1 /\ running' = 0
  BY DEF ReportCompletion, TaskEnds, TaskAt, BuildInv, BuildsAccountedFor
<1>3. UNCHANGED <<coordinator, state, current_bundling_future>>
  BY DEF ReportCompletion, TaskEnds, taskFrame, coordVars
<1>4. mailbox \in Seq(Msgs) /\ Post(m)
  BY DEF TypeOK, ReportCompletion
<1> HIDE DEF m
<1>5. CASE coordinator = "running"
  <2>1. state \in Building /\ current_bundling_future /\ NoCompletion(mailbox)
    BY <1>2, <1>5 DEF BuildInv, BuildsAccountedFor, NoCompletion
  <2>2. OneCompletion(mailbox')
    BY <1>1, <1>4, <1>5, <2>1, AppendCompletions DEF Post
  <2> QED BY <1>2, <1>3, <1>5, <2>1, <2>2 DEF BuildInv, BuildsAccountedFor, OneCompletion
<1>6. CASE coordinator # "running"
  BY <1>2, <1>3, <1>6 DEF BuildInv, BuildsAccountedFor
<1> QED BY <1>5, <1>6

\* The first build is the only one.
LEMMA StartKeepsBuildInv == TypeOK /\ BuildInv /\ Start => BuildInv'
<1> SUFFICES ASSUME TypeOK, BuildInv, Start PROVE BuildInv'
  OBVIOUS
<1>1. /\ running = 0 /\ ~current_bundling_future /\ NoCompletion(mailbox)
      /\ coordinator' = "running" /\ mailbox' = mailbox
  BY DEF Start, BuildInv
<1>2. StartsAtMostOne("Idle", current_bundling_future) /\ "Idle" \notin Building
  BY ScheduleEffect DEF Start, Building
<1>3. current_bundling_future = FALSE
  BY <1>1 DEF TypeOK
<1>4. NoCompletion(mailbox')
  BY <1>1
<1> QED BY <1>1, <1>2, <1>3, <1>4
        DEF BuildInv, BuildsAccountedFor, StartsAtMostOne, NoCompletion

\* The Close arm awaits the running task, so no task outlives the run loop.
LEMMA LeaveKeepsBuildInv == TypeOK /\ BuildInv /\ (HandleClose \/ Terminate) => BuildInv'
<1> SUFFICES ASSUME TypeOK, BuildInv, HandleClose \/ Terminate PROVE BuildInv'
  OBVIOUS
<1>1. running' = running /\ running \in {0, 1}
  BY DEF HandleClose, LeaveLoop, Terminate, taskVars, BuildInv, BuildsAccountedFor
<1>2. \/ coordinator' = "draining"
      \/ coordinator' = "terminated" /\ running = 0
  <2>1. CASE HandleClose
    <3>1. coordinator = "running"
      BY <2>1 DEF HandleClose, LeaveLoop
    <3>2. ~current_bundling_future => running = 0
      BY <3>1 DEF BuildInv, BuildsAccountedFor
    <3> QED BY <2>1, <3>2 DEF HandleClose, LeaveLoop
  <2>2. CASE Terminate
    BY <2>2 DEF Terminate
  <2> QED BY <2>1, <2>2
<1> QED BY <1>1, <1>2 DEF BuildInv, BuildsAccountedFor

\* Nothing runs before the engine does.
LEMMA InitBuildInv == Init => BuildInv
<1> SUFFICES ASSUME Init PROVE BuildInv
  OBVIOUS
<1>1. NoCompletion(mailbox)
  BY EmptySeq DEF Init, NoCompletion, CompletionsIn
<1> QED BY <1>1 DEF Init, BuildInv, BuildsAccountedFor

\* The run loop keeps builds accounted for, whatever it receives.
LEMMA HandleKeepsBuildInv == TypeOK /\ BuildInv /\ Handle => BuildInv'
<1> SUFFICES ASSUME TypeOK, BuildInv, Handle PROVE BuildInv'
  OBVIOUS
<1>1. CASE HandleWatchEvent
  <2>1. Received("WatchEvent") /\ coordinator' = coordinator
    BY <1>1 DEF HandleWatchEvent
  <2>2. StartsAtMostOne(state, current_bundling_future)
    BY <1>1, FileChangesEffect DEF HandleWatchEvent
  <2> QED BY <2>1, <2>2, HandlerKeepsBuildInv
<1>2. CASE HandleBundleCompleted
  BY <1>2, BundleCompletedKeepsBuildInv
<1>3. CASE HandleModuleChanged
  <2>1. Received("ModuleChanged") /\ coordinator' = coordinator
    BY <1>3 DEF HandleModuleChanged
  <2>2. StartsAtMostOne(state, current_bundling_future)
    BY <1>3, ScheduleEffect DEF HandleModuleChanged
  <2> QED BY <2>1, <2>2, HandlerKeepsBuildInv
<1>4. CASE HandleTriggerFullBuild
  <2>1. Received("TriggerFullBuild") /\ coordinator' = coordinator
    BY <1>4 DEF HandleTriggerFullBuild
  <2>2. StartsAtMostOne(state, current_bundling_future)
    BY <1>4, ScheduleEffect DEF HandleTriggerFullBuild
  <2> QED BY <2>1, <2>2, HandlerKeepsBuildInv
<1>5. CASE HandleEnsureLatestBundleOutput
  <2>1. Received("EnsureLatestBundleOutput") /\ coordinator' = coordinator
    BY <1>5 DEF HandleEnsureLatestBundleOutput
  <2>2. \/ \E q : schedule_build_if_stale(state, last_error_stage, q,
                                          current_bundling_future)
        \/ StartNothing(state, last_error_stage, queued_tasks, current_bundling_future)
    BY <1>5 DEF HandleEnsureLatestBundleOutput
  <2>3. StartsAtMostOne(state, current_bundling_future)
    BY <2>2, ScheduleEffect DEF StartNothing, StartsAtMostOne, taskVars
  <2> QED BY <2>1, <2>3, HandlerKeepsBuildInv
<1>6. CASE HandleGetState
  <2>1. /\ Received("GetState")
        /\ UNCHANGED <<coordinator, state, current_bundling_future, running>>
    BY <1>6 DEF HandleGetState, coordVars, taskVars
  <2> QED BY <2>1, HandlerKeepsBuildInv DEF StartsAtMostOne
<1>7. CASE HandleClose
  BY <1>7, LeaveKeepsBuildInv
<1> QED BY <1>1, <1>2, <1>3, <1>4, <1>5, <1>6, <1>7 DEF Handle

\* So does the running task.
LEMMA TaskKeepsBuildInv == TypeOK /\ BuildInv /\ RunTask => BuildInv'
<1> SUFFICES ASSUME TypeOK, BuildInv, RunTask PROVE BuildInv'
  OBVIOUS
<1>1. CASE ReportCompletion
  BY <1>1, ReportKeepsBuildInv
<1>2. CASE RunWatchChange \/ DecideReload \/ GenerateHmrUpdates \/ RunRebuild
  <2>1. UNCHANGED <<coordinator, state, current_bundling_future, running, mailbox>>
    BY <1>2 DEF RunWatchChange, DecideReload, GenerateHmrUpdates, RunRebuild, taskFrame,
                coordVars
  <2> QED BY <2>1, QuietStepKeepsBuildInv
<1> QED BY <1>1, <1>2 DEF RunTask

\* So do the public calls of DevEngine and the files' editor.
LEMMA EngineKeepsBuildInv ==
  ASSUME TypeOK, BuildInv,
         \/ \E c \in AllCalls : BeginCall(c) \/ StepCall(c)
         \/ \E p \in Proxies : RequestLazy(p) \/ CompileLazyEntry(p)
         \/ TriggerFullBuild \/ CallClose \/ CloseSteps
         \/ \E f \in Files : Edit(f)
  PROVE  BuildInv'
<1>1. UNCHANGED <<coordinator, state, current_bundling_future, running>>
  BY DEF BeginCall, StepCall, SendEnsure, SendGetState, ReplyDropped, Resume, RequestLazy,
         CompileLazyEntry, TriggerFullBuild, CallClose, CloseSteps, CloseLocksBundler,
         CloseReleasesBundler, CloseReturns, Edit, coordVars, taskVars
<1>2. \/ UNCHANGED mailbox
      \/ \E m \in Msgs : m.type # "BundleCompleted" /\ Post(m)
  <2>1. ASSUME NEW c \in AllCalls, BeginCall(c) \/ StepCall(c)
        PROVE  <1>2!1 \/ <1>2!2
    <3>1. /\ c \in Callers => Request("EnsureLatestBundleOutput", c) \in Msgs
          /\ c \in Waiters => Request("GetState", c) \in Msgs
          /\ Request("EnsureLatestBundleOutput", c).type # "BundleCompleted"
          /\ Request("GetState", c).type # "BundleCompleted"
      BY DEF Request, Msgs
    <3> QED BY <2>1, <3>1 DEF BeginCall, StepCall, SendEnsure, SendGetState,
                              ReplyDropped, Resume
  <2>2. ASSUME NEW p \in Proxies, RequestLazy(p) \/ CompileLazyEntry(p)
        PROVE  <1>2!1 \/ <1>2!2
    <3>1. CASE RequestLazy(p)
      BY <3>1 DEF RequestLazy
    <3>2. CASE CompileLazyEntry(p)
      <4>1. watch_files' \subseteq Files
        BY <3>2, CompileLazyEntryType DEF TypeOK
      <4>2. /\ ModuleChanged(p, watch_files') \in Msgs
            /\ ModuleChanged(p, watch_files').type # "BundleCompleted"
        BY <4>1 DEF ModuleChanged, Msgs
      <4>3. UNCHANGED mailbox \/ Post(ModuleChanged(p, watch_files'))
        BY <3>2 DEF CompileLazyEntry
      <4> QED BY <4>2, <4>3
    <3> QED BY <2>2, <3>1, <3>2
  <2>3. ASSUME TriggerFullBuild \/ CallClose \/ CloseSteps
        PROVE  <1>2!1 \/ <1>2!2
    <3>1. /\ Signal("TriggerFullBuild") \in Msgs /\ Signal("Close") \in Msgs
          /\ Signal("TriggerFullBuild").type # "BundleCompleted"
          /\ Signal("Close").type # "BundleCompleted"
      BY DEF Signal, Msgs
    <3> QED BY <2>3, <3>1 DEF TriggerFullBuild, CallClose, CloseSteps, CloseLocksBundler,
                              CloseReleasesBundler, CloseReturns
  <2>4. ASSUME NEW f \in Files, Edit(f)
        PROVE  <1>2!1 \/ <1>2!2
    <3>1. WatchEvent({f}) \in Msgs /\ WatchEvent({f}).type # "BundleCompleted"
      BY DEF WatchEvent, Msgs
    <3> QED BY <2>4, <3>1 DEF Edit
  <2> QED BY <2>1, <2>2, <2>3, <2>4
<1> QED BY <1>1, <1>2, QuietStepKeepsBuildInv

\* No step of the engine breaks the invariant.
LEMMA NextBuildInv == TypeOK /\ BuildInv /\ [Next]_vars => BuildInv'
<1> SUFFICES ASSUME TypeOK, BuildInv, [Next]_vars PROVE BuildInv'
  OBVIOUS
<1>1. CASE Start \/ Handle \/ Terminate \/ RunTask
  BY <1>1, StartKeepsBuildInv, HandleKeepsBuildInv, LeaveKeepsBuildInv, TaskKeepsBuildInv
<1>2. CASE \/ \E c \in AllCalls : StepCall(c)
           \/ \E p \in Proxies : CompileLazyEntry(p)
           \/ CloseSteps
           \/ Environment
  BY <1>2, EngineKeepsBuildInv DEF Environment
<1>3. CASE UNCHANGED vars
  BY <1>3, QuietStepKeepsBuildInv DEF vars, coordVars, taskVars
<1> QED BY <1>1, <1>2, <1>3 DEF Next

\* Builds never overlap and each is accounted for by its future and by exactly
\* one BundleCompleted, for any files, callers, failures and edits: the unwrap()s
\* of current_bundling_future in bundle_coordinator.rs cannot panic and the
\* "unexpected state" arm of handle_bundle_completed is dead.
THEOREM BuildsSerialized == Spec => []BuildsAccountedFor
<1>1. BuildInv => BuildsAccountedFor
  BY DEF BuildInv
<1> QED BY <1>1, InitType, NextType, InitBuildInv, NextBuildInv, PTL DEF Spec

\* A task that has to report finds the coordinator listening, also when the
\* engine is closed during the build: the expect() in BundlingTask::run cannot
\* panic.
THEOREM CompletionReceived == Spec => []ReportIsHeard
<1>1. TypeOK /\ BuildInv => ReportIsHeard
  BY DEF TypeOK, BuildInv, ReportIsHeard
<1> QED BY <1>1, InitType, NextType, InitBuildInv, NextBuildInv, PTL DEF Spec

-----------------------------------------------------------------------------
(* Reloads come before patches. *)

\* Scheduling leaves the task alone or starts a new one.
LEMMA ScheduledTask ==
  ASSUME NEW st, NEW stage, NEW q, NEW fut, schedule_build_if_stale(st, stage, q, fut)
  PROVE  UNCHANGED taskVars \/ task'.pc = "hooks"
BY DEF schedule_build_if_stale, StartNothing, StartTask, NewTask, NoTask

\* ReloadBeforePatch is kept because an update that is lost is marked as lost:
\* the flag the reload decision reads is up whenever the graph is ahead of every
\* client.
LostIsMarked == unsent => lost_hmr_update
ReloadInv == ReloadBeforePatch /\ LostIsMarked

\* The coordinator never moves a task on.
LEMMA HandlersAndReload ==
  ASSUME ReloadInv, Start \/ Handle \/ Terminate
  PROVE  ReloadInv'
<1>1. UNCHANGED <<lost_hmr_update, unsent>>
  BY DEF Start, Handle, HandleWatchEvent, HandleBundleCompleted, HandleModuleChanged,
         HandleTriggerFullBuild, HandleEnsureLatestBundleOutput, HandleGetState,
         HandleClose, LeaveLoop, Terminate, graphVars
<1>2. UNCHANGED taskVars \/ task'.pc = "hooks"
  <2>1. ASSUME NEW st, NEW stage, NEW fs, NEW sh, NEW fut,
               handle_file_changes(st, stage, fs, sh, fut)
        PROVE  UNCHANGED taskVars \/ task'.pc = "hooks"
    BY <2>1, ScheduledTask DEF handle_file_changes, StartNothing
  <2>2. CASE Start
    BY <2>2, ScheduledTask DEF Start
  <2>3. CASE HandleWatchEvent
    BY <2>1, <2>3 DEF HandleWatchEvent
  <2>4. CASE HandleBundleCompleted
    BY <2>1, <2>4, ScheduledTask
       DEF HandleBundleCompleted, CompleteFullBuild, CompleteIncremental, StartNothing
  <2>5. CASE HandleModuleChanged
    BY <2>5, ScheduledTask DEF HandleModuleChanged
  <2>6. CASE HandleTriggerFullBuild
    BY <2>6, ScheduledTask DEF HandleTriggerFullBuild
  <2>7. CASE HandleEnsureLatestBundleOutput
    BY <2>7, ScheduledTask DEF HandleEnsureLatestBundleOutput, StartNothing
  <2>8. CASE HandleGetState \/ HandleClose \/ Terminate
    BY <2>8 DEF HandleGetState, HandleClose, LeaveLoop, Terminate
  <2> QED BY <2>2, <2>3, <2>4, <2>5, <2>6, <2>7, <2>8 DEF Handle
<1>3. CASE UNCHANGED taskVars
  BY <1>1, <1>3 DEF ReloadInv, ReloadBeforePatch, LostIsMarked, taskVars
<1>4. CASE task'.pc = "hooks"
  BY <1>1, <1>4 DEF ReloadInv, ReloadBeforePatch, LostIsMarked
<1> QED BY <1>2, <1>3, <1>4

\* run_inner takes the reload decision before its HMR stage and keeps the input,
\* and an update can be lost only by the task that is running.
LEMMA TaskAndReload ==
  ASSUME TypeOK, ReloadInv, RunTask
  PROVE  ReloadInv'
<1>0. task \in Tasks /\ running > 0 /\ task.input \in TaskInputs
  BY DEF TypeOK, Tasks, RunTask, RunWatchChange, DecideReload, GenerateHmrUpdates,
         RunRebuild, ReportCompletion, TaskEnds, TaskAt
<1>1. CASE RunWatchChange
  <2>1. /\ task'.pc \in {"reload", "report"}
        /\ UNCHANGED <<lost_hmr_update, unsent>>
    BY <1>0, <1>1 DEF RunWatchChange, Tasks, graphVars
  <2> QED BY <2>1 DEF ReloadInv, ReloadBeforePatch, LostIsMarked
<1>2. CASE DecideReload
  <2>1. UNCHANGED <<lost_hmr_update, unsent>>
    BY <1>2 DEF DecideReload, graphVars
  <2>2. CASE MustReload(task.input)
    <3>1. task'.pc = "rebuild" /\ task'.input = FullBuild
      BY <1>0, <1>2, <2>2 DEF DecideReload, AfterReload, FullBuild, Tasks,
           require_generate_hmr_update, requires_rebuild
    <3> QED BY <2>1, <3>1 DEF ReloadInv, ReloadBeforePatch, LostIsMarked, FullBuild
  <2>3. CASE ~MustReload(task.input)
    <3>1. task'.input = task.input
      BY <1>0, <1>2, <2>3 DEF DecideReload, Tasks
    <3> QED BY <2>1, <2>3, <3>1 DEF ReloadInv, ReloadBeforePatch, LostIsMarked, MustReload
  <2> QED BY <2>2, <2>3
<1>3. CASE GenerateHmrUpdates
  <2>1. /\ changed_files(task.input) \cap Tsconfigs = {}
        /\ unsent => task.hmr_errored
    BY <1>0, <1>3 DEF GenerateHmrUpdates, TaskAt, ReloadInv, ReloadBeforePatch
  <2>2. \/ HmrFailed
        \/ /\ task' = [task EXCEPT !.pc = AfterHmr(task.input)]
           /\ UNCHANGED unsent
    BY <1>3 DEF GenerateHmrUpdates
  <2>3. /\ task'.input = task.input
        /\ task'.hmr_errored \/ (task'.hmr_errored = task.hmr_errored
                                   /\ UNCHANGED unsent)
    BY <1>0, <2>2 DEF HmrFailed, Tasks
  <2>4. \/ UNCHANGED <<lost_hmr_update, unsent>>
        \/ lost_hmr_update'
    BY <1>3 DEF GenerateHmrUpdates
  <2> QED BY <2>1, <2>3, <2>4 DEF ReloadInv, ReloadBeforePatch, LostIsMarked
<1>4. CASE RunRebuild
  <2>1. task'.pc = "report"
    BY <1>0, <1>4 DEF RunRebuild, FullScanBuild, PartialScanBuild, Rebuilt, Tasks
  <2>2. \/ UNCHANGED <<lost_hmr_update, unsent>>
        \/ ~unsent'
    BY <1>4 DEF RunRebuild, FullScanBuild, PartialScanBuild
  <2> QED BY <2>1, <2>2 DEF ReloadInv, ReloadBeforePatch, LostIsMarked
<1>5. CASE ReportCompletion
  <2>1. task'.pc = "none" /\ UNCHANGED <<lost_hmr_update, unsent>>
    BY <1>5 DEF ReportCompletion, TaskEnds, NoTask, graphVars
  <2> QED BY <2>1 DEF ReloadInv, ReloadBeforePatch, LostIsMarked
<1> QED BY <1>1, <1>2, <1>3, <1>4, <1>5 DEF RunTask

\* No step of the engine patches ahead of a due reload.
LEMMA NextReload ==
  TypeOK /\ ReloadInv /\ [Next]_vars => ReloadInv'
<1> SUFFICES ASSUME TypeOK, ReloadInv, [Next]_vars PROVE ReloadInv'
  OBVIOUS
<1>1. CASE Start \/ Handle \/ Terminate
  BY <1>1, HandlersAndReload
<1>2. CASE RunTask
  BY <1>2, TaskAndReload
<1>3. CASE \/ \E c \in AllCalls : StepCall(c)
           \/ \E p \in Proxies : CompileLazyEntry(p)
           \/ CloseSteps
           \/ Environment
           \/ UNCHANGED vars
  <2>1. UNCHANGED <<taskVars, lost_hmr_update, unsent>>
    BY <1>3 DEF StepCall, SendEnsure, SendGetState, ReplyDropped, Resume,
         CompileLazyEntry, CloseSteps, CloseLocksBundler, CloseReleasesBundler,
         CloseReturns, Environment, BeginCall, TriggerFullBuild, RequestLazy, CallClose,
         Edit, vars, graphVars
  <2> QED BY <2>1 DEF ReloadInv, ReloadBeforePatch, LostIsMarked, taskVars
<1> QED BY <1>1, <1>2, <1>3 DEF Next

\* A tsconfig change and a lost update always turn into a full build before any
\* patch or partial rebuild runs on top of them (run_inner), whichever task kind
\* carries or follows them.
THEOREM ReloadComesFirst == Spec => []ReloadBeforePatch
<1>1. Init => ReloadInv
  BY DEF Init, ReloadInv, ReloadBeforePatch, LostIsMarked, NoTask
<1>2. ReloadInv => ReloadBeforePatch
  BY DEF ReloadInv
<1> QED BY <1>1, <1>2, InitType, NextType, NextReload, PTL DEF Spec
=============================================================================
