---------------------------- MODULE FreshnessProofs ----------------------------
(***************************************************************************)
(* What the dev engine calls fresh is fresh: the theorems about            *)
(* BundleCoordinator.tla that follow an edit from the watcher over the     *)
(* mailbox, the stash, the task queue and the scan cache to the output,    *)
(* and a caller of ensure_latest_bundle_output from its first request over *)
(* the builds it waits for to its answer.                                  *)
(***************************************************************************)
EXTENDS BuildResultProofs

-----------------------------------------------------------------------------
(* The files the engine has come across. *)

\* f is in the graph, watched, or in a list on its way to the watcher.
Known(f) ==
  \/ f \in loaded \cup watched \cup watch_files \cup task.hmr_stage_watch_files
  \/ \E m \in OfType(Sent(mailbox), "ModuleChanged") : f \in m.watch_files
  \/ \E m \in OfType(Sent(mailbox), "BundleCompleted") : f \in m.hmr_stage_watch_files

\* The next scan loads f, because it rescans a fetched proxy of f.
Reopened(f) ==
  f \notin loaded /\ \E p \in pending_rescans \cap fetched : Target[p] = f

\* A full scan reads what the engine knows, a file a partial scan is to retry is
\* in the graph, and a file that is known but not in the graph of a snapshot
\* comes with the next scan.
GraphInv ==
  /\ \A f : Known(f) =>
       f \in Reachable /\ (has_snapshot => f \in loaded \/ Reopened(f))
  /\ pending_rescans \cap Files \subseteq loaded
  /\ unscanned \subseteq loaded \cup watched
  /\ unscanned \ unreported \subseteq watched

\* Nothing is known at first.
LEMMA InitGraphInv == Init => GraphInv
<1> SUFFICES ASSUME Init PROVE GraphInv
  OBVIOUS
<1>1. Sent(mailbox) = {} /\ task.hmr_stage_watch_files = {}
  BY EmptySeq DEF Init, Sent, NoTask
<1>2. \A f : ~Known(f)
  BY <1>1 DEF Init, Known, OfType
<1> QED BY <1>2 DEF Init, GraphInv

\* A full scan reaches the files of the graph and the routes that are open.
LEMMA OpenedReachable == Opened \cap Files \subseteq Reachable
BY DEF Reachable

\* The graph and the routes that are open only grow, and with them what a full
\* scan reaches.
LEMMA ReachableGrows ==
  ASSUME loaded \subseteq loaded', fetched \subseteq fetched'
  PROVE  Reachable \subseteq Reachable'
<1>1. Opened \subseteq Opened'
  BY DEF Opened
<1> QED BY <1>1 DEF Reachable

\* A step may make known what it loads or reopens.
LEMMA KnownStep ==
  ASSUME TypeOK, TypeOK', GraphInv,
         loaded \subseteq loaded', fetched \subseteq fetched', has_snapshot' => has_snapshot,
         \A f : Reopened(f) => f \in loaded' \/ Reopened(f)',
         \A f : Known(f)' => Known(f) \/ f \in loaded' \/ Reopened(f)'
  PROVE  \A f : Known(f)' =>
           f \in Reachable' /\ (has_snapshot' => f \in loaded' \/ Reopened(f)')
<1> SUFFICES ASSUME NEW f, Known(f)'
             PROVE  f \in Reachable' /\ (has_snapshot' => f \in loaded' \/ Reopened(f)')
  OBVIOUS
<1>1. CASE Known(f)
  <2>1. f \in Reachable /\ (has_snapshot => f \in loaded \/ Reopened(f))
    BY <1>1 DEF GraphInv
  <2> QED BY <2>1, ReachableGrows
<1>2. CASE f \in loaded' \/ Reopened(f)'
  <2>1. f \in Files
    <3>1. CASE f \in loaded'
      BY <3>1 DEF TypeOK
    <3>2. CASE Reopened(f)'
      BY <3>2, ConstantsAssumption DEF TypeOK, Reopened
    <3> QED BY <1>2, <3>1, <3>2
  <2>2. f \in Opened'
    BY <1>2 DEF Opened, Reopened
  <2>3. f \in Reachable'
    BY <2>1, <2>2 DEF Reachable
  <2> QED BY <1>2, <2>3
<1> QED BY <1>1, <1>2

\* The graph stays as it is, and nothing new is known.
GraphQuiet ==
  /\ UNCHANGED graphVars
  /\ \A f : Known(f)' => Known(f)
  /\ watched \subseteq watched'

\* Such a step keeps the invariant if it keeps the files.
LEMMA QuietKeepsGraphInv ==
  ASSUME TypeOK, TypeOK', GraphInv, GraphQuiet, UNCHANGED fileVars
  PROVE  GraphInv'
<1>1. /\ UNCHANGED <<loaded, fetched, has_snapshot, pending_rescans>>
      /\ UNCHANGED <<unscanned, unreported>>
  BY DEF GraphQuiet, graphVars, fileVars
<1>2. \A f : Reopened(f)' <=> Reopened(f)
  BY <1>1 DEF Reopened
<1>3. \A f : Known(f)' => f \in Reachable' /\ (has_snapshot' => f \in loaded' \/ Reopened(f)')
  BY <1>1, <1>2, KnownStep DEF GraphQuiet
<1> QED BY <1>1, <1>3 DEF GraphInv, GraphQuiet

\* The coordinator's steps are of this kind: they move lists to the watcher.
LEMMA HandlerGraphQuiet ==
  ASSUME BaseInv,
         \/ Start
         \/ \E kind \in PlainKinds : PlainHandling(kind)
         \/ HandleBundleCompleted
         \/ HandleClose \/ Terminate
  PROVE  GraphQuiet /\ UNCHANGED fileVars
<1> USE DEF BaseInv
<1>0. ASSUME TaskStarted PROVE task'.hmr_stage_watch_files = {}
  BY <1>0 DEF TaskStarted, NewTask, NoTask
<1>1. CASE Start
  <2>1. /\ TaskStarted /\ mailbox' = mailbox
        /\ UNCHANGED <<watched, graphVars, fileVars>>
    BY <1>1, StartOutcome
  <2> QED BY <1>0, <2>1 DEF GraphQuiet, Known, graphVars
<1>2. CASE \E kind \in PlainKinds : PlainHandling(kind)
  <2>1. PICK kind \in PlainKinds : PlainHandling(kind)
    BY <1>2
  <2>2. UNCHANGED graphVars /\ UNCHANGED fileVars
    BY <2>1 DEF PlainHandling
  <2>3. task'.hmr_stage_watch_files \in {{}, task.hmr_stage_watch_files}
    BY <1>0, <2>1 DEF PlainHandling, Outcome, taskVars
  <2>4. /\ watched \subseteq watched'
        /\ \A f \in watched' : Known(f)
        /\ Sent(mailbox') \subseteq Sent(mailbox)
    BY <2>1, ReceivedSent DEF PlainHandling, Known, OfType
  <2> QED BY <2>2, <2>3, <2>4 DEF GraphQuiet, Known, OfType, graphVars
<1>3. CASE HandleBundleCompleted
  <2>1. /\ UNCHANGED graphVars /\ UNCHANGED fileVars
        /\ watched' = watched \cup watch_files \cup Head(mailbox).hmr_stage_watch_files
    BY <1>3, CompletionOutcome
  <2>2. task'.hmr_stage_watch_files \in {{}, task.hmr_stage_watch_files}
    BY <1>0, <1>3, CompletionOutcome DEF Outcome, taskVars
  <2>3. Sent(mailbox') \subseteq Sent(mailbox)
    BY <1>3, ReceivedSent DEF HandleBundleCompleted
  <2>4. \A f \in watched' : Known(f)
    BY <1>3, <2>1, CompletionHandled DEF Known
  <2> QED BY <2>1, <2>2, <2>3, <2>4 DEF GraphQuiet, Known, OfType, graphVars
<1>4. CASE HandleClose \/ Terminate
  <2>1. UNCHANGED <<watched, taskVars, graphVars, fileVars>>
    BY <1>4 DEF HandleClose, LeaveLoop, Terminate
  <2>2. Sent(mailbox') \subseteq Sent(mailbox)
    <3>1. Sent(<<>>) = {}
      BY EmptySeq DEF Sent
    <3>2. mailbox' = <<>> \/ (mailbox # <<>> /\ mailbox' = Tail(mailbox))
      BY <1>4 DEF HandleClose, LeaveLoop, Terminate
    <3> QED BY <3>1, <3>2, SentTail DEF TypeOK
  <2> QED BY <2>1, <2>2 DEF GraphQuiet, Known, OfType, graphVars, taskVars
<1> QED BY <1>1, <1>2, <1>3, <1>4

\* So are the hooks, the reload decision, the report and the bystanders.
LEMMA OthersGraphQuiet ==
  ASSUME BaseInv, RunWatchChange \/ DecideReload \/ ReportCompletion \/ Bystander
  PROVE  GraphQuiet
<1> USE DEF BaseInv
<1>0. task \in Tasks
  BY DEF TypeOK
<1>1. CASE RunWatchChange \/ DecideReload
  <2>1. /\ UNCHANGED <<watched, mailbox, graphVars>>
        /\ task'.hmr_stage_watch_files = task.hmr_stage_watch_files
    BY <1>0, <1>1 DEF RunWatchChange, DecideReload, taskFrame, Tasks
  <2> QED BY <2>1 DEF GraphQuiet, Known, graphVars
<1>2. CASE ReportCompletion
  <2> DEFINE m == BundleCompleted(final_error_stage(task), task.has_rebuild_happen,
                                  task.hmr_stage_watch_files)
  <2>1. /\ UNCHANGED <<watched, graphVars>> /\ Post(m)
        /\ task'.hmr_stage_watch_files = {}
    BY <1>2 DEF ReportCompletion, TaskEnds, taskFrame, NoTask
  <2>2. m \in Msgs /\ m.type = "BundleCompleted"
        /\ m.hmr_stage_watch_files = task.hmr_stage_watch_files
    BY DEF TypeOK, Tasks, Msgs, BundleCompleted, final_error_stage, Stages
  <2> HIDE DEF m
  <2>3. /\ OfType(Sent(mailbox'), "ModuleChanged") = OfType(Sent(mailbox), "ModuleChanged")
        /\ OfType(Sent(mailbox'), "BundleCompleted")
             \subseteq OfType(Sent(mailbox), "BundleCompleted") \cup {m}
    BY <2>1, <2>2, PostedSent DEF OfType
  <2> QED BY <2>1, <2>2, <2>3 DEF GraphQuiet, Known, graphVars
<1>3. CASE Bystander
  BY <1>3, BystanderSent DEF Bystander, GraphQuiet, Known, graphVars, taskVars
<1> QED BY <1>1, <1>2, <1>3

\* What a partial scan reads of the files is in the graph already.
LEMMA PartialScanKnown ==
  ASSUME TypeOK, GraphInv
  PROVE  /\ PartialScanSet(task.input) \cap Files \subseteq loaded
         /\ pending_rescans \subseteq PartialScanSet(task.input)
BY ConstantsAssumption DEF PartialScanSet, GraphInv, TypeOK

\* A scan that rescans the fetched proxies of f loads f.
LEMMA ReopenedIsLoaded ==
  ASSUME NEW S, NEW G \in PulledIn(S), pending_rescans \subseteq S, NEW f, Reopened(f)
  PROVE  f \in G
BY DEF PulledIn, Reopened

\* Scanning S and the new files G keeps the files accounted for.
LEMMA MergeScanFiles ==
  ASSUME GraphInv, NEW S, NEW G, MergeScan(S, G), watched \subseteq watched'
  PROVE  /\ loaded \subseteq loaded'
         /\ unscanned' \subseteq loaded' \cup watched'
         /\ unscanned' \ unreported' \subseteq watched'
BY DEF GraphInv, MergeScan

\* compute_hmr_update_for_file_changes keeps the invariant.
LEMMA HmrKeepsGraphInv ==
  ASSUME TypeOK, TypeOK', GraphInv, GenerateHmrUpdates
  PROVE  GraphInv'
<1> DEFINE S == IF has_snapshot THEN PartialScanSet(task.input) ELSE {}
<1>0. /\ UNCHANGED <<watched, mailbox, has_snapshot, fetched>>
      /\ task'.hmr_stage_watch_files = task.hmr_stage_watch_files
  BY DEF GenerateHmrUpdates, taskFrame, HmrFailed, TypeOK, Tasks
<1>1. S \cap Files \subseteq loaded /\ (S # {} => pending_rescans \subseteq S /\ has_snapshot)
  BY PartialScanKnown
<1> HIDE DEF S
<1>2. CASE ScanFailed /\ UNCHANGED <<pending_rescans, watch_files>>
  <2>1. \A f : (Known(f)' => Known(f)) /\ (Reopened(f) <=> Reopened(f)')
    BY <1>0, <1>2 DEF Known, Reopened, ScanFailed
  <2>2. UNCHANGED <<loaded, unscanned, unreported>>
    BY <1>2 DEF ScanFailed
  <2>3. \A f : Known(f)' => f \in Reachable' /\ (has_snapshot' => f \in loaded' \/ Reopened(f)')
    BY <1>0, <2>1, <2>2, KnownStep
  <2> QED BY <1>0, <1>2, <2>2, <2>3 DEF GraphInv
<1>3. CASE /\ S # {} /\ ScanFailed /\ RequeueRescans(S)
           /\ watch_files' = watch_files \cup (S \cap Files)
  <2>1. /\ UNCHANGED <<loaded, unscanned, unreported>>
        /\ pending_rescans' = S
    BY <1>3 DEF ScanFailed, RequeueRescans
  <2>2. \A f : Reopened(f) => Reopened(f)'
    BY <1>0, <1>1, <1>3, <2>1 DEF Reopened
  <2>3. \A f : Known(f)' => Known(f)
    BY <1>0, <1>1, <1>3, <2>1 DEF Known
  <2>4. \A f : Known(f)' => f \in Reachable' /\ (has_snapshot' => f \in loaded' \/ Reopened(f)')
    BY <1>0, <2>1, <2>2, <2>3, KnownStep
  <2> QED BY <1>0, <1>1, <2>1, <2>4 DEF GraphInv
<1>4. ASSUME NEW G \in PulledIn(S), S # {}, MergeScan(S, G), pending_rescans' = {},
             watch_files' = watch_files \cup (S \cap Files) \cup G
      PROVE  GraphInv'
  <2>1. loaded' = loaded \cup G
    BY <1>4 DEF MergeScan
  <2>2. \A f : Reopened(f) => f \in loaded'
    BY <1>1, <1>4, <2>1, ReopenedIsLoaded
  <2>3. \A f : Known(f)' => Known(f) \/ f \in loaded'
    BY <1>0, <1>1, <1>4, <2>1 DEF Known
  <2>4. \A f : Known(f)' => f \in Reachable' /\ (has_snapshot' => f \in loaded' \/ Reopened(f)')
    BY <1>0, <2>1, <2>2, <2>3, KnownStep
  <2> QED BY <1>0, <1>4, <2>4, MergeScanFiles DEF GraphInv
<1> QED BY <1>2, <1>3, <1>4 DEF GenerateHmrUpdates, S

\* So does a rebuild, full or partial, successful or not.
LEMMA RebuildKeepsGraphInv ==
  ASSUME TypeOK, TypeOK', GraphInv, RunRebuild
  PROVE  GraphInv'
<1> DEFINE S == PartialScanSet(task.input)
<1>0. /\ UNCHANGED <<watched, mailbox, fetched>>
      /\ task'.hmr_stage_watch_files \in {watch_files, {}}
  <2>1. \E failed \in BOOLEAN : Rebuilt(failed)
    BY DEF RunRebuild, FullScanBuild, PartialScanBuild
  <2> QED BY <2>1 DEF RunRebuild, taskFrame, Rebuilt, TypeOK, Tasks
<1>1. S \cap Files \subseteq loaded /\ pending_rescans \subseteq S
  BY PartialScanKnown
<1> HIDE DEF S
<1>2. ASSUME ScanFailed, has_snapshot' = FALSE, pending_rescans' = {},
             NEW read \in SUBSET Reachable, watch_files' = read
      PROVE  GraphInv'
  <2>1. UNCHANGED <<loaded, unscanned, unreported>>
    BY <1>2 DEF ScanFailed
  <2>2. \A f : Known(f)' => Known(f) \/ f \in Reachable
    BY <1>0, <1>2, <2>1 DEF Known
  <2>3. \A f : Known(f)' => f \in Reachable'
    BY <1>0, <2>1, <2>2, ReachableGrows DEF GraphInv
  <2> QED BY <1>0, <1>2, <2>1, <2>3 DEF GraphInv
<1>3. ASSUME NEW G \in PulledIn(Files), MergeScan(Reachable, Reachable \cup G),
             watch_files' = Reachable \cup G, pending_rescans' = {}
      PROVE  GraphInv'
  <2>1. loaded' = loaded \cup Reachable \cup G
    BY <1>3 DEF MergeScan
  <2>2. \A f : Known(f)' => f \in loaded'
    BY <1>0, <1>3, <2>1 DEF Known, GraphInv
  <2>3. \A f \in loaded' : f \in Reachable'
    BY OpenedReachable DEF TypeOK, Opened, Reachable
  <2> QED BY <1>0, <1>3, <2>2, <2>3, MergeScanFiles DEF GraphInv
<1>4. CASE ScanFailed /\ watch_files' = {} /\ UNCHANGED <<pending_rescans, has_snapshot>>
  <2>1. \A f : (Known(f)' => Known(f)) /\ (Reopened(f) <=> Reopened(f)')
    BY <1>0, <1>4 DEF Known, Reopened, ScanFailed
  <2>2. UNCHANGED <<loaded, unscanned, unreported>>
    BY <1>4 DEF ScanFailed
  <2>3. \A f : Known(f)' => f \in Reachable' /\ (has_snapshot' => f \in loaded' \/ Reopened(f)')
    BY <1>0, <1>4, <2>1, <2>2, KnownStep
  <2> QED BY <1>0, <1>4, <2>2, <2>3 DEF GraphInv
<1>5. CASE /\ ScanFailed /\ RequeueRescans(S) /\ watch_files' = S \cap Files
           /\ UNCHANGED has_snapshot
  <2>1. /\ UNCHANGED <<loaded, unscanned, unreported>>
        /\ pending_rescans' = S
    BY <1>5 DEF ScanFailed, RequeueRescans
  <2>2. \A f : Reopened(f) => Reopened(f)'
    BY <1>0, <1>1, <2>1 DEF Reopened
  <2>3. \A f : Known(f)' => Known(f)
    BY <1>0, <1>1, <1>5, <2>1 DEF Known
  <2>4. \A f : Known(f)' => f \in Reachable' /\ (has_snapshot' => f \in loaded' \/ Reopened(f)')
    BY <1>0, <1>5, <2>1, <2>2, <2>3, KnownStep
  <2> QED BY <1>0, <1>1, <2>1, <2>4 DEF GraphInv
<1>6. ASSUME NEW G \in PulledIn(S), MergeScan(S, G), pending_rescans' = {},
             watch_files' = (S \cap Files) \cup G, UNCHANGED has_snapshot
      PROVE  GraphInv'
  <2>1. loaded' = loaded \cup G
    BY <1>6 DEF MergeScan
  <2>2. \A f : Reopened(f) => f \in loaded'
    BY <1>1, <1>6, <2>1, ReopenedIsLoaded
  <2>3. \A f : Known(f)' => Known(f) \/ f \in loaded'
    BY <1>0, <1>1, <1>6, <2>1 DEF Known
  <2>4. \A f : Known(f)' => f \in Reachable' /\ (has_snapshot' => f \in loaded' \/ Reopened(f)')
    BY <1>0, <1>6, <2>1, <2>2, <2>3, KnownStep
  <2> QED BY <1>0, <1>6, <2>4, MergeScanFiles DEF GraphInv
<1>7. CASE FullScanBuild /\ pending_rescans' = {}
  BY <1>2, <1>3, <1>7 DEF FullScanBuild
<1>8. CASE PartialScanBuild
  BY <1>4, <1>5, <1>6, <1>8 DEF PartialScanBuild, S
<1> QED BY <1>7, <1>8 DEF RunRebuild

\* So does a lazy compile.
LEMMA LazyKeepsGraphInv ==
  ASSUME TypeOK, TypeOK', GraphInv, NEW p \in Proxies, CompileLazyEntry(p)
  PROVE  GraphInv'
<1> DEFINE S == {p} \cup pending_rescans
<1>0. /\ UNCHANGED <<watched, task, has_snapshot>>
      /\ fetched' = fetched \cup {p} /\ p \in fetched'
  BY DEF CompileLazyEntry, taskVars
<1>1. S \cap Files \subseteq loaded /\ pending_rescans \subseteq S /\ p \in S
  BY ConstantsAssumption DEF GraphInv
<1> HIDE DEF S
<1>2. CASE ScanFailed /\ UNCHANGED <<mailbox, pending_rescans, watch_files>>
  <2>1. \A f : (Known(f)' => Known(f)) /\ (Reopened(f) => Reopened(f)')
    BY <1>0, <1>2 DEF Known, Reopened, ScanFailed
  <2>2. UNCHANGED <<loaded, unscanned, unreported>>
    BY <1>2 DEF ScanFailed
  <2>3. \A f : Known(f)' => f \in Reachable' /\ (has_snapshot' => f \in loaded' \/ Reopened(f)')
    BY <1>0, <2>1, <2>2, KnownStep
  <2> QED BY <1>0, <1>2, <2>2, <2>3 DEF GraphInv
<1>3. CASE /\ ScanFailed /\ RequeueRescans(S) /\ UNCHANGED mailbox
           /\ watch_files' = watch_files \cup (S \cap Files) \cup {Target[p]}
  <2>1. /\ UNCHANGED <<loaded, unscanned, unreported>>
        /\ pending_rescans' = S
    BY <1>3 DEF ScanFailed, RequeueRescans
  <2>2. \A f : Reopened(f) => Reopened(f)'
    BY <1>0, <1>1, <2>1 DEF Reopened
  <2>3. \A f : Known(f)' => Known(f) \/ f \in loaded' \/ Reopened(f)'
    <3>1. Target[p] \in loaded' \/ Reopened(Target[p])'
      BY <1>0, <1>1, <2>1 DEF Reopened
    <3> QED BY <1>0, <1>1, <1>3, <2>1, <3>1 DEF Known
  <2>4. \A f : Known(f)' => f \in Reachable' /\ (has_snapshot' => f \in loaded' \/ Reopened(f)')
    BY <1>0, <2>1, <2>2, <2>3, KnownStep
  <2> QED BY <1>0, <1>1, <2>1, <2>4 DEF GraphInv
<1>4. ASSUME NEW new \in PulledIn(S), NEW G, G = new \cup ({Target[p]} \ loaded),
             MergeScan(S, G), pending_rescans' = {},
             watch_files' = watch_files \cup (S \cap Files) \cup G,
             UNCHANGED mailbox \/ Post(ModuleChanged(p, watch_files'))
      PROVE  GraphInv'
  <2>1. loaded' = loaded \cup G
    BY <1>4 DEF MergeScan
  <2>2. \A f : Reopened(f) => f \in loaded'
    BY <1>1, <1>4, <2>1, ReopenedIsLoaded
  <2>3. \A f : Known(f)' => Known(f) \/ f \in loaded'
    <3> DEFINE m == ModuleChanged(p, watch_files')
    <3>1. m \in Msgs /\ m.type = "ModuleChanged" /\ m.watch_files = watch_files'
      BY DEF TypeOK, ModuleChanged, Msgs
    <3> HIDE DEF m
    <3>2. /\ OfType(Sent(mailbox'), "ModuleChanged")
               \subseteq OfType(Sent(mailbox), "ModuleChanged") \cup {m}
          /\ OfType(Sent(mailbox'), "BundleCompleted") = OfType(Sent(mailbox), "BundleCompleted")
      <4>1. CASE UNCHANGED mailbox
        BY <4>1
      <4>2. CASE Post(m)
        BY <3>1, <4>2, PostedSent DEF OfType
      <4> QED BY <1>4, <4>1, <4>2 DEF m
    <3>3. \A f \in watch_files' : Known(f) \/ f \in loaded'
      BY <1>1, <1>4, <2>1 DEF Known
    <3> QED BY <1>0, <2>1, <3>1, <3>2, <3>3 DEF Known
  <2>4. \A f : Known(f)' => f \in Reachable' /\ (has_snapshot' => f \in loaded' \/ Reopened(f)')
    BY <1>0, <2>1, <2>2, <2>3, KnownStep
  <2> QED BY <1>0, <1>4, <2>4, MergeScanFiles DEF GraphInv
<1> QED BY <1>2, <1>3, <1>4 DEF CompileLazyEntry, S

\* So does an edit: a file that is not watched goes unreported.
LEMMA EditKeepsGraphInv ==
  ASSUME BaseInv, TypeOK', GraphInv, NEW e \in Files, Edit(e)
  PROVE  GraphInv'
<1> USE DEF BaseInv
<1>1. GraphQuiet
  BY Bystanders, OthersGraphQuiet
<1>2. UNCHANGED <<loaded, watched, fetched, has_snapshot, pending_rescans>>
  BY DEF Edit, graphVars
<1>3. \A f : Reopened(f)' <=> Reopened(f)
  BY <1>2 DEF Reopened
<1>4. \A f : Known(f)' => f \in Reachable' /\ (has_snapshot' => f \in loaded' \/ Reopened(f)')
  BY <1>1, <1>2, <1>3, KnownStep DEF GraphQuiet
<1>5. /\ unscanned' \subseteq loaded' \cup watched'
      /\ unscanned' \ unreported' \subseteq watched'
  BY <1>2 DEF Edit, GraphInv
<1> QED BY <1>2, <1>4, <1>5 DEF GraphInv

\* Apart from Edit, a bystander leaves the files alone.
Spectator == Bystander /\ UNCHANGED fileVars

\* The other calls and close() are spectators.
LEMMA SpectatorSteps ==
  ASSUME TypeOK,
         \/ \E c \in AllCalls : BeginCall(c) \/ StepCall(c)
         \/ \E p \in Proxies : RequestLazy(p)
         \/ TriggerFullBuild \/ CallClose \/ CloseSteps
         \/ UNCHANGED vars
  PROVE  Spectator
<1>1. Bystander
  BY Bystanders
<1>2. UNCHANGED fileVars
  BY DEF BeginCall, StepCall, SendEnsure, SendGetState, ReplyDropped, Resume,
         RequestLazy, TriggerFullBuild, CallClose, CloseSteps, CloseLocksBundler,
         CloseReleasesBundler, CloseReturns, vars
<1> QED BY <1>1, <1>2 DEF Spectator

\* Every step is an arm of the run loop, a step of the task, a lazy compile, an
\* edit, or one that only watches.
LEMMA StepsAndEdits ==
  ASSUME TypeOK, [Next]_vars
  PROVE  \/ Start \/ Handle \/ Terminate \/ RunTask
         \/ \E p \in Proxies : CompileLazyEntry(p)
         \/ \E f \in Files : Edit(f)
         \/ Spectator
<1>1. CASE \/ \E c \in AllCalls : BeginCall(c) \/ StepCall(c)
           \/ \E p \in Proxies : RequestLazy(p)
           \/ TriggerFullBuild \/ CallClose \/ CloseSteps
           \/ UNCHANGED vars
  BY <1>1, SpectatorSteps
<1> QED BY <1>1 DEF Next, Environment

\* No step of the engine breaks the invariant.
LEMMA NextGraphInv == BaseInv /\ GraphInv /\ [Next]_vars => GraphInv'
<1> SUFFICES ASSUME BaseInv, GraphInv, [Next]_vars PROVE GraphInv'
  OBVIOUS
<1>0. TypeOK /\ TypeOK'
  BY NextType DEF BaseInv
<1>1. CASE \/ Start
           \/ \E kind \in PlainKinds : PlainHandling(kind)
           \/ HandleBundleCompleted
           \/ HandleClose \/ Terminate
  BY <1>0, <1>1, HandlerGraphQuiet, QuietKeepsGraphInv
<1>2. CASE RunWatchChange \/ DecideReload \/ ReportCompletion
  <2>1. UNCHANGED fileVars
    BY <1>2 DEF RunWatchChange, DecideReload, ReportCompletion, TaskEnds
  <2> QED BY <1>0, <1>2, <2>1, OthersGraphQuiet, QuietKeepsGraphInv
<1>3. CASE GenerateHmrUpdates \/ RunRebuild
  BY <1>0, <1>3, HmrKeepsGraphInv, RebuildKeepsGraphInv
<1>4. CASE \E p \in Proxies : CompileLazyEntry(p)
  BY <1>0, <1>4, LazyKeepsGraphInv
<1>5. CASE \E f \in Files : Edit(f)
  BY <1>0, <1>5, EditKeepsGraphInv
<1>6. CASE Spectator
  BY <1>0, <1>6, OthersGraphQuiet, QuietKeepsGraphInv DEF Spectator
<1> QED BY <1>0, <1>1, <1>2, <1>3, <1>4, <1>5, <1>6, StepsAndEdits, PlainHandlers DEF RunTask

-----------------------------------------------------------------------------
(* The task queue. *)

\* A rebuild without an HMR stage is asked for by a lazy route or a page load,
\* never by an edit, so it names no file.
OnlyProxies(t) == t.kind = "Rebuild" => t.files \subseteq Proxies

InputInv ==
  /\ \A t \in Sent(queued_tasks) : OnlyProxies(t)
  /\ OnlyProxies(task.input)

\* What is queued is either in the task that is popped or stays queued, and
\* nothing else is queued then.
LEMMA PoppedOrQueued ==
  ASSUME NEW q \in Seq(TaskInputs), q # <<>>
  PROVE  /\ Sent(RemainingTasks(q)) \subseteq Sent(q)
         /\ \A t \in Sent(q) :
              \/ t \in Sent(RemainingTasks(q))
              \/ MergedTask(q).kind = "FullBuild"
              \/ t.kind # "FullBuild" /\ t.files \subseteq MergedTask(q).files
         /\ (\A t \in Sent(q) : OnlyProxies(t)) => OnlyProxies(MergedTask(q))
<1> DEFINE n == MergedCount(q)
<1>1. /\ DOMAIN q = 1 .. Len(q) /\ Len(q) \in Nat /\ n \in 1 .. Len(q)
      /\ Absorbable(q, n)
  BY MergedCountExists, LenProperties
<1>2. /\ DOMAIN RemainingTasks(q) = 1 .. Len(q) - n
      /\ \A i \in 1 .. Len(q) - n : RemainingTasks(q)[i] = q[n + i]
  <2>1. /\ n + 1 \in 1 .. Len(q) + 1 /\ Len(q) \in n .. Len(q)
    BY <1>1
  <2>2. /\ Len(RemainingTasks(q)) = Len(q) - n
        /\ RemainingTasks(q) \in Seq(TaskInputs)
        /\ \A i \in 1 .. Len(q) - n : RemainingTasks(q)[i] = q[n + i]
    BY <1>1, <2>1, SubSeqProperties DEF RemainingTasks
  <2> QED BY <2>2, LenProperties
<1> HIDE DEF n
<1>3. Sent(RemainingTasks(q)) \subseteq Sent(q)
  <2> SUFFICES ASSUME NEW i \in 1 .. Len(q) - n PROVE q[n + i] \in Sent(q)
    BY <1>2 DEF Sent
  <2>1. n + i \in 1 .. Len(q)
    BY <1>1
  <2> QED BY <1>1, <2>1 DEF Sent
<1>4. ASSUME NEW t \in Sent(q), t \notin Sent(RemainingTasks(q)),
             MergedTask(q).kind # "FullBuild"
      PROVE  t.kind # "FullBuild" /\ t.files \subseteq MergedTask(q).files
  <2>1. PICK i \in 1 .. Len(q) : t = q[i]
    BY <1>1, <1>4 DEF Sent
  <2>2. i \in 1 .. n
    <3> SUFFICES ASSUME i > n PROVE FALSE
      BY <1>1, <2>1
    <3>1. i - n \in 1 .. Len(q) - n /\ n + (i - n) = i
      BY <1>1, <2>1
    <3>2. RemainingTasks(q)[i - n] = t
      BY <1>2, <2>1, <3>1
    <3> QED BY <1>2, <1>4, <3>1, <3>2 DEF Sent
  <2>3. q[1].kind # "FullBuild" /\ q[1] \in TaskInputs /\ q[i] \in TaskInputs
    BY <1>1, <1>4, <2>1 DEF MergedTask, FullBuild
  <2>4. q[i].files \subseteq MergedTask(q).files
    BY <2>2, <2>3 DEF MergedTask, n
  <2>5. q[i].kind # "FullBuild"
    <3>1. i = 1 \/ is_mergeable_with(q[1], q[i])
      BY <1>1, <2>2 DEF Absorbable
    <3> QED BY <2>3, <3>1 DEF is_mergeable_with
  <2> QED BY <2>1, <2>4, <2>5
<1>5. ASSUME \A t \in Sent(q) : OnlyProxies(t), MergedTask(q).kind = "Rebuild"
      PROVE  MergedTask(q).files \subseteq Proxies
  <2>1. 1 \in 1 .. Len(q) /\ q[1] \in TaskInputs
    BY <1>1
  <2>2. /\ q[1].kind # "FullBuild"
        /\ MergedTask(q).files = UNION {q[i].files : i \in 1 .. n}
        /\ MergedTask(q).kind = IF \E i \in 1 .. n : q[i].kind = "HmrRebuild"
                                THEN "HmrRebuild" ELSE q[1].kind
    BY <1>5 DEF MergedTask, FullBuild, n
  <2>3. q[1].kind = "Rebuild"
    BY <1>5, <2>2
  <2>4. ASSUME NEW i \in 1 .. n PROVE q[i].files \subseteq Proxies
    <3>1. q[i] \in Sent(q)
      BY <1>1 DEF Sent
    <3>2. i = 1 \/ is_mergeable_with(q[1], q[i])
      BY <1>1 DEF Absorbable
    <3>3. q[i].kind = "Rebuild"
      BY <2>3, <3>2 DEF is_mergeable_with
    <3> QED BY <1>5, <3>1, <3>3 DEF OnlyProxies
  <2> QED BY <2>2, <2>4
<1> QED BY <1>3, <1>4, <1>5 DEF OnlyProxies

\* The inputs that are queued for scheduling.
LEMMA QueueAppend ==
  ASSUME TypeOK, NEW t \in TaskInputs
  PROVE  /\ Append(queued_tasks, t) \in Seq(TaskInputs)
         /\ Append(queued_tasks, t) # <<>>
         /\ Sent(Append(queued_tasks, t)) = Sent(queued_tasks) \cup {t}
<1>1. queued_tasks \in Seq(TaskInputs)
  BY DEF TypeOK
<1> QED BY <1>1, AppendProperties, SentAppend

\* A queue of one.
LEMMA QueueOfOne ==
  ASSUME NEW t \in TaskInputs
  PROVE  <<t>> \in Seq(TaskInputs) /\ <<t>> # <<>> /\ Sent(<<t>>) = {t}
<1>1. DOMAIN <<t>> = {1} /\ <<t>>[1] = t
  OBVIOUS
<1> QED BY <1>1 DEF Sent

\* f is named by a queued task, or by a full build, which reads every file.
Asked(f, q) == \E t \in Sent(q) : t.kind = "FullBuild" \/ f \in t.files

\* The running task is still going to scan f because of its input.
TaskAsked(f) ==
  /\ running > 0
  /\ \/ task.pc \in {"hooks", "reload", "hmr"} /\ f \in task.input.files
     \/ task.pc \in {"hooks", "reload", "rebuild"} /\ task.input.kind = "FullBuild"

\* schedule_build_if_stale forgets nothing that is queued.
LEMMA ScheduleAsks ==
  ASSUME TypeOK, NEW st, NEW stage, NEW q \in Seq(TaskInputs), NEW fut,
         schedule_build_if_stale(st, stage, q, fut)
  PROVE  /\ \A f : Asked(f, q) => Asked(f, queued_tasks') \/ TaskAsked(f)'
         /\ (\A t \in Sent(q) : OnlyProxies(t)) /\ OnlyProxies(task.input) => InputInv'
         /\ Sent(queued_tasks') \subseteq Sent(q)
         /\ \/ StartNothing(st, stage, q, fut)
            \/ TaskStarted /\ st \notin Building /\ q # <<>>
<1>1. CASE StartNothing(st, stage, q, fut)
  BY <1>1 DEF StartNothing, taskVars, InputInv
<1>2. CASE /\ st \in {"Idle", "FullBuildFailed", "Failed"}
           /\ q # <<>>
           /\ StartTask(q, "None")
  <2>1. /\ task' = NewTask(MergedTask(q)) /\ queued_tasks' = RemainingTasks(q)
        /\ running' = running + 1
        /\ state' = IF requires_full_rebuild(MergedTask(q))
                    THEN "FullBuildInProgress" ELSE "InProgress"
    BY <1>2 DEF StartTask
  <2>2. task'.pc = "hooks" /\ task'.input = MergedTask(q) /\ running' > 0
    BY <2>1 DEF NewTask, NoTask, TypeOK
  <2>3. MergedTask(q) \in TaskInputs
    BY <1>2, MergedTaskType
  <2>4. TaskStarted
    BY <2>1, <2>3 DEF TaskStarted, requires_full_rebuild
  <2>5. st \notin Building
    BY <1>2 DEF Building
  <2>6. ASSUME NEW f, Asked(f, q) PROVE Asked(f, queued_tasks') \/ TaskAsked(f)'
    BY <1>2, <2>1, <2>2, <2>6, PoppedOrQueued DEF Asked, TaskAsked
  <2>7. (\A t \in Sent(q) : OnlyProxies(t)) => InputInv'
    BY <1>2, <2>1, <2>2, PoppedOrQueued DEF InputInv
  <2> QED BY <1>2, <2>1, <2>4, <2>5, <2>6, <2>7, PoppedOrQueued
<1> QED BY <1>1, <1>2 DEF schedule_build_if_stale

\* The tasks the coordinator queues name files only in an HMR stage.
LEMMA QueuedInputs ==
  /\ FullBuild \in TaskInputs /\ OnlyProxies(FullBuild)
  /\ Rebuild({}) \in TaskInputs /\ OnlyProxies(Rebuild({})) /\ requires_rebuild(Rebuild({}))
  /\ \A p \in Proxies :
       /\ Rebuild({p}) \in TaskInputs
       /\ OnlyProxies(Rebuild({p}))
       /\ requires_rebuild(Rebuild({p}))
  /\ \A st, stage : \A fs \in SUBSET Files :
       LET t == TaskForChanges(st, stage, fs) IN
       /\ fs # {} => t \in TaskInputs
       /\ OnlyProxies(t)
       /\ t.files = fs
  /\ requires_rebuild(FullBuild) /\ FullBuild.kind = "FullBuild"
BY DEF FullBuild, Rebuild, TaskForChanges, Hmr, HmrRebuild, TaskInputs, OnlyProxies,
       requires_rebuild

\* handle_file_changes forgets nothing that is queued, and nothing that is new:
\* the files are stashed or asked for.
LEMMA FileChangesAsks ==
  ASSUME TypeOK, NEW st, NEW stage, NEW fs \in SUBSET Files, NEW sh, NEW fut,
         handle_file_changes(st, stage, fs, sh, fut)
  PROVE  /\ \A f : Asked(f, queued_tasks) => Asked(f, queued_tasks') \/ TaskAsked(f)'
         /\ \A f \in fs : \/ st = "Initialized"
                          \/ st = "FullBuildInProgress" /\ state' = st /\ f \in stash'
                          \/ Asked(f, queued_tasks') \/ TaskAsked(f)'
         /\ \A f \in sh : \/ state' = st /\ f \in stash'
                          \/ TaskAsked(f)' \/ Asked(f, queued_tasks') \/ st # "FullBuildFailed"
         /\ st = "FullBuildInProgress" => state' = st /\ sh \subseteq stash'
         /\ InputInv => InputInv'
         /\ \A t \in Sent(queued_tasks) :
              t \in Sent(queued_tasks') \/ TaskStarted
<1> USE DEF TypeOK
<1>1. CASE fs = {} \/ st = "Initialized"
  <2>1. stash' = sh /\ StartNothing(st, stage, queued_tasks, fut)
    BY <1>1 DEF handle_file_changes
  <2> QED BY <1>1, <2>1 DEF StartNothing, taskVars, InputInv
<1>2. CASE fs # {} /\ st = "FullBuildInProgress"
  <2>1. stash' = sh \cup fs /\ StartNothing(st, stage, queued_tasks, fut)
    BY <1>2 DEF handle_file_changes
  <2> QED BY <1>2, <2>1 DEF StartNothing, taskVars, InputInv
<1>3. CASE fs # {} /\ st \in {"Idle", "InProgress", "Failed"}
  <2> DEFINE t == TaskForChanges(st, stage, fs)
             q == Append(queued_tasks, t)
  <2>1. stash' = sh /\ schedule_build_if_stale(st, stage, q, fut)
    BY <1>3 DEF handle_file_changes
  <2>2. t \in TaskInputs /\ OnlyProxies(t) /\ t.files = fs
    BY <1>3, QueuedInputs
  <2> HIDE DEF t
  <2>3. q \in Seq(TaskInputs) /\ Sent(q) = Sent(queued_tasks) \cup {t}
    BY <2>2, QueueAppend
  <2> HIDE DEF q
  <2>4. \A f : Asked(f, queued_tasks) \/ f \in fs => Asked(f, q)
    BY <2>2, <2>3 DEF Asked
  <2>5. InputInv => (\A u \in Sent(q) : OnlyProxies(u)) /\ OnlyProxies(task.input)
    BY <2>2, <2>3 DEF InputInv
  <2>6. \A f : Asked(f, q) => Asked(f, queued_tasks') \/ TaskAsked(f)'
    BY <2>1, <2>3, ScheduleAsks
  <2>7. InputInv => InputInv'
    BY <2>1, <2>3, <2>5, ScheduleAsks
  <2>8. queued_tasks' = q \/ TaskStarted
    BY <2>1, <2>3, ScheduleAsks DEF StartNothing
  <2> QED BY <1>3, <2>3, <2>4, <2>6, <2>7, <2>8
<1>4. CASE fs # {} /\ st = "FullBuildFailed"
  <2> DEFINE q == Append(queued_tasks, FullBuild)
  <2>1. schedule_build_if_stale(st, stage, q, fut)
    BY <1>4 DEF handle_file_changes
  <2>2. q \in Seq(TaskInputs) /\ Sent(q) = Sent(queued_tasks) \cup {FullBuild}
    BY QueuedInputs, QueueAppend
  <2> HIDE DEF q
  <2>3. \A f : Asked(f, q)
    BY <2>2, QueuedInputs DEF Asked
  <2>4. InputInv => (\A u \in Sent(q) : OnlyProxies(u)) /\ OnlyProxies(task.input)
    BY <2>2, QueuedInputs DEF InputInv
  <2>5. \A f : Asked(f, q) => Asked(f, queued_tasks') \/ TaskAsked(f)'
    BY <2>1, <2>2, ScheduleAsks
  <2>6. InputInv => InputInv'
    BY <2>1, <2>2, <2>4, ScheduleAsks
  <2>7. queued_tasks' = q \/ TaskStarted
    BY <2>1, <2>2, ScheduleAsks DEF StartNothing
  <2> QED BY <1>4, <2>2, <2>3, <2>5, <2>6, <2>7
<1> QED BY <1>1, <1>2, <1>3, <1>4 DEF handle_file_changes

\* The Ensure arm queues nothing, or a rebuild when nothing is queued.
LEMMA EnsureAsks ==
  ASSUME TypeOK, HandleEnsureLatestBundleOutput
  PROVE  \/ /\ StartNothing(state, last_error_stage, queued_tasks, current_bundling_future)
            /\ state = "Idle" => queued_tasks = <<>>
         \/ /\ state = "Idle" /\ queued_tasks = <<>>
            /\ schedule_build_if_stale(state, last_error_stage, <<Rebuild({})>>,
                                       current_bundling_future)
         \/ /\ state = "Idle"
            /\ schedule_build_if_stale(state, last_error_stage, queued_tasks,
                                       current_bundling_future)
BY DEF HandleEnsureLatestBundleOutput, Building

\* The tasks that are queued and run keep to the rule about rebuilds.
LEMMA InitInputInv == Init => InputInv
<1> SUFFICES ASSUME Init PROVE InputInv
  OBVIOUS
<1>1. Sent(queued_tasks) = {}
  BY EmptySeq DEF Init, Sent
<1> QED BY <1>1, QueuedInputs DEF Init, InputInv, NoTask

\* No step of the engine breaks the rule.
LEMMA NextInputInv == BaseInv /\ InputInv /\ [Next]_vars => InputInv'
<1> SUFFICES ASSUME BaseInv, InputInv, [Next]_vars PROVE InputInv'
  OBVIOUS
<1> USE DEF BaseInv
<1>0. queued_tasks \in Seq(TaskInputs) /\ stash \in SUBSET Files
  BY DEF TypeOK
<1>1. CASE Start
  <2> DEFINE q == Append(queued_tasks, FullBuild)
  <2>1. q \in Seq(TaskInputs) /\ Sent(q) = Sent(queued_tasks) \cup {FullBuild}
    BY QueuedInputs, QueueAppend
  <2>2. schedule_build_if_stale("Idle", "None", q, current_bundling_future)
    BY <1>1 DEF Start
  <2> HIDE DEF q
  <2> QED BY <2>1, <2>2, ScheduleAsks, QueuedInputs DEF InputInv
<1>2. CASE HandleWatchEvent
  <2>1. Head(mailbox).files \in SUBSET Files
    BY <1>2, ReceivedType, MsgFields DEF HandleWatchEvent
  <2> QED BY <1>2, <2>1, FileChangesAsks DEF HandleWatchEvent
<1>3. CASE HandleBundleCompleted
  <2> DEFINE m == Head(mailbox)
  <2>1. CompleteFullBuild(m) \/ CompleteIncremental(m)
    BY <1>3, CompletionHandled DEF HandleBundleCompleted
  <2>2. \/ StartNothing("FullBuildFailed", "None", queued_tasks, FALSE)
        \/ handle_file_changes("Idle", "None", stash, {}, FALSE)
        \/ \E st, stage : schedule_build_if_stale(st, stage, queued_tasks, FALSE)
    BY <2>1 DEF CompleteFullBuild, CompleteIncremental
  <2>3. CASE StartNothing("FullBuildFailed", "None", queued_tasks, FALSE)
    BY <2>3 DEF StartNothing, taskVars, InputInv
  <2>4. CASE handle_file_changes("Idle", "None", stash, {}, FALSE)
    BY <1>0, <2>4, FileChangesAsks
  <2>5. CASE \E st, stage : schedule_build_if_stale(st, stage, queued_tasks, FALSE)
    BY <1>0, <2>5, ScheduleAsks DEF InputInv
  <2> QED BY <2>2, <2>3, <2>4, <2>5
<1>4. CASE HandleModuleChanged
  <2> DEFINE t == Rebuild({Head(mailbox).module_id})
             q == Append(queued_tasks, t)
  <2>1. t \in TaskInputs /\ OnlyProxies(t)
    BY <1>4, ReceivedType, MsgFields, QueuedInputs DEF HandleModuleChanged
  <2>2. schedule_build_if_stale(state, last_error_stage, q, current_bundling_future)
    BY <1>4 DEF HandleModuleChanged
  <2> HIDE DEF t
  <2>3. q \in Seq(TaskInputs) /\ Sent(q) = Sent(queued_tasks) \cup {t}
    BY <2>1, QueueAppend
  <2> HIDE DEF q
  <2> QED BY <2>1, <2>2, <2>3, ScheduleAsks DEF InputInv
<1>5. CASE HandleTriggerFullBuild
  <2>1. <<FullBuild>> \in Seq(TaskInputs) /\ Sent(<<FullBuild>>) = {FullBuild}
    BY QueuedInputs, QueueOfOne
  <2>2. schedule_build_if_stale(state, last_error_stage, <<FullBuild>>,
                                current_bundling_future)
    BY <1>5 DEF HandleTriggerFullBuild
  <2> QED BY <2>1, <2>2, ScheduleAsks, QueuedInputs DEF InputInv
<1>6. CASE HandleEnsureLatestBundleOutput
  <2>1. <<Rebuild({})>> \in Seq(TaskInputs) /\ Sent(<<Rebuild({})>>) = {Rebuild({})}
    BY QueuedInputs, QueueOfOne
  <2>2. CASE StartNothing(state, last_error_stage, queued_tasks, current_bundling_future)
    BY <2>2 DEF StartNothing, taskVars, InputInv
  <2>3. CASE schedule_build_if_stale(state, last_error_stage, <<Rebuild({})>>,
                                     current_bundling_future)
    BY <2>1, <2>3, ScheduleAsks, QueuedInputs DEF InputInv
  <2>4. CASE schedule_build_if_stale(state, last_error_stage, queued_tasks,
                                     current_bundling_future)
    BY <1>0, <2>4, ScheduleAsks DEF InputInv
  <2> QED BY <1>6, <2>2, <2>3, <2>4, EnsureAsks
<1>7. CASE RunTask
  <2>1. UNCHANGED queued_tasks
    BY <1>7 DEF RunTask, RunWatchChange, DecideReload, GenerateHmrUpdates, RunRebuild,
       ReportCompletion, TaskEnds, taskFrame, coordVars
  <2>2. task'.input \in {task.input, FullBuild}
    <3>1. task \in Tasks
      BY DEF TypeOK
    <3>2. CASE RunWatchChange \/ DecideReload
      BY <3>1, <3>2 DEF RunWatchChange, DecideReload, Tasks
    <3>3. CASE GenerateHmrUpdates
      BY <3>1, <3>3 DEF GenerateHmrUpdates, HmrFailed, Tasks
    <3>4. CASE RunRebuild
      BY <3>1, <3>4 DEF RunRebuild, FullScanBuild, PartialScanBuild, Rebuilt, Tasks
    <3>5. CASE ReportCompletion
      BY <3>5 DEF ReportCompletion, TaskEnds, NoTask
    <3> QED BY <1>7, <3>2, <3>3, <3>4, <3>5 DEF RunTask
  <2> QED BY <2>1, <2>2, QueuedInputs DEF InputInv
<1>8. CASE \/ HandleGetState \/ HandleClose \/ Terminate
           \/ \E p \in Proxies : CompileLazyEntry(p)
           \/ Bystander
  BY <1>8 DEF HandleGetState, HandleClose, LeaveLoop, Terminate, CompileLazyEntry,
     Bystander, coordVars, taskVars, InputInv
<1>9. \/ Start \/ Handle \/ Terminate \/ RunTask
      \/ \E p \in Proxies : CompileLazyEntry(p)
      \/ Bystander
  BY Bystanders DEF Next, Environment
<1> QED BY <1>1, <1>2, <1>3, <1>4, <1>5, <1>6, <1>7, <1>8, <1>9 DEF Handle

-----------------------------------------------------------------------------
(* A failed full build leaves no snapshot. *)

Emptied == ~has_snapshot \/ Proxies = {}

\* While a failed full build is not made up for, a partial scan finds no snapshot.
\* This is what makes it harmless that the changes stashed during that build wait
\* for the next file change, and it is why a full build that scans and then fails
\* to generate is left out when there are lazy routes.
CacheInv ==
  coordinator = "running" =>
    /\ state # "Initialized"
    /\ \/ state = "FullBuildFailed"
       \/ state = "FullBuildInProgress" /\ running > 0 /\ task.rebuild_errored
       \/ /\ state = "FullBuildInProgress"
          /\ \E m \in OfType(Sent(mailbox), "BundleCompleted") : m.error_stage # "None"
       => Emptied

\* No step of the engine breaks the invariant.
LEMMA NextCacheInv ==
  ASSUME "generate" \notin Failures \/ Proxies = {},
         BaseInv, CacheInv, [Next]_vars
  PROVE  CacheInv'
<1> USE DEF BaseInv
<1>0. ASSUME TaskStarted
      PROVE  /\ ~task'.rebuild_errored
             /\ state' \in {"FullBuildInProgress", "InProgress"}
  BY <1>0 DEF TaskStarted, NewTask, NoTask
<1>1. CASE Start
  <2>1. TaskStarted /\ OfType(Sent(mailbox'), "BundleCompleted") = {}
    BY <1>1, StartOutcome, SentType DEF BuildInv, TypeOK
  <2> QED BY <1>0, <2>1 DEF CacheInv
<1>2. CASE \E kind \in PlainKinds : PlainHandling(kind)
  <2>1. PICK kind \in PlainKinds : PlainHandling(kind)
    BY <1>2
  <2>2. /\ coordinator = "running" /\ UNCHANGED has_snapshot
        /\ OfType(Sent(mailbox'), "BundleCompleted") = OfType(Sent(mailbox), "BundleCompleted")
    BY <2>1, ReceivedSent DEF PlainHandling, Received, graphVars, PlainKinds
  <2>3. CASE UNCHANGED taskVars /\ state' = state
    BY <2>2, <2>3 DEF CacheInv, Emptied, taskVars
  <2>4. CASE state \notin Building /\ TaskStarted
    BY <1>0, <2>2, <2>4, CompletionPending DEF CacheInv
  <2> QED BY <2>1, <2>3, <2>4 DEF PlainHandling, Outcome
<1>3. CASE HandleBundleCompleted
  <2>1. /\ coordinator = "running" /\ UNCHANGED has_snapshot
        /\ \/ TaskStarted
           \/ /\ UNCHANGED taskVars
              /\ state' # "Initialized"
              /\ state' = "FullBuildFailed" =>
                   state = "FullBuildInProgress" /\ Head(mailbox).error_stage # "None"
              /\ state' # "FullBuildInProgress"
    BY <1>3, CompletionOutcome DEF Outcome, graphVars
  <2>2. /\ OfType(Sent(mailbox), "BundleCompleted") = {Head(mailbox)}
        /\ OfType(Sent(mailbox'), "BundleCompleted") = {}
    BY <1>3, CompletionHandled
  <2> QED BY <1>0, <2>1, <2>2 DEF CacheInv, Emptied
<1>4. CASE HandleClose \/ Terminate
  <2>1. coordinator' \in {"draining", "terminated"}
    BY <1>4 DEF HandleClose, LeaveLoop, Terminate
  <2> QED BY <2>1 DEF CacheInv
<1>5. CASE RunTask
  <2>0. /\ task \in Tasks /\ running = 1 /\ UNCHANGED <<coordinator, state>>
    BY <1>5 DEF TypeOK, BuildInv, BuildsAccountedFor, RunTask, RunWatchChange, DecideReload,
         GenerateHmrUpdates, RunRebuild, ReportCompletion, TaskEnds, TaskAt, taskFrame,
         coordVars
  <2>1. SUFFICES ASSUME coordinator = "running" PROVE CacheInv'
    BY <2>0 DEF CacheInv
  <2>2. state \in Building /\ OfType(Sent(mailbox), "BundleCompleted") = {}
        /\ state # "FullBuildFailed"
    BY <2>0, <2>1, CompletionPending DEF Building
  <2>3. CASE RunWatchChange \/ DecideReload \/ GenerateHmrUpdates
    <3>1. UNCHANGED <<mailbox, running, has_snapshot>>
      BY <2>3 DEF RunWatchChange, DecideReload, GenerateHmrUpdates, graphVars
    <3>2. task'.rebuild_errored = task.rebuild_errored
      BY <2>0, <2>3 DEF RunWatchChange, DecideReload, GenerateHmrUpdates, HmrFailed, Tasks
    <3> QED BY <2>0, <2>1, <2>2, <3>1, <3>2 DEF CacheInv, Emptied
  <2>4. CASE RunRebuild
    <3>1. UNCHANGED <<mailbox, running>>
      BY <2>4 DEF RunRebuild
    <3>2. CASE state = "FullBuildInProgress"
      <4>1. FullScanBuild
        BY <2>0, <2>4, <3>2 DEF RunRebuild, TaskShape, requires_full_rebuild
      <4>2. Rebuilt(FALSE) \/ Emptied'
        BY <4>1 DEF FullScanBuild, Emptied
      <4>3. ~task'.rebuild_errored \/ Emptied'
        BY <2>0, <4>2 DEF Rebuilt, Tasks
      <4> QED BY <2>0, <2>1, <2>2, <3>1, <4>3 DEF CacheInv
    <3>3. CASE state # "FullBuildInProgress"
      BY <2>0, <2>1, <2>2, <3>3 DEF CacheInv
    <3> QED BY <3>2, <3>3
  <2>5. CASE ReportCompletion
    <3> DEFINE m == BundleCompleted(final_error_stage(task), task.has_rebuild_happen,
                                    task.hmr_stage_watch_files)
    <3>1. /\ UNCHANGED has_snapshot /\ running' = 0 /\ Post(m)
      BY <2>0, <2>5 DEF ReportCompletion, TaskEnds, graphVars
    <3>2. /\ m \in Msgs /\ m.type = "BundleCompleted"
          /\ m.error_stage # "None" => task.rebuild_errored \/ task.hmr_errored
      BY DEF TypeOK, Tasks, Msgs, BundleCompleted, final_error_stage, Stages
    <3>3. state = "FullBuildInProgress" => ~task.hmr_errored
      BY <2>0 DEF TaskShape
    <3> HIDE DEF m
    <3>4. OfType(Sent(mailbox'), "BundleCompleted") = {m}
      BY <2>1, <2>2, <3>1, <3>2, PostedSent DEF OfType
    <3> QED BY <2>0, <2>1, <2>2, <3>1, <3>2, <3>3, <3>4 DEF CacheInv, Emptied
  <2> QED BY <1>5, <2>3, <2>4, <2>5 DEF RunTask
<1>6. CASE \E p \in Proxies : CompileLazyEntry(p)
  <2>1. PICK p \in Proxies : CompileLazyEntry(p)
    BY <1>6
  <2>2. UNCHANGED <<coordVars, taskVars, has_snapshot>>
    BY <2>1 DEF CompileLazyEntry
  <2>3. OfType(Sent(mailbox'), "BundleCompleted") = OfType(Sent(mailbox), "BundleCompleted")
    BY <2>1, LazySent
  <2> QED BY <2>2, <2>3 DEF CacheInv, Emptied, coordVars, taskVars
<1>7. CASE Bystander
  BY <1>7, BystanderSent DEF Bystander, CacheInv, Emptied, coordVars, taskVars, graphVars
<1> QED BY <1>1, <1>2, <1>3, <1>4, <1>5, <1>6, <1>7, StepKinds

\* Nothing has been built at first.
LEMMA InitCacheInv == Init => CacheInv
BY DEF Init, CacheInv

-----------------------------------------------------------------------------
(* Where the scan or the rebuild that an edit needs is to come from. *)

\* The running task is not, or not yet, one that leaves a fresh output.
TaskLags ==
  task.pc # "report" \/ final_error_stage(task) # "None" \/ ~task.has_rebuild_happen

\* So for the completion of the task that has ended.
CompletionLags ==
  \E m \in OfType(Sent(mailbox), "BundleCompleted") :
    m.error_stage # "None" \/ ~m.has_generated_bundle_output

\* What the coordinator calls stale, or will once the build in progress is over.
Lagging ==
  IF state \notin Building THEN has_stale_bundle_output
  ELSE IF running > 0 THEN TaskLags ELSE CompletionLags

\* The next scan reads f, whoever asks for it.
Retry(f) == ~has_snapshot \/ f \in pending_rescans \/ Reopened(f)

\* f waits for the end of a full build, or for the next change if that failed.
Stashed(f) == f \in stash /\ state \in {"FullBuildInProgress", "FullBuildFailed"}

\* A task that is queued or runs is going to scan f.
Wanted(f) == Asked(f, queued_tasks) \/ TaskAsked(f)

\* The scan of f is due to the stash, a task, or the next build.
Due(f) == Stashed(f) \/ Wanted(f) \/ (Retry(f) /\ Lagging)

\* A change of f is among the messages M.
Reported(f, M) == \E m \in OfType(M, "WatchEvent") : f \in m.files

\* A rebuild is queued, or the output is marked stale.
RebuildAhead == (\E t \in Sent(queued_tasks) : requires_rebuild(t)) \/ Lagging

\* The inductive strengthening of FreshMeansFresh: an edit that the graph lacks is
\* in the mailbox or due, and so is the rebuild that brings the graph to the output.
FreshInv ==
  /\ coordinator = "init" =>
       loaded = {} /\ watched = {} /\ unbuilt = {} /\ ~has_snapshot
  /\ coordinator = "running" =>
       /\ \A f \in unscanned \ unreported : Reported(f, Sent(mailbox)) \/ Due(f)
       /\ unbuilt # {} => OfType(Sent(mailbox), "ModuleChanged") # {} \/ RebuildAhead

\* A task that has started has not rebuilt anything.
LEMMA StartedLags ==
  ASSUME TypeOK, TaskStarted
  PROVE  Lagging' /\ running' > 0
<1>1. task'.pc = "hooks" /\ state' \in Building /\ running' > 0
  BY DEF TaskStarted, NewTask, NoTask, Building, TypeOK
<1> QED BY <1>1 DEF Lagging, TaskLags

\* No message clears the mark, except the completion of a build that wrote the
\* output.
LEMMA HandlerLags ==
  ASSUME BaseInv, ResultInv, Lagging,
         (\E kind \in PlainKinds : PlainHandling(kind)) \/ HandleBundleCompleted
  PROVE  Lagging'
<1> USE DEF BaseInv
<1>1. CASE \E kind \in PlainKinds : PlainHandling(kind)
  <2>1. PICK kind \in PlainKinds : PlainHandling(kind)
    BY <1>1
  <2>2. /\ has_stale_bundle_output => has_stale_bundle_output'
        /\ OfType(Sent(mailbox'), "BundleCompleted") = OfType(Sent(mailbox), "BundleCompleted")
    BY <2>1, ReceivedSent DEF PlainHandling, PlainKinds
  <2>3. CASE UNCHANGED taskVars /\ state' = state
    BY <2>2, <2>3 DEF Lagging, TaskLags, CompletionLags, taskVars
  <2> QED BY <2>1, <2>3, StartedLags DEF PlainHandling, Outcome
<1>2. CASE HandleBundleCompleted
  <2> DEFINE m == Head(mailbox)
  <2>1. /\ state \in Building /\ running = 0
        /\ OfType(Sent(mailbox), "BundleCompleted") = {m}
    BY <1>2, CompletionHandled
  <2>2. m.error_stage # "None" \/ ~m.has_generated_bundle_output
    BY <2>1 DEF Lagging, CompletionLags
  <2>3. state = "FullBuildInProgress" => m.has_generated_bundle_output
    BY <1>2, <2>1, CompletionOutcome DEF ResultInv
  <2>4. has_stale_bundle_output'
    BY <1>2, <2>1, <2>2, <2>3, CompletionOutcome DEF Building
  <2>5. TaskStarted \/ state' \notin Building
    BY <1>2, CompletionOutcome DEF Outcome, Building
  <2> QED BY <2>4, <2>5, StartedLags DEF Lagging
<1> QED BY <1>1, <1>2

-----------------------------------------------------------------------------
(* What the coordinator's handlers pass on. *)

\* The coordinator forgets no scan and no rebuild that it, its task or the message
\* at the head of its mailbox stands for.
HandsOn ==
  /\ \A f \in Files :
       \/ Wanted(f) \/ Stashed(f)
       \/ Head(mailbox).type = "WatchEvent" /\ f \in Head(mailbox).files
       => Wanted(f)' \/ Stashed(f)' \/ (~has_snapshot /\ Lagging')
  /\ RebuildAhead \/ Head(mailbox).type = "ModuleChanged" => RebuildAhead'

\* A running task is left alone by every message.
LEMMA HandlerKeepsTask ==
  ASSUME BaseInv, NEW f, TaskAsked(f), NEW kind, PlainHandling(kind)
  PROVE  TaskAsked(f)'
<1> USE DEF BaseInv
<1>1. coordinator = "running" /\ running > 0
  BY DEF PlainHandling, Received, TaskAsked
<1>2. state \in Building
  BY <1>1, CompletionPending DEF TypeOK
<1>3. UNCHANGED taskVars
  BY <1>2 DEF PlainHandling, Outcome
<1> QED BY <1>3 DEF TaskAsked, taskVars

\* A file change is stashed or queued, and with it goes what waited for one.
LEMMA WatchEventHandsOn ==
  ASSUME BaseInv, ResultInv, CacheInv, HandleWatchEvent
  PROVE  HandsOn
<1> USE DEF BaseInv
<1> DEFINE fs == Head(mailbox).files
<1>1. /\ handle_file_changes(state, last_error_stage, fs, stash, current_bundling_future)
      /\ coordinator = "running" /\ Head(mailbox).type = "WatchEvent"
  BY DEF HandleWatchEvent, Received
<1>2. fs \in SUBSET Files
  BY ReceivedType, MsgFields DEF HandleWatchEvent
<1>3. \E kind \in PlainKinds : PlainHandling(kind)
  BY PlainHandlers, <1>1 DEF Handle, HandleBundleCompleted, HandleClose, LeaveLoop, Received
<1>4. state # "Initialized"
  BY <1>1 DEF CacheInv
<1> HIDE DEF fs
<1>5. /\ \A f : Asked(f, queued_tasks) => Asked(f, queued_tasks') \/ TaskAsked(f)'
      /\ \A f \in fs : \/ state = "Initialized"
                       \/ state = "FullBuildInProgress" /\ state' = state /\ f \in stash'
                       \/ Asked(f, queued_tasks') \/ TaskAsked(f)'
      /\ \A f \in stash : \/ state' = state /\ f \in stash'
                          \/ TaskAsked(f)' \/ Asked(f, queued_tasks')
                          \/ state # "FullBuildFailed"
      /\ state = "FullBuildInProgress" => state' = state /\ stash \subseteq stash'
      /\ \A t \in Sent(queued_tasks) : t \in Sent(queued_tasks') \/ TaskStarted
  BY <1>1, <1>2, FileChangesAsks
<1>6. ASSUME NEW f \in Files, Wanted(f) PROVE Wanted(f)'
  BY <1>3, <1>5, <1>6, HandlerKeepsTask DEF Wanted
<1>7. ASSUME NEW f \in Files, Stashed(f) PROVE Wanted(f)' \/ Stashed(f)'
  BY <1>5, <1>7 DEF Wanted, Stashed
<1>8. ASSUME NEW f \in fs PROVE Wanted(f)' \/ Stashed(f)'
  BY <1>4, <1>5, <1>8 DEF Wanted, Stashed
<1>9. RebuildAhead => RebuildAhead'
  BY <1>3, <1>5, HandlerLags, StartedLags DEF RebuildAhead
<1> QED BY <1>1, <1>6, <1>7, <1>8, <1>9 DEF HandsOn, fs

\* A completion starts what is queued or stashed, unless a full build failed.
LEMMA CompletionHandsOn ==
  ASSUME BaseInv, ResultInv, HandleBundleCompleted
  PROVE  HandsOn
<1> USE DEF BaseInv
<1> DEFINE m == Head(mailbox)
<1>1. /\ running = 0 /\ state \in Building
      /\ CompleteFullBuild(m) \/ CompleteIncremental(m)
  BY CompletionHandled DEF HandleBundleCompleted
<1>2. m.type = "BundleCompleted"
  BY DEF HandleBundleCompleted, Received
<1>3. queued_tasks \in Seq(TaskInputs) /\ stash \in SUBSET Files
  BY DEF TypeOK
<1> HIDE DEF m
<1>4. CASE StartNothing("FullBuildFailed", "None", queued_tasks, FALSE) /\ stash' = stash
  <2>1. queued_tasks' = queued_tasks /\ UNCHANGED taskVars /\ state' = "FullBuildFailed"
    BY <1>4 DEF StartNothing
  <2> QED BY <1>2, <1>4, <2>1, HandlerLags
          DEF HandsOn, Wanted, Stashed, TaskAsked, RebuildAhead, taskVars, m
<1>5. CASE /\ state = "FullBuildInProgress"
           /\ handle_file_changes("Idle", "None", stash, {}, FALSE)
  <2>1. /\ \A f : Asked(f, queued_tasks) => Asked(f, queued_tasks') \/ TaskAsked(f)'
        /\ \A f \in stash : Asked(f, queued_tasks') \/ TaskAsked(f)'
        /\ \A t \in Sent(queued_tasks) : t \in Sent(queued_tasks') \/ TaskStarted
    <3> DEFINE st == "Idle"
               sh == {}
    <3>1. st \notin {"Initialized", "FullBuildInProgress"}
      OBVIOUS
    <3>2. handle_file_changes(st, "None", stash, sh, FALSE)
      BY <1>5
    <3> HIDE DEF st, sh
    <3> QED BY <1>3, <3>1, <3>2, FileChangesAsks
  <2>2. RebuildAhead => RebuildAhead'
    BY <2>1, HandlerLags, StartedLags DEF RebuildAhead
  <2>3. \A f \in Files : Wanted(f) \/ Stashed(f) => Wanted(f)'
    BY <1>1, <2>1 DEF Wanted, Stashed, TaskAsked
  <2> QED BY <1>2, <2>2, <2>3 DEF HandsOn, m
<1>6. CASE /\ state = "InProgress"
           /\ \E st, stage : schedule_build_if_stale(st, stage, queued_tasks, FALSE)
  <2>1. /\ \A f : Asked(f, queued_tasks) => Asked(f, queued_tasks') \/ TaskAsked(f)'
        /\ queued_tasks' = queued_tasks \/ TaskStarted
    BY <1>3, <1>6, ScheduleAsks DEF StartNothing
  <2>2. RebuildAhead => RebuildAhead'
    BY <2>1, HandlerLags, StartedLags DEF RebuildAhead
  <2>3. \A f \in Files : Wanted(f) \/ Stashed(f) => Wanted(f)'
    BY <1>1, <1>6, <2>1 DEF Wanted, Stashed, TaskAsked
  <2> QED BY <1>2, <2>2, <2>3 DEF HandsOn, m
<1> QED BY <1>1, <1>4, <1>5, <1>6 DEF CompleteFullBuild, CompleteIncremental

\* A changed lazy route queues its rebuild.  After a failed full build that rebuild
\* scans everything, the stash included.
LEMMA ModuleChangedHandsOn ==
  ASSUME BaseInv, ResultInv, CacheInv, HandleModuleChanged
  PROVE  HandsOn
<1> USE DEF BaseInv
<1> DEFINE t == Rebuild({Head(mailbox).module_id})
           q == Append(queued_tasks, t)
<1>1. /\ coordinator = "running" /\ Head(mailbox).type = "ModuleChanged"
      /\ stash' = stash
      /\ schedule_build_if_stale(state, last_error_stage, q, current_bundling_future)
  BY DEF HandleModuleChanged, Received
<1>2. Head(mailbox).module_id \in Proxies
  BY ReceivedType, MsgFields DEF HandleModuleChanged
<1>3. t \in TaskInputs /\ requires_rebuild(t)
  BY <1>2, QueuedInputs
<1> HIDE DEF t
<1>4. q \in Seq(TaskInputs) /\ Sent(q) = Sent(queued_tasks) \cup {t}
  BY <1>3, QueueAppend
<1> HIDE DEF q
<1>5. \E kind \in PlainKinds : PlainHandling(kind)
  BY PlainHandlers, <1>1 DEF Handle, HandleBundleCompleted, HandleClose, LeaveLoop, Received
<1>6. /\ \A f : Asked(f, q) => Asked(f, queued_tasks') \/ TaskAsked(f)'
      /\ \/ state' = state /\ queued_tasks' = q
         \/ TaskStarted /\ state \notin Building
  BY <1>1, <1>4, ScheduleAsks DEF StartNothing
<1>7. ASSUME NEW f \in Files, Wanted(f) PROVE Wanted(f)'
  <2>1. Asked(f, queued_tasks) => Asked(f, q)
    BY <1>4 DEF Asked
  <2> QED BY <1>5, <1>6, <1>7, <2>1, HandlerKeepsTask DEF Wanted
<1>8. ASSUME NEW f \in Files, Stashed(f) PROVE Stashed(f)' \/ (~has_snapshot /\ Lagging')
  <2>1. CASE state' = state
    BY <1>1, <1>8, <2>1 DEF Stashed
  <2>2. CASE TaskStarted /\ state \notin Building
    <3>1. state = "FullBuildFailed"
      BY <1>8, <2>2 DEF Stashed, Building
    <3>2. ~has_snapshot
      BY <1>1, <1>2, <3>1 DEF CacheInv, Emptied
    <3> QED BY <2>2, <3>2, StartedLags
  <2> QED BY <1>6, <2>1, <2>2
<1>9. RebuildAhead'
  BY <1>3, <1>4, <1>6, StartedLags DEF RebuildAhead
<1> QED BY <1>1, <1>7, <1>8, <1>9 DEF HandsOn

\* trigger_full_build replaces the queue by the one task that stands for all.
LEMMA TriggerHandsOn ==
  ASSUME BaseInv, ResultInv, HandleTriggerFullBuild
  PROVE  HandsOn
<1> USE DEF BaseInv
<1>1. /\ coordinator = "running" /\ Head(mailbox).type = "TriggerFullBuild"
      /\ stash' = stash
      /\ schedule_build_if_stale(state, last_error_stage, <<FullBuild>>,
                                 current_bundling_future)
  BY DEF HandleTriggerFullBuild, Received
<1>2. <<FullBuild>> \in Seq(TaskInputs) /\ Sent(<<FullBuild>>) = {FullBuild}
  BY QueuedInputs, QueueOfOne
<1>3. \A f : Asked(f, <<FullBuild>>)
  BY <1>2, QueuedInputs DEF Asked
<1>4. /\ \A f : Wanted(f)'
      /\ queued_tasks' = <<FullBuild>> \/ TaskStarted
  BY <1>1, <1>2, <1>3, ScheduleAsks DEF Wanted, StartNothing
<1>5. RebuildAhead'
  BY <1>2, <1>4, QueuedInputs, StartedLags DEF RebuildAhead
<1> QED BY <1>4, <1>5 DEF HandsOn

\* ensure_latest_bundle_output starts what is queued, or a rebuild.
LEMMA EnsureHandsOn ==
  ASSUME BaseInv, ResultInv, HandleEnsureLatestBundleOutput
  PROVE  HandsOn
<1> USE DEF BaseInv
<1>1. /\ coordinator = "running" /\ Head(mailbox).type = "EnsureLatestBundleOutput"
      /\ stash' = stash
  BY DEF HandleEnsureLatestBundleOutput, Received
<1>2. \E kind \in PlainKinds : PlainHandling(kind)
  BY PlainHandlers, <1>1 DEF Handle, HandleBundleCompleted, HandleClose, LeaveLoop, Received
<1>3. CASE StartNothing(state, last_error_stage, queued_tasks, current_bundling_future)
  <2>1. UNCHANGED <<state, queued_tasks, taskVars>>
    BY <1>3 DEF StartNothing
  <2> QED BY <1>1, <1>2, <2>1, HandlerLags
          DEF HandsOn, Wanted, Stashed, TaskAsked, RebuildAhead, taskVars
<1>4. CASE \E q \in Seq(TaskInputs) :
             /\ state = "Idle"
             /\ Sent(queued_tasks) \subseteq Sent(q)
             /\ schedule_build_if_stale(state, last_error_stage, q, current_bundling_future)
  <2>1. PICK q \in Seq(TaskInputs) :
          /\ state = "Idle"
          /\ Sent(queued_tasks) \subseteq Sent(q)
          /\ schedule_build_if_stale(state, last_error_stage, q, current_bundling_future)
    BY <1>4
  <2>2. /\ \A f : Asked(f, q) => Asked(f, queued_tasks') \/ TaskAsked(f)'
        /\ queued_tasks' = q \/ TaskStarted
    BY <2>1, ScheduleAsks DEF StartNothing
  <2>3. ASSUME NEW f \in Files, Wanted(f) PROVE Wanted(f)'
    <3>1. Asked(f, queued_tasks) => Asked(f, q)
      BY <2>1 DEF Asked
    <3> QED BY <1>2, <2>2, <2>3, <3>1, HandlerKeepsTask DEF Wanted
  <2>4. RebuildAhead => RebuildAhead'
    BY <1>2, <2>1, <2>2, HandlerLags, StartedLags DEF RebuildAhead
  <2> QED BY <1>1, <2>1, <2>3, <2>4 DEF HandsOn, Stashed
<1>5. /\ <<Rebuild({})>> \in Seq(TaskInputs) /\ queued_tasks \in Seq(TaskInputs)
      /\ queued_tasks = <<>> => Sent(queued_tasks) = {}
  BY QueuedInputs, QueueOfOne, EmptySeq DEF TypeOK, Sent
<1> QED BY <1>3, <1>4, <1>5, EnsureAsks

\* Every message the coordinator handles before Close is handed on.
LEMMA HandlersHandOn ==
  ASSUME BaseInv, ResultInv, CacheInv, Handle
  PROVE  HandsOn \/ HandleClose
<1>1. CASE HandleGetState
  <2>1. /\ UNCHANGED <<coordVars, taskVars>> /\ Head(mailbox).type = "GetState"
        /\ coordinator = "running"
    BY <1>1 DEF HandleGetState, Received
  <2>2. Lagging => Lagging'
    <3>1. (\E kind \in PlainKinds : PlainHandling(kind)) \/ HandleBundleCompleted
      BY <1>1, <2>1, PlainHandlers DEF BaseInv, Handle, HandleClose, LeaveLoop
    <3> QED BY <3>1, HandlerLags
  <2> QED BY <2>1, <2>2 DEF HandsOn, Wanted, Stashed, TaskAsked, RebuildAhead, coordVars,
          taskVars
<1> QED BY <1>1, WatchEventHandsOn, CompletionHandsOn, ModuleChangedHandsOn, TriggerHandsOn,
        EnsureHandsOn DEF Handle

-----------------------------------------------------------------------------
(* How each step keeps what is due. *)

\* A handler keeps it, and makes a reported change due.
LEMMA HandlerKeepsDue ==
  ASSUME BaseInv, ResultInv, CacheInv, Handle, ~HandleClose, NEW f \in Files,
         \/ Due(f)
         \/ Head(mailbox).type = "WatchEvent" /\ f \in Head(mailbox).files
  PROVE  Due(f)'
<1>1. HandsOn
  BY HandlersHandOn
<1>2. (\E kind \in PlainKinds : PlainHandling(kind)) \/ HandleBundleCompleted
  BY PlainHandlers DEF BaseInv
<1>3. UNCHANGED graphVars
  BY <1>2 DEF PlainHandling, HandleBundleCompleted
<1>4. /\ Retry(f)' <=> Retry(f)
      /\ ~has_snapshot => Retry(f)'
  BY <1>3 DEF Retry, Reopened, graphVars
<1>5. Lagging => Lagging'
  BY <1>2, HandlerLags
<1> QED BY <1>1, <1>4, <1>5 DEF HandsOn, Due

\* While a task works the output lags.
LEMMA WorkingLags ==
  ASSUME BaseInv, coordinator = "running", running > 0
  PROVE  /\ state \in Building
         /\ task.pc # "report" => Lagging
         /\ OfType(Sent(mailbox), "BundleCompleted") = {}
<1>1. state \in Building /\ OfType(Sent(mailbox), "BundleCompleted") = {}
  BY CompletionPending DEF BaseInv, TypeOK
<1> QED BY <1>1 DEF Lagging, TaskLags

\* What the steps of a task leave alone.
LEMMA TaskStepFrame ==
  ASSUME BaseInv, RunTask
  PROVE  /\ UNCHANGED <<coordinator, state, stash, queued_tasks, has_stale_bundle_output, watched>>
         /\ task \in Tasks /\ task.input \in TaskInputs /\ running = 1
         /\ coordinator # "init"
<1>1. /\ UNCHANGED <<coordinator, state, stash, queued_tasks, has_stale_bundle_output, watched>>
      /\ task \in Tasks /\ running = 1
  BY DEF BaseInv, TypeOK, BuildInv, BuildsAccountedFor, RunTask, RunWatchChange, DecideReload,
         GenerateHmrUpdates, RunRebuild, ReportCompletion, TaskEnds, TaskAt, taskFrame,
         coordVars
<1> QED BY <1>1 DEF Tasks, BaseInv, BuildInv

\* The hooks and the reload decision keep what is due: a task that does not turn
\* into a full build goes to the HMR stage if it names files.
LEMMA DecisionKeepsDue ==
  ASSUME "watch_change" \notin Failures, BaseInv, InputInv, coordinator = "running",
         RunWatchChange \/ DecideReload
  PROVE  Lagging' /\ \A f \in Files : Due(f) => Due(f)'
<1> USE DEF BaseInv
<1>0. /\ UNCHANGED <<coordinator, state, stash, queued_tasks, watched>>
      /\ task \in Tasks /\ task.input \in TaskInputs /\ running = 1
  BY TaskStepFrame DEF RunTask
<1>1. UNCHANGED <<graphVars, running>> /\ task.pc \in {"hooks", "reload"}
  BY DEF RunWatchChange, DecideReload, TaskAt
<1>2. task.input.kind \in {"FullBuild", "Rebuild", "Hmr", "HmrRebuild"}
  BY <1>0, InputFields
<1>3. ASSUME RunWatchChange
      PROVE  task'.pc = "reload" /\ task'.input = task.input
  BY <1>0, <1>3 DEF RunWatchChange, Tasks
<1>4. ASSUME DecideReload
      PROVE  \/ /\ task'.input = task.input
                /\ task'.pc = IF task.input.kind \in {"Hmr", "HmrRebuild"}
                              THEN "hmr" ELSE "rebuild"
             \/ task'.input.kind = "FullBuild" /\ task'.pc = "rebuild"
  <2>1. PICK input \in {task.input, FullBuild} :
          task' = [task EXCEPT !.pc = AfterReload(input), !.input = input]
    BY <1>4 DEF DecideReload
  <2>2. task'.pc = AfterReload(input) /\ task'.input = input
    BY <1>0, <2>1 DEF Tasks
  <2> QED BY <1>2, <2>2, QueuedInputs DEF AfterReload, require_generate_hmr_update,
          requires_rebuild
<1>5. task'.pc # "report"
  BY <1>3, <1>4
<1>6. Lagging'
  BY <1>0, <1>1, <1>5, WorkingLags DEF Lagging, TaskLags
<1>7. ASSUME NEW f \in Files, TaskAsked(f) PROVE TaskAsked(f)'
  <2>1. task.input.kind = "Rebuild" => f \notin task.input.files
    BY ConstantsAssumption DEF InputInv, OnlyProxies
  <2> QED BY <1>0, <1>1, <1>2, <1>3, <1>4, <1>7, <2>1 DEF TaskAsked
<1>8. \A f : (Retry(f) => Retry(f)') /\ (Stashed(f) => Stashed(f)')
  BY <1>0, <1>1 DEF Retry, Reopened, Stashed, graphVars
<1> QED BY <1>0, <1>6, <1>7, <1>8 DEF Due, Wanted

\* The HMR stage scans what is due, or leaves it to the next scan.
LEMMA HmrKeepsDue ==
  ASSUME "hot_update" \notin Failures, BaseInv, GraphInv, coordinator = "running",
         GenerateHmrUpdates
  PROVE  Lagging' /\ \A f \in watched : Due(f) => f \notin unscanned' \/ Due(f)'
<1> USE DEF BaseInv
<1> DEFINE S == IF has_snapshot THEN PartialScanSet(task.input) ELSE {}
<1>0. /\ UNCHANGED <<coordinator, state, stash, queued_tasks, watched>>
      /\ task \in Tasks /\ task.input \in TaskInputs /\ running = 1
  BY TaskStepFrame DEF RunTask
<1>1. UNCHANGED <<running, has_snapshot, fetched>> /\ task.pc = "hmr"
  BY DEF GenerateHmrUpdates, TaskAt
<1>2. ~task'.has_rebuild_happen
  <2>1. ~task.has_rebuild_happen
    BY <1>0, <1>1 DEF TaskShape
  <2>2. task'.has_rebuild_happen = task.has_rebuild_happen
    BY <1>0 DEF GenerateHmrUpdates, HmrFailed, Tasks
  <2> QED BY <2>1, <2>2
<1>3. Lagging'
  BY <1>0, <1>1, <1>2, WorkingLags DEF Lagging, TaskLags
<1>4. /\ ~has_snapshot => S = {}
      /\ has_snapshot => pending_rescans \subseteq S
      /\ has_snapshot => task.input.files \cap loaded \subseteq S
  BY DEF PartialScanSet, changed_files
<1> HIDE DEF S
<1>5. ASSUME NEW f \in watched, TaskAsked(f) \/ Retry(f)
      PROVE  ~has_snapshot \/ f \in S \/ Reopened(f)
  <2>1. f \in task.input.files \/ Retry(f)
    BY <1>0, <1>1, <1>5 DEF TaskAsked
  <2>2. has_snapshot => f \in loaded \/ Reopened(f)
    BY DEF GraphInv, Known
  <2> QED BY <1>4, <2>1, <2>2 DEF Retry
<1>6. ASSUME NEW f \in watched, ~has_snapshot \/ f \in S \/ Reopened(f)
      PROVE  f \notin unscanned' \/ Retry(f)'
  <2>1. CASE S = {} /\ UNCHANGED <<loaded, pending_rescans>>
    BY <1>1, <1>6, <2>1 DEF Retry, Reopened
  <2>2. CASE S # {} /\ UNCHANGED loaded /\ pending_rescans' = S
    BY <1>1, <1>4, <1>6, <2>2 DEF Retry, Reopened
  <2>3. CASE S # {} /\ \E G \in PulledIn(S) : MergeScan(S, G)
    <3>1. PICK G \in PulledIn(S) : MergeScan(S, G)
      BY <2>3
    <3>2. f \in S \cup G
      BY <1>4, <1>6, <2>3, ReopenedIsLoaded
    <3> QED BY <3>1, <3>2 DEF MergeScan
  <2>4. \/ S = {} /\ UNCHANGED <<loaded, pending_rescans>>
        \/ S # {} /\ UNCHANGED loaded /\ pending_rescans' = S
        \/ S # {} /\ \E G \in PulledIn(S) : MergeScan(S, G)
    BY DEF GenerateHmrUpdates, S, ScanFailed, RequeueRescans
  <2> QED BY <2>1, <2>2, <2>3, <2>4
<1>7. \A f : Stashed(f) => Stashed(f)'
  BY <1>0 DEF Stashed
<1> QED BY <1>0, <1>3, <1>5, <1>6, <1>7 DEF Due, Wanted

\* A rebuild that succeeds scans what is due, and one that fails leaves it to the
\* next, with the output marked stale.
LEMMA RebuildKeepsDue ==
  ASSUME BaseInv, GraphInv, coordinator = "running", RunRebuild
  PROVE  /\ unbuilt' = {} \/ Lagging'
         /\ \A f \in watched : Due(f) => f \notin unscanned' \/ Due(f)'
<1> USE DEF BaseInv
<1> DEFINE S == PartialScanSet(task.input)
<1>0. /\ UNCHANGED <<coordinator, state, stash, queued_tasks, watched>>
      /\ task \in Tasks /\ task.input \in TaskInputs /\ running = 1
  BY TaskStepFrame DEF RunTask
<1>1. UNCHANGED <<running, fetched>> /\ task.pc = "rebuild"
  BY DEF RunRebuild, TaskAt
<1>2. ASSUME Rebuilt(TRUE) PROVE Lagging'
  <2>1. final_error_stage(task') # "None"
    BY <1>0, <1>2 DEF Rebuilt, Tasks, final_error_stage
  <2> QED BY <1>0, <1>1, <2>1, WorkingLags DEF Lagging, TaskLags
<1>3. Rebuilt(TRUE) \/ (Rebuilt(FALSE) /\ unbuilt' = {})
  BY DEF RunRebuild, FullScanBuild, PartialScanBuild
<1>4. pending_rescans \subseteq S
  BY DEF PartialScanSet
<1> HIDE DEF S
<1>5. ASSUME NEW f \in watched, TaskAsked(f) \/ Retry(f)
      PROVE  f \notin unscanned' \/ (Retry(f)' /\ Lagging')
  <2>1. CASE FullScanBuild
    <3>1. f \in Reachable
      BY DEF GraphInv, Known
    <3>2. CASE has_snapshot' = FALSE /\ Rebuilt(TRUE)
      BY <1>2, <3>2 DEF Retry
    <3>3. CASE \E G \in PulledIn(Files) : MergeScan(Reachable, Reachable \cup G)
      BY <3>1, <3>3 DEF MergeScan
    <3> QED BY <2>1, <3>2, <3>3 DEF FullScanBuild
  <2>2. CASE PartialScanBuild /\ has_snapshot /\ ~requires_full_rebuild(task.input)
    <3>1. f \in pending_rescans \/ Reopened(f)
      BY <1>1, <1>5, <2>2 DEF TaskAsked, Retry, requires_full_rebuild
    <3>2. CASE UNCHANGED <<loaded, pending_rescans>> /\ Rebuilt(TRUE)
      BY <1>1, <1>2, <3>1, <3>2 DEF Retry, Reopened
    <3>3. CASE UNCHANGED loaded /\ pending_rescans' = S /\ Rebuilt(TRUE)
      BY <1>1, <1>2, <1>4, <3>1, <3>3 DEF Retry, Reopened
    <3>4. CASE \E G \in PulledIn(S) : MergeScan(S, G)
      <4>1. PICK G \in PulledIn(S) : MergeScan(S, G)
        BY <3>4
      <4>2. f \in S \cup G
        BY <1>4, <3>1, ReopenedIsLoaded
      <4> QED BY <4>1, <4>2 DEF MergeScan
    <3>5. \/ UNCHANGED <<loaded, pending_rescans>> /\ Rebuilt(TRUE)
          \/ UNCHANGED loaded /\ pending_rescans' = S /\ Rebuilt(TRUE)
          \/ \E G \in PulledIn(S) : MergeScan(S, G)
      BY <2>2 DEF PartialScanBuild, S, ScanFailed, RequeueRescans
    <3> QED BY <3>2, <3>3, <3>4, <3>5
  <2> QED BY <2>1, <2>2 DEF RunRebuild
<1>6. \A f : Stashed(f) => Stashed(f)'
  BY <1>0 DEF Stashed
<1> QED BY <1>0, <1>2, <1>3, <1>5, <1>6 DEF Due, Wanted

\* The completion says whether the output lags.
LEMMA ReportKeepsDue ==
  ASSUME BaseInv, coordinator = "running", ReportCompletion
  PROVE  /\ Lagging => Lagging'
         /\ \A f \in Files : Due(f) => Due(f)'
         /\ \A k : k # "BundleCompleted" => OfType(Sent(mailbox'), k) = OfType(Sent(mailbox), k)
<1> USE DEF BaseInv
<1> DEFINE m == BundleCompleted(final_error_stage(task), task.has_rebuild_happen,
                                task.hmr_stage_watch_files)
<1>0. /\ UNCHANGED <<coordinator, state, stash, queued_tasks, watched>>
      /\ task \in Tasks /\ running = 1
  BY TaskStepFrame DEF RunTask
<1>1. UNCHANGED graphVars /\ task.pc = "report" /\ running' = 0 /\ Post(m)
  BY <1>0 DEF ReportCompletion, TaskEnds, TaskAt
<1>2. /\ m \in Msgs /\ m.type = "BundleCompleted"
      /\ m.error_stage = final_error_stage(task)
      /\ m.has_generated_bundle_output = task.has_rebuild_happen
  BY <1>0 DEF Tasks, Msgs, BundleCompleted, final_error_stage, Stages
<1> HIDE DEF m
<1>3. m \in OfType(Sent(mailbox'), "BundleCompleted")
  BY <1>1, <1>2, PostedSent DEF OfType
<1>4. Lagging => Lagging'
  BY <1>0, <1>1, <1>2, <1>3, WorkingLags DEF Lagging, TaskLags, CompletionLags
<1>5. \A f : /\ ~TaskAsked(f)
             /\ Stashed(f) => Stashed(f)'
             /\ Retry(f) => Retry(f)'
  BY <1>0, <1>1 DEF TaskAsked, Stashed, Retry, Reopened, graphVars
<1>6. \A k : k # "BundleCompleted" => OfType(Sent(mailbox'), k) = OfType(Sent(mailbox), k)
  BY <1>1, <1>2, PostedSent
<1> QED BY <1>0, <1>4, <1>5, <1>6 DEF Due, Wanted

\* A lazy compile rescans what an aborted scan left behind, and announces the
\* rebuild that its new files need.
LEMMA LazyKeepsDue ==
  ASSUME "lazy_late" \notin Failures, BaseInv, NEW p \in Proxies, CompileLazyEntry(p)
  PROVE  /\ Lagging <=> Lagging'
         /\ RebuildAhead <=> RebuildAhead'
         /\ \A f \in watched : Due(f) => f \notin unscanned' \/ Due(f)'
         /\ \A f : Due(f) => Due(f)' \/ Lagging'
         /\ UNCHANGED <<coordinator, watched, has_snapshot>>
         /\ Sent(mailbox) \subseteq Sent(mailbox')
         /\ \/ UNCHANGED <<loaded, unscanned, unreported, unbuilt>>
            \/ /\ has_snapshot
               /\ coordinator # "terminated" => OfType(Sent(mailbox'), "ModuleChanged") # {}
               /\ unscanned' \ unreported' \subseteq unscanned \ unreported
<1> USE DEF BaseInv
<1> DEFINE S == {p} \cup pending_rescans
<1>0. /\ UNCHANGED <<coordVars, taskVars, watched, has_snapshot>>
      /\ fetched \subseteq fetched'
  BY DEF CompileLazyEntry
<1>1. /\ OfType(Sent(mailbox'), "BundleCompleted") = OfType(Sent(mailbox), "BundleCompleted")
      /\ Sent(mailbox) \subseteq Sent(mailbox')
  BY LazySent
<1>2. Lagging <=> Lagging'
  BY <1>0, <1>1 DEF Lagging, TaskLags, CompletionLags, coordVars, taskVars
<1>3. RebuildAhead <=> RebuildAhead'
  BY <1>0, <1>2 DEF RebuildAhead, coordVars
<1>4. /\ \A f : (Stashed(f) => Stashed(f)') /\ (Wanted(f) => Wanted(f)')
      /\ \A f : Due(f) => Due(f)' \/ Lagging'
  BY <1>0, <1>2 DEF Due, Stashed, Wanted, TaskAsked, coordVars, taskVars
<1>5. CASE ScanFailed /\ pending_rescans \subseteq pending_rescans'
  <2>1. \A f : Retry(f) => Retry(f)'
    BY <1>0, <1>5 DEF Retry, Reopened, ScanFailed
  <2>2. \A f : Due(f) => Due(f)'
    BY <1>2, <1>4, <2>1 DEF Due
  <2> QED BY <1>0, <1>1, <1>2, <1>3, <1>4, <1>5, <2>2 DEF ScanFailed, coordVars
<1>6. CASE /\ has_snapshot
           /\ \E new \in PulledIn(S) : MergeScan(S, new \cup ({Target[p]} \ loaded))
           /\ Post(ModuleChanged(p, watch_files'))
  <2>1. PICK new \in PulledIn(S) : MergeScan(S, new \cup ({Target[p]} \ loaded))
    BY <1>6
  <2>2. \A f : Retry(f) => f \in S \cup new
    BY <1>6, ReopenedIsLoaded DEF Retry
  <2>3. \A f : Retry(f) => f \notin unscanned'
    BY <2>1, <2>2 DEF MergeScan
  <2>4. unscanned' \ unreported' \subseteq unscanned \ unreported
    BY <2>1 DEF MergeScan
  <2>5. coordinator # "terminated" => OfType(Sent(mailbox'), "ModuleChanged") # {}
    <3> DEFINE m == ModuleChanged(p, watch_files')
    <3>1. m \in Msgs /\ m.type = "ModuleChanged"
      <4>1. watch_files' \subseteq Files
        BY CompileLazyEntryType DEF TypeOK
      <4> QED BY <4>1 DEF ModuleChanged, Msgs
    <3>2. Post(m)
      BY <1>6
    <3> HIDE DEF m
    <3> QED BY <3>1, <3>2, PostedSent DEF OfType
  <2> QED BY <1>0, <1>1, <1>2, <1>3, <1>4, <1>6, <2>3, <2>4, <2>5 DEF Due, coordVars
<1> QED BY <1>5, <1>6 DEF CompileLazyEntry, RequeueRescans

\* Bystanders only add messages.
LEMMA BystanderKeepsDue ==
  ASSUME TypeOK, Bystander
  PROVE  /\ UNCHANGED <<coordinator, loaded, watched, has_snapshot, pending_rescans, fetched>>
         /\ UNCHANGED taskVars
         /\ RebuildAhead <=> RebuildAhead'
         /\ \A f : (Due(f) <=> Due(f)') /\ (Retry(f) <=> Retry(f)')
         /\ Sent(mailbox) \subseteq Sent(mailbox')
<1>0. UNCHANGED <<coordVars, watched, taskVars, graphVars>>
  BY DEF Bystander
<1>1. Sent(mailbox) \subseteq Sent(mailbox')
  BY PostedSent DEF Bystander
<1>2. Lagging <=> Lagging'
  BY <1>0, BystanderSent DEF Lagging, TaskLags, CompletionLags, coordVars, taskVars
<1>3. RebuildAhead <=> RebuildAhead'
  BY <1>0, <1>2 DEF RebuildAhead, coordVars
<1>4. \A f : Retry(f) <=> Retry(f)'
  BY <1>0 DEF Retry, Reopened, graphVars
<1>5. \A f : (Stashed(f) <=> Stashed(f)') /\ (Wanted(f) <=> Wanted(f)')
  BY <1>0 DEF Stashed, Wanted, TaskAsked, coordVars, taskVars
<1> QED BY <1>0, <1>1, <1>2, <1>3, <1>4, <1>5 DEF Due, coordVars, graphVars

-----------------------------------------------------------------------------
(* An idle engine that calls its output fresh is right. *)

\* Without the failures that lose an edit: a watchChange or hot-update hook that
\* fails takes the scan of its files with it, a lazy compile that fails after its
\* merge sends no ModuleChanged, and a full build that fails after its scan leaves
\* the stash behind when a lazy route is rebuilt next.
NothingLost ==
  /\ Failures \cap {"watch_change", "hot_update", "lazy_late"} = {}
  /\ "generate" \notin Failures \/ Proxies = {}

\* Everything that the next steps rely on.
EditInv == BaseInv /\ ResultInv /\ GraphInv /\ InputInv /\ CacheInv

\* It is an invariant.
LEMMA InitEditInv == Init => EditInv
BY InitBase, InitResultInv, InitGraphInv, InitInputInv, InitCacheInv DEF EditInv

\* No step of the engine breaks it.
LEMMA NextEditInv ==
  ASSUME NothingLost, EditInv, [Next]_vars
  PROVE  EditInv'
BY NextBase, NextResultInv, NextGraphInv, NextInputInv, NextCacheInv DEF EditInv, NothingLost

\* Nothing is known, scanned or built at first.
LEMMA InitFreshInv == Init => FreshInv
BY DEF Init, FreshInv

\* A handler takes a change out of the mailbox and makes it due.
LEMMA HandlerKeepsFreshInv ==
  ASSUME EditInv, FreshInv, Handle, ~HandleClose
  PROVE  FreshInv'
<1> USE DEF EditInv, BaseInv
<1>1. PICK kind : Received(kind)
  BY DEF Handle, HandleWatchEvent, HandleBundleCompleted, HandleModuleChanged,
         HandleTriggerFullBuild, HandleEnsureLatestBundleOutput, HandleGetState
<1>2. /\ coordinator = "running" /\ coordinator' = "running" /\ UNCHANGED fileVars
  <2>1. (\E k \in PlainKinds : PlainHandling(k)) \/ HandleBundleCompleted
    BY PlainHandlers
  <2> QED BY <2>1, CompletionOutcome DEF PlainHandling, Received
<1>3. Sent(mailbox) = {Head(mailbox)} \cup Sent(mailbox')
  BY <1>1, ReceivedSent
<1>4. ASSUME NEW f \in unscanned' \ unreported'
      PROVE  Reported(f, Sent(mailbox')) \/ Due(f)'
  <2>1. f \in Files /\ f \in unscanned \ unreported
    BY <1>2 DEF fileVars, TypeOK
  <2>2. Reported(f, Sent(mailbox)) \/ Due(f)
    BY <1>2, <2>1 DEF FreshInv
  <2>3. CASE Due(f) \/ (Head(mailbox).type = "WatchEvent" /\ f \in Head(mailbox).files)
    BY <2>1, <2>3, HandlerKeepsDue
  <2> QED BY <1>3, <2>2, <2>3 DEF Reported, OfType
<1>5. ASSUME unbuilt' # {}
      PROVE  OfType(Sent(mailbox'), "ModuleChanged") # {} \/ RebuildAhead'
  <2>1. OfType(Sent(mailbox), "ModuleChanged") # {} \/ RebuildAhead
    BY <1>2, <1>5 DEF FreshInv, fileVars
  <2>2. RebuildAhead \/ Head(mailbox).type = "ModuleChanged" => RebuildAhead'
    BY HandlersHandOn DEF HandsOn
  <2> QED BY <1>3, <2>1, <2>2 DEF OfType
<1> QED BY <1>2, <1>4, <1>5 DEF FreshInv

\* The task scans and builds what is due, or leaves it due.
LEMMA TaskKeepsFreshInv ==
  ASSUME NothingLost, EditInv, FreshInv, RunTask
  PROVE  FreshInv'
<1> USE DEF EditInv, BaseInv
<1>0. UNCHANGED <<coordinator, watched>> /\ coordinator # "init"
  BY TaskStepFrame
<1>1. SUFFICES ASSUME coordinator = "running" PROVE FreshInv'
  BY <1>0 DEF FreshInv
<1>2. unscanned' \ unreported' \subseteq unscanned \ unreported
  BY DEF RunTask, RunWatchChange, DecideReload, GenerateHmrUpdates, RunRebuild,
         FullScanBuild, PartialScanBuild, ReportCompletion, TaskEnds, ScanFailed,
         MergeScan, fileVars
<1>3. unscanned \ unreported \subseteq watched /\ watched \subseteq Files
  BY DEF GraphInv, TypeOK
<1>4. Failures \cap {"watch_change", "hot_update"} = {}
  BY DEF NothingLost
<1>5. CASE ReportCompletion
  <2>1. UNCHANGED fileVars
    BY <1>5 DEF ReportCompletion, TaskEnds
  <2>2. /\ RebuildAhead => RebuildAhead'
        /\ \A f \in Files : Due(f) => Due(f)'
        /\ OfType(Sent(mailbox'), "WatchEvent") = OfType(Sent(mailbox), "WatchEvent")
        /\ OfType(Sent(mailbox'), "ModuleChanged") = OfType(Sent(mailbox), "ModuleChanged")
    BY <1>1, <1>5, ReportKeepsDue, TaskStepFrame DEF RebuildAhead
  <2> QED BY <1>0, <1>1, <1>3, <2>1, <2>2 DEF FreshInv, fileVars, Reported
<1>6. CASE RunWatchChange \/ DecideReload \/ GenerateHmrUpdates \/ RunRebuild
  <2>1. UNCHANGED mailbox
    BY <1>6 DEF RunWatchChange, DecideReload, GenerateHmrUpdates, RunRebuild
  <2>2. /\ unbuilt' = {} \/ Lagging'
        /\ \A f \in watched : Due(f) => f \notin unscanned' \/ Due(f)'
    BY <1>1, <1>3, <1>4, <1>6, DecisionKeepsDue, HmrKeepsDue, RebuildKeepsDue
  <2> QED BY <1>0, <1>1, <1>2, <1>3, <2>1, <2>2 DEF FreshInv, RebuildAhead
<1> QED BY <1>5, <1>6 DEF RunTask

\* So does a lazy compile.
LEMMA LazyKeepsFreshInv ==
  ASSUME NothingLost, EditInv, FreshInv, NEW p \in Proxies, CompileLazyEntry(p)
  PROVE  FreshInv'
<1> USE DEF EditInv, BaseInv
<1>1. /\ RebuildAhead <=> RebuildAhead'
      /\ \A f \in watched : Due(f) => f \notin unscanned' \/ Due(f)'
      /\ UNCHANGED <<coordinator, watched, has_snapshot>>
      /\ Sent(mailbox) \subseteq Sent(mailbox')
      /\ \/ UNCHANGED <<loaded, unscanned, unreported, unbuilt>>
         \/ /\ has_snapshot
            /\ coordinator # "terminated" => OfType(Sent(mailbox'), "ModuleChanged") # {}
            /\ unscanned' \ unreported' \subseteq unscanned \ unreported
  BY LazyKeepsDue DEF NothingLost
<1>2. unscanned \ unreported \subseteq watched
  BY DEF GraphInv
<1>3. unscanned' \ unreported' \subseteq unscanned \ unreported
  BY <1>1
<1>4. ASSUME coordinator = "running", NEW f \in unscanned' \ unreported'
      PROVE  Reported(f, Sent(mailbox')) \/ Due(f)'
  BY <1>1, <1>2, <1>3, <1>4 DEF FreshInv, Reported, OfType
<1>5. ASSUME coordinator = "running", unbuilt' # {}
      PROVE  OfType(Sent(mailbox'), "ModuleChanged") # {} \/ RebuildAhead'
  BY <1>1, <1>5 DEF FreshInv, OfType
<1>6. ASSUME coordinator = "init"
      PROVE  loaded' = {} /\ watched' = {} /\ unbuilt' = {} /\ ~has_snapshot'
  BY <1>1, <1>6 DEF FreshInv
<1> QED BY <1>1, <1>4, <1>5, <1>6 DEF FreshInv

\* An edit of a watched file is reported.
LEMMA EditKeepsFreshInv ==
  ASSUME TypeOK, FreshInv, NEW e \in Files, Edit(e)
  PROVE  FreshInv'
<1>1. /\ UNCHANGED <<coordinator, loaded, watched, has_snapshot, unbuilt>>
      /\ RebuildAhead <=> RebuildAhead'
      /\ \A f : Due(f) <=> Due(f)'
      /\ Sent(mailbox) \subseteq Sent(mailbox')
  <2>1. Bystander
    BY Bystanders
  <2> QED BY <2>1, BystanderKeepsDue DEF Edit
<1>2. coordinator = "running" /\ e \in watched => Reported(e, Sent(mailbox'))
  <2>1. /\ WatchEvent({e}) \in Msgs /\ WatchEvent({e}).type = "WatchEvent"
        /\ e \in WatchEvent({e}).files
    BY DEF WatchEvent, Msgs
  <2> QED BY <2>1, PostedSent DEF Edit, Reported, OfType
<1>3. ASSUME NEW f \in unscanned' \ unreported'
      PROVE  f \in unscanned \ unreported \/ (f = e /\ e \in watched)
  BY <1>3 DEF Edit
<1>4. ASSUME coordinator = "running", NEW f \in unscanned' \ unreported'
      PROVE  Reported(f, Sent(mailbox')) \/ Due(f)'
  BY <1>1, <1>2, <1>3, <1>4 DEF FreshInv, Reported, OfType
<1> QED BY <1>1, <1>4 DEF FreshInv, OfType

\* No step of the engine breaks the invariant.
LEMMA NextFreshInv ==
  ASSUME NothingLost, EditInv, FreshInv, [Next]_vars
  PROVE  FreshInv'
<1> USE DEF EditInv, BaseInv
<1>1. CASE Start
  <2>1. /\ coordinator = "init" /\ coordinator' = "running"
        /\ UNCHANGED <<unscanned, unreported, unbuilt>>
    BY <1>1, StartOutcome DEF fileVars
  <2>2. unscanned = {} /\ unbuilt = {}
    BY <2>1 DEF FreshInv, GraphInv
  <2> QED BY <2>1, <2>2 DEF FreshInv
<1>2. CASE Handle /\ ~HandleClose
  BY <1>2, HandlerKeepsFreshInv
<1>3. CASE HandleClose \/ Terminate
  <2>1. coordinator' \in {"draining", "terminated"}
    BY <1>3 DEF HandleClose, LeaveLoop, Terminate
  <2> QED BY <2>1 DEF FreshInv
<1>4. CASE RunTask
  BY <1>4, TaskKeepsFreshInv
<1>5. CASE \E p \in Proxies : CompileLazyEntry(p)
  BY <1>5, LazyKeepsFreshInv
<1>6. CASE \E f \in Files : Edit(f)
  BY <1>6, EditKeepsFreshInv
<1>7. CASE Spectator
  BY <1>7, BystanderKeepsDue DEF Spectator, FreshInv, fileVars, Reported, OfType
<1>8. \/ Start \/ Handle \/ Terminate \/ RunTask
      \/ \E p \in Proxies : CompileLazyEntry(p)
      \/ \E f \in Files : Edit(f)
      \/ Spectator
  BY StepsAndEdits
<1> QED BY <1>1, <1>2, <1>3, <1>4, <1>5, <1>6, <1>7, <1>8

\* When the engine is idle, has nothing queued and does not call its output stale,
\* every reported edit is in the graph or in the mailbox, and the graph is in the
\* output or a ModuleChanged is in the mailbox: no interleaving of edits, builds,
\* failures, lazy compiles, page loads and manual restarts makes
\* handle_bundle_completed clear the flag too early (bundle_coordinator.rs).
THEOREM FreshIsFresh ==
  ASSUME NothingLost
  PROVE  Spec => []FreshMeansFresh
<1>1. EditInv /\ FreshInv => FreshMeansFresh
  <2> SUFFICES ASSUME EditInv, FreshInv, coordinator = "running", state = "Idle",
                      queued_tasks = <<>>, ~has_stale_bundle_output
               PROVE  /\ unscanned \ unreported \subseteq ReportedInMailbox
                      /\ unbuilt = {} \/ InMailbox("ModuleChanged")
    BY DEF FreshMeansFresh
  <2>1. /\ Sent(queued_tasks) = {} /\ ~Lagging /\ running = 0
        /\ state \notin {"FullBuildInProgress", "FullBuildFailed"}
    BY EmptySeq DEF Sent, Lagging, Building, EditInv, BaseInv, BuildInv, BuildsAccountedFor
  <2>2. \A f : ~Due(f)
    BY <2>1 DEF Due, Wanted, Asked, TaskAsked, Stashed
  <2>3. ~RebuildAhead
    BY <2>1 DEF RebuildAhead
  <2>4. ASSUME NEW f \in unscanned \ unreported PROVE f \in ReportedInMailbox
    <3>1. PICK m \in OfType(Sent(mailbox), "WatchEvent") : f \in m.files
      BY <2>2, <2>4 DEF FreshInv, Reported
    <3>2. PICK i \in DOMAIN mailbox : m = mailbox[i]
      BY <3>1 DEF OfType, Sent
    <3> QED BY <3>1, <3>2 DEF OfType, ReportedInMailbox
  <2>5. unbuilt = {} \/ InMailbox("ModuleChanged")
    BY <2>3 DEF FreshInv, InMailbox, OfType, Sent
  <2> QED BY <2>4, <2>5
<1>2. EditInv /\ FreshInv /\ [Next]_vars => EditInv' /\ FreshInv'
  BY NextEditInv, NextFreshInv
<1> QED BY <1>1, <1>2, InitEditInv, InitFreshInv, PTL DEF Spec


-----------------------------------------------------------------------------
(* The messages ahead of a request. *)

\* What the coordinator handles before the i-th message of q.
Before(q, i) == {q[j] : j \in 1 .. i - 1}

\* Sending puts the new message behind all others.
LEMMA BeforeAppend ==
  ASSUME NEW T, NEW q \in Seq(T), NEW m \in T
  PROVE  /\ DOMAIN Append(q, m) = DOMAIN q \cup {Len(q) + 1}
         /\ \A i \in DOMAIN q :
              Append(q, m)[i] = q[i] /\ Before(Append(q, m), i) = Before(q, i)
         /\ Append(q, m)[Len(q) + 1] = m
         /\ Before(Append(q, m), Len(q) + 1) = Sent(q)
<1>1. /\ DOMAIN q = 1 .. Len(q) /\ Len(q) \in Nat
      /\ DOMAIN Append(q, m) = 1 .. Len(q) + 1
      /\ \A i \in 1 .. Len(q) : Append(q, m)[i] = q[i]
      /\ Append(q, m)[Len(q) + 1] = m
  BY AppendProperties, LenProperties
<1>2. ASSUME NEW i \in DOMAIN q PROVE Before(Append(q, m), i) = Before(q, i)
  <2>1. \A j \in 1 .. i - 1 : j \in 1 .. Len(q)
    BY <1>1
  <2> QED BY <1>1, <2>1 DEF Before
<1>3. 1 .. (Len(q) + 1) - 1 = 1 .. Len(q)
  BY <1>1
<1>4. Before(Append(q, m), Len(q) + 1) = Sent(q)
  BY <1>1, <1>3 DEF Before, Sent
<1>5. DOMAIN Append(q, m) = DOMAIN q \cup {Len(q) + 1}
  BY <1>1
<1> QED BY <1>1, <1>2, <1>4, <1>5

\* Receiving takes the message ahead of all others.
LEMMA BeforeTail ==
  ASSUME NEW T, NEW q \in Seq(T), q # <<>>
  PROVE  /\ 1 \in DOMAIN q /\ q[1] = Head(q) /\ Before(q, 1) = {}
         /\ \A i \in DOMAIN Tail(q) :
              /\ i + 1 \in DOMAIN q
              /\ Tail(q)[i] = q[i + 1]
              /\ Before(q, i + 1) = {Head(q)} \cup Before(Tail(q), i)
<1>1. /\ DOMAIN q = 1 .. Len(q) /\ Len(q) \in Nat \ {0}
      /\ DOMAIN Tail(q) = 1 .. Len(q) - 1
      /\ \A i \in 1 .. Len(q) - 1 : Tail(q)[i] = q[i + 1]
      /\ Head(q) = q[1]
  BY HeadTailProperties, LenProperties, EmptySeq
<1>2. 1 \in DOMAIN q /\ Before(q, 1) = {}
  BY <1>1 DEF Before
<1>3. ASSUME NEW i \in DOMAIN Tail(q)
      PROVE  /\ i + 1 \in DOMAIN q
             /\ Before(q, i + 1) = {Head(q)} \cup Before(Tail(q), i)
  <2>1. i + 1 \in DOMAIN q /\ i \in Nat /\ (i + 1) - 1 = i
    BY <1>1
  <2>2. ASSUME NEW j \in 1 .. i PROVE q[j] \in {Head(q)} \cup Before(Tail(q), i)
    <3>1. CASE j = 1
      BY <1>1, <3>1
    <3>2. CASE j # 1
      <4>1. j - 1 \in 1 .. i - 1 /\ j - 1 \in 1 .. Len(q) - 1 /\ (j - 1) + 1 = j
        BY <1>1, <2>1, <3>2
      <4>2. Tail(q)[j - 1] = q[j]
        BY <1>1, <4>1
      <4> QED BY <4>1, <4>2 DEF Before
    <3> QED BY <3>1, <3>2
  <2>3. ASSUME NEW j \in 1 .. i - 1 PROVE Tail(q)[j] \in Before(q, i + 1)
    <3>1. j \in 1 .. Len(q) - 1 /\ j + 1 \in 1 .. (i + 1) - 1
      BY <1>1, <2>1
    <3> QED BY <1>1, <3>1 DEF Before
  <2>4. Head(q) \in Before(q, i + 1)
    <3>1. 1 \in 1 .. (i + 1) - 1
      BY <1>1, <2>1
    <3> QED BY <1>1, <3>1 DEF Before
  <2> QED BY <2>1, <2>2, <2>3, <2>4 DEF Before
<1> QED BY <1>1, <1>2, <1>3

-----------------------------------------------------------------------------
(* What a caller is owed, and what stands for it. *)

\* Nothing more has to happen to what was new when the call was made.
Settled(c) == call[c].owed_scan = {} /\ call[c].owed_build = {}

\* The running task is the one that was started for c: it scans nothing on its own
\* account, and leaves c settled unless it fails.
Serves(c) ==
  /\ running > 0
  /\ task.pc = "report" => task.rebuild_errored \/ Settled(c)
  /\ task.pc # "report" =>
       /\ task.pc \in {"hooks", "reload", "rebuild"}
       /\ task.input.kind \in {"Rebuild", "FullBuild"}
       /\ task.input.files = {}
       /\ task.input.kind = "Rebuild" => \A f \in call[c].owed_scan : Retry(f)

\* What c is owed is behind on disk or in the output, c has a build of its own, and
\* what it is told is true.
Honest(c) ==
  /\ call[c].owed_scan \subseteq unscanned \ unreported
  /\ call[c].owed_build \subseteq unbuilt
  /\ call[c].pc = "idle" => call[c].result = "none"
  /\ call[c].result = "fresh" => Settled(c)
  /\ call[c].pc = "await" /\ call[c].flag => Serves(c)

OwedInv == \A c \in Callers : Honest(c)

\* When the coordinator gets to a request that has the messages M ahead of it, what
\* the caller c is owed is due.
Pledged(c, M) ==
  /\ \A f \in call[c].owed_scan : Reported(f, M) \/ Due(f)
  /\ \A f \in call[c].owed_build :
       \/ Reported(f, M) \/ Due(f)
       \/ OfType(M, "ModuleChanged") # {} \/ RebuildAhead

\* So for every request in the mailbox.
AskedInv ==
  \A i \in DOMAIN mailbox :
    mailbox[i].type = "EnsureLatestBundleOutput" =>
      /\ call[mailbox[i].reply].pc # "idle"
      /\ coordinator = "running" => Pledged(mailbox[i].reply, Before(mailbox, i))

\* No call has been made at first.
LEMMA InitOwedInv == Init => OwedInv /\ AskedInv
<1> SUFFICES ASSUME Init PROVE OwedInv /\ AskedInv
  OBVIOUS
<1>1. \A c \in Callers : call[c] = IdleCall
  BY DEF Init, AllCalls
<1>2. DOMAIN mailbox = {}
  BY EmptySeq DEF Init
<1> QED BY <1>1, <1>2 DEF OwedInv, AskedInv, Honest, IdleCall, Settled

\* A scan of the files R settles what is owed of them, up to the output.
LEMMA ScanOwed ==
  ASSUME TypeOK, NEW R, call' = OwedAfterScan(R), NEW c \in Callers
  PROVE  /\ call'[c].pc = call[c].pc /\ call'[c].flag = call[c].flag
         /\ call'[c].result = call[c].result
         /\ call'[c].owed_scan = call[c].owed_scan \ R
         /\ call'[c].owed_build = call[c].owed_build \cup (call[c].owed_scan \cap R)
<1>1. c \in AllCalls /\ call[c] \in Calls
  BY DEF TypeOK, AllCalls
<1>2. call'[c] = [call[c] EXCEPT !.owed_scan = @ \ R,
                                 !.owed_build = @ \cup (call[c].owed_scan \cap R)]
  BY <1>1 DEF OwedAfterScan
<1> QED BY <1>1, <1>2 DEF Calls

\* A build settles the output too.
LEMMA BuildOwed ==
  ASSUME TypeOK, NEW R, call' = OwedAfterBuild(R), NEW c \in Callers
  PROVE  /\ call'[c].pc = call[c].pc /\ call'[c].flag = call[c].flag
         /\ call'[c].result = call[c].result
         /\ call'[c].owed_scan = call[c].owed_scan \ R
         /\ call'[c].owed_build = {}
<1>1. c \in AllCalls /\ call[c] \in Calls
  BY DEF TypeOK, AllCalls
<1>2. call'[c] = [call[c] EXCEPT !.owed_scan = @ \ R, !.owed_build = {}]
  BY <1>1 DEF OwedAfterBuild
<1> QED BY <1>1, <1>2 DEF Calls

-----------------------------------------------------------------------------
(* Calls that a step leaves alone, and calls that it only moves on. *)

\* The step does nothing that a caller could notice but through its own record.
NothingRead ==
  /\ UNCHANGED <<unscanned, unreported, unbuilt>>
  /\ UNCHANGED <<has_snapshot, pending_rescans, loaded, fetched>>
  /\ UNCHANGED taskVars \/ running = 0

\* A caller that it leaves alone is served as before.
LEMMA KeptCall ==
  ASSUME NothingRead, NEW c, Honest(c), call'[c] = call[c]
  PROVE  Honest(c)'
<1>1. Settled(c)' <=> Settled(c)
  BY DEF Settled
<1>2. UNCHANGED <<unscanned, unreported, unbuilt>>
  BY DEF NothingRead
<1>3. CASE UNCHANGED taskVars
  <2>1. Serves(c) => Serves(c)'
    BY <1>1, <1>3 DEF NothingRead, Serves, Retry, Reopened, taskVars
  <2> QED BY <1>1, <1>2, <2>1 DEF Honest
<1>4. CASE running = 0
  <2>1. ~Serves(c)
    BY <1>4 DEF Serves
  <2> QED BY <1>1, <1>2, <2>1 DEF Honest
<1> QED BY <1>3, <1>4 DEF NothingRead

\* So is one that it moves on without a build of its own, if it is told the truth.
LEMMA MovedCall ==
  ASSUME UNCHANGED <<unscanned, unreported, unbuilt>>, NEW c, Honest(c),
         call'[c].owed_scan = call[c].owed_scan, call'[c].owed_build = call[c].owed_build,
         call'[c].pc # "idle", ~(call'[c].pc = "await" /\ call'[c].flag),
         call'[c].result = "fresh" => Settled(c)
  PROVE  Honest(c)'
BY DEF Honest, Settled

\* A call that is moved on keeps what it is owed, and the others are left alone.
OnlyMoves(c) ==
  /\ \A d \in Callers : d # c => call'[d] = call[d]
  /\ call'[c].owed_scan = call[c].owed_scan
  /\ call'[c].owed_build = call[c].owed_build

\* The record of a call that has got a future to await.
LEMMA AwaitingRecord ==
  ASSUME TypeOK, NEW c \in AllCalls, NEW flag \in BOOLEAN, call' = Awaiting(c, flag)
  PROVE  /\ OnlyMoves(c)
         /\ call'[c].result = call[c].result
         /\ call'[c].pc = IF running' = 0 THEN "woken" ELSE "await"
         /\ call'[c].flag = flag
<1>1. call \in [AllCalls -> Calls] /\ call[c] \in Calls
  BY DEF TypeOK
<1> QED BY <1>1 DEF Awaiting, Calls, OnlyMoves, AllCalls

\* The record of a call that has returned.
LEMMA EndedRecord ==
  ASSUME TypeOK, NEW c \in AllCalls, NEW result, call' = Ended(c, result)
  PROVE  /\ OnlyMoves(c)
         /\ call'[c].result = result
         /\ call'[c].pc = "done"
<1>1. call \in [AllCalls -> Calls] /\ call[c] \in Calls
  BY DEF TypeOK
<1> QED BY <1>1 DEF Ended, Calls, OnlyMoves, AllCalls

-----------------------------------------------------------------------------
(* The coordinator's answers. *)

\* Handlers leave the files and the graph alone, and start a task when none runs.
LEMMA HandlerReadsNothing ==
  ASSUME BaseInv, Handle
  PROVE  NothingRead
<1> USE DEF BaseInv
<1>1. CASE \E kind \in PlainKinds : PlainHandling(kind)
  <2>1. PICK kind \in PlainKinds : PlainHandling(kind)
    BY <1>1
  <2>2. UNCHANGED taskVars \/ state \notin Building
    BY <2>1 DEF PlainHandling, Outcome
  <2>3. state \notin Building => running = 0
    BY <2>1, CompletionPending DEF PlainHandling, Received
  <2> QED BY <2>1, <2>2, <2>3 DEF PlainHandling, NothingRead, graphVars, fileVars
<1>2. CASE HandleBundleCompleted
  BY <1>2, CompletionHandled DEF HandleBundleCompleted, NothingRead, graphVars, fileVars
<1>3. CASE HandleClose
  BY <1>3 DEF HandleClose, LeaveLoop, NothingRead, graphVars, fileVars
<1> QED BY <1>1, <1>2, <1>3, PlainHandlers

\* The rebuild for a page load, when it is all that is queued.
LEMMA EnsureTask ==
  ASSUME TypeOK, running = 0,
         schedule_build_if_stale("Idle", last_error_stage, <<Rebuild({})>>,
                                 current_bundling_future)
  PROVE  /\ running' = 1
         /\ task'.pc = "hooks" /\ task'.input.kind = "Rebuild" /\ task'.input.files = {}
<1> DEFINE q == <<Rebuild({})>>
<1>1. q # <<>> /\ q \in Seq(TaskInputs) /\ Len(q) = 1 /\ q[1] = Rebuild({})
  BY QueuedInputs
<1>2. StartTask(q, "None")
  BY <1>1 DEF schedule_build_if_stale, Building
<1>3. MergedCount(q) \in 1 .. Len(q)
  BY <1>1, MergedCountExists
<1>4. MergedCount(q) = 1
  BY <1>1, <1>3
<1>5. \A i \in 1 .. 1 : i = 1
  OBVIOUS
<1>6. MergedTask(q).kind = "Rebuild" /\ MergedTask(q).files = {}
  BY <1>1, <1>4, <1>5 DEF MergedTask, Rebuild
<1>7. running' = 1 /\ task' = NewTask(MergedTask(q))
  BY <1>2 DEF StartTask
<1> QED BY <1>6, <1>7 DEF NewTask, NoTask

\* ensure_latest_bundle_output (BundleCoordinator) answers fresh only to a caller
\* that is settled, and starts a build that settles it otherwise, or tells it to
\* wait and ask again.
LEMMA EnsureKeepsOwed ==
  ASSUME BaseInv, OwedInv, AskedInv, HandleEnsureLatestBundleOutput
  PROVE  OwedInv'
<1> USE DEF BaseInv
<1>0. /\ coordinator = "running" /\ mailbox # <<>> /\ mailbox \in Seq(Msgs)
      /\ Head(mailbox).type = "EnsureLatestBundleOutput"
      /\ Head(mailbox) \in Msgs
  BY ReceivedType DEF HandleEnsureLatestBundleOutput, Received, TypeOK
<1>1. PICK c \in Callers : c = Head(mailbox).reply /\ c \in AllCalls
  BY <1>0, MsgFields DEF AllCalls
<1>2. Pledged(c, {})
  <2>1. 1 \in DOMAIN mailbox /\ mailbox[1] = Head(mailbox) /\ Before(mailbox, 1) = {}
    BY <1>0, BeforeTail
  <2> QED BY <1>0, <1>1, <2>1 DEF AskedInv
<1>3. NothingRead
  BY HandlerReadsNothing DEF Handle
<1>4. UNCHANGED <<unscanned, unreported, unbuilt>>
  BY <1>3 DEF NothingRead
<1>5. ASSUME state = "Idle"
      PROVE  running = 0 /\ \A d \in Callers : ~Serves(d)
  BY <1>0, <1>5, CompletionPending DEF Building, Serves
<1>6. ASSUME state = "Idle", queued_tasks = <<>>
      PROVE  /\ \A f : Due(f) => Retry(f) /\ has_stale_bundle_output
             /\ RebuildAhead => has_stale_bundle_output
  <2>1. Sent(queued_tasks) = {} /\ (Lagging <=> has_stale_bundle_output)
    BY <1>6, EmptySeq DEF Sent, Lagging, Building
  <2> QED BY <1>5, <1>6, <2>1 DEF Due, Wanted, Asked, TaskAsked, Stashed, RebuildAhead
<1>7. ASSUME OnlyMoves(c), Honest(c)' PROVE OwedInv'
  BY <1>3, <1>7, KeptCall DEF OwedInv, OnlyMoves
<1>8. Honest(c)
  BY <1>1 DEF OwedInv
<1>9. CASE /\ state = "Idle" /\ queued_tasks = <<>> /\ has_stale_bundle_output
           /\ schedule_build_if_stale(state, last_error_stage, <<Rebuild({})>>,
                                      current_bundling_future)
           /\ call' = Awaiting(c, TRUE)
  <2>1. /\ running' = 1
        /\ task'.pc = "hooks" /\ task'.input.kind = "Rebuild" /\ task'.input.files = {}
    BY <1>5, <1>9, EnsureTask
  <2>2. \A f \in call[c].owed_scan : Retry(f)
    BY <1>2, <1>6, <1>9 DEF Pledged, Reported, OfType
  <2>3. /\ OnlyMoves(c)
        /\ call'[c].result = call[c].result /\ call'[c].pc = "await"
    <3>1. PICK flag \in BOOLEAN : call' = Awaiting(c, flag)
      BY <1>9
    <3>2. OnlyMoves(c) /\ call'[c].result = call[c].result
          /\ call'[c].pc = IF running' = 0 THEN "woken" ELSE "await"
      BY <1>1, <3>1, AwaitingRecord
    <3> QED BY <2>1, <3>2
  <2>4. \A f : Retry(f)' <=> Retry(f)
    BY <1>3 DEF NothingRead, Retry, Reopened
  <2>5. Serves(c)'
    BY <2>1, <2>2, <2>3, <2>4 DEF Serves, OnlyMoves
  <2>6. Honest(c)'
    BY <1>4, <1>8, <2>3, <2>5 DEF Honest, Settled, OnlyMoves
  <2> QED BY <1>7, <2>3, <2>6
<1>10. CASE /\ state = "Idle" /\ queued_tasks = <<>> /\ ~has_stale_bundle_output
            /\ call' = Ended(c, "fresh")
  <2>1. Settled(c)
    BY <1>2, <1>6, <1>10 DEF Pledged, Reported, OfType, Settled
  <2>2. OnlyMoves(c) /\ call'[c].pc = "done"
    BY <1>1, <1>10, EndedRecord
  <2>3. Honest(c)'
    BY <1>4, <1>8, <2>1, <2>2, MovedCall DEF OnlyMoves
  <2> QED BY <1>7, <2>2, <2>3
<1>11. CASE call' = Awaiting(c, FALSE)
  <2>1. /\ OnlyMoves(c)
        /\ call'[c].result = call[c].result /\ call'[c].flag = FALSE
        /\ call'[c].pc \in {"woken", "await"}
    BY <1>1, <1>11, AwaitingRecord
  <2>2. Honest(c)'
    BY <1>4, <1>8, <2>1, MovedCall DEF Honest, OnlyMoves
  <2> QED BY <1>7, <2>1, <2>2
<1>12. CASE call' = Ended(c, "failed")
  <2>1. OnlyMoves(c) /\ call'[c].pc = "done" /\ call'[c].result = "failed"
    BY <1>1, <1>12, EndedRecord
  <2>2. Honest(c)'
    BY <1>4, <1>8, <2>1, MovedCall DEF OnlyMoves
  <2> QED BY <1>7, <2>1, <2>2
<1> QED BY <1>1, <1>9, <1>10, <1>11, <1>12 DEF HandleEnsureLatestBundleOutput

\* The other messages are not about callers.
LEMMA HandlerKeepsOwed ==
  ASSUME BaseInv, OwedInv, AskedInv, Handle
  PROVE  OwedInv'
<1>0. NothingRead
  BY HandlerReadsNothing
<1>1. CASE HandleEnsureLatestBundleOutput
  BY <1>1, EnsureKeepsOwed
<1>2. CASE HandleGetState
  <2>1. Head(mailbox).reply \in Waiters
    BY <1>2, ReceivedType, MsgFields DEF BaseInv, HandleGetState
  <2>2. \A d \in Callers : call'[d] = call[d]
    <3>1. PICK c \in AllCalls : c = Head(mailbox).reply /\ c \notin Callers
      BY <2>1, ConstantsAssumption DEF AllCalls
    <3>2. call' = Awaiting(c, FALSE) \/ call' = Ended(c, "waited")
      BY <1>2, <3>1 DEF HandleGetState
    <3>3. OnlyMoves(c)
      BY <3>1, <3>2, AwaitingRecord, EndedRecord DEF BaseInv
    <3> QED BY <3>1, <3>3 DEF OnlyMoves
  <2> QED BY <1>0, <2>2, KeptCall DEF OwedInv
<1>3. CASE UNCHANGED call
  BY <1>0, <1>3, KeptCall DEF OwedInv
<1> QED BY <1>1, <1>2, <1>3 DEF Handle, HandleWatchEvent, HandleBundleCompleted,
        HandleModuleChanged, HandleTriggerFullBuild, HandleClose, LeaveLoop

-----------------------------------------------------------------------------
(* Scans and builds under a caller. *)

\* A scan of the files R moves what is owed along with the files.
LEMMA ScannedCall ==
  ASSUME TypeOK, NEW R, call' = OwedAfterScan(R), NEW c \in Callers, Honest(c),
         unscanned' = unscanned \ R, unreported' = unreported \ R,
         unbuilt \cup (call[c].owed_scan \cap R) \subseteq unbuilt',
         call[c].pc = "await" /\ call[c].flag => Serves(c)'
  PROVE  Honest(c)'
<1>1. /\ call'[c].pc = call[c].pc /\ call'[c].flag = call[c].flag
      /\ call'[c].result = call[c].result
      /\ call'[c].owed_scan = call[c].owed_scan \ R
      /\ call'[c].owed_build = call[c].owed_build \cup (call[c].owed_scan \cap R)
  BY ScanOwed
<1>2. Settled(c) => Settled(c)'
  BY <1>1 DEF Settled
<1> QED BY <1>1, <1>2 DEF Honest

\* A build that reads R and writes the output settles what is owed of both.
LEMMA BuiltCall ==
  ASSUME TypeOK, NEW R, call' = OwedAfterBuild(R), NEW c \in Callers, Honest(c),
         unscanned' = unscanned \ R, unreported' = unreported \ R,
         call[c].pc = "await" /\ call[c].flag => Serves(c)'
  PROVE  Honest(c)'
<1>1. /\ call'[c].pc = call[c].pc /\ call'[c].flag = call[c].flag
      /\ call'[c].result = call[c].result
      /\ call'[c].owed_scan = call[c].owed_scan \ R
      /\ call'[c].owed_build = {}
  BY BuildOwed
<1>2. Settled(c) => Settled(c)'
  BY <1>1 DEF Settled
<1> QED BY <1>1, <1>2 DEF Honest

\* The hooks and the reload decision: the build for a page load goes straight to
\* its rebuild.
LEMMA DecisionKeepsOwed ==
  ASSUME BaseInv, OwedInv, RunWatchChange \/ DecideReload
  PROVE  OwedInv'
<1> USE DEF BaseInv
<1>0. task \in Tasks /\ task.input \in TaskInputs
  BY TaskStepFrame DEF RunTask
<1>1. /\ UNCHANGED <<call, running, unscanned, unreported, unbuilt>>
      /\ UNCHANGED <<has_snapshot, pending_rescans, loaded, fetched>>
      /\ task.pc # "report"
  BY DEF RunWatchChange, DecideReload, graphVars, fileVars, TaskAt
<1>2. ASSUME NEW c \in Callers, Serves(c) PROVE Serves(c)'
  <2>1. /\ task.input.kind \in {"Rebuild", "FullBuild"} /\ task.input.files = {}
        /\ running > 0
    BY <1>1, <1>2 DEF Serves
  <2>2. \/ task'.pc = "reload" /\ task'.input = task.input
        \/ task'.pc = "rebuild" /\ task'.input \in {task.input, FullBuild}
    <3>1. CASE RunWatchChange
      BY <1>0, <2>1, <3>1 DEF RunWatchChange, changed_files, Tasks
    <3>2. CASE DecideReload
      <4>1. PICK input \in {task.input, FullBuild} :
              task' = [task EXCEPT !.pc = AfterReload(input), !.input = input]
        BY <3>2 DEF DecideReload
      <4>2. task'.pc = AfterReload(input) /\ task'.input = input
        BY <1>0, <4>1 DEF Tasks
      <4>3. AfterReload(input) = "rebuild"
        BY <2>1, <4>1, QueuedInputs DEF AfterReload, require_generate_hmr_update,
           requires_rebuild
      <4> QED BY <4>1, <4>2, <4>3
    <3> QED BY <3>1, <3>2
  <2>3. FullBuild.kind = "FullBuild" /\ FullBuild.files = {}
    BY DEF FullBuild
  <2> QED BY <1>1, <1>2, <2>1, <2>2, <2>3 DEF Serves, Retry, Reopened
<1>3. ASSUME NEW c \in Callers PROVE Honest(c)'
  BY <1>1, <1>2 DEF OwedInv, Honest, Settled
<1> QED BY <1>3 DEF OwedInv

\* The HMR stage belongs to no page load.
LEMMA HmrKeepsOwed ==
  ASSUME BaseInv, OwedInv, GenerateHmrUpdates
  PROVE  OwedInv'
<1> USE DEF BaseInv
<1> DEFINE S == IF has_snapshot THEN PartialScanSet(task.input) ELSE {}
<1>1. \A c \in Callers : ~Serves(c)
  BY DEF Serves, GenerateHmrUpdates, TaskAt
<1>2. CASE ScanFailed
  BY <1>1, <1>2 DEF ScanFailed, OwedInv, Honest, Settled
<1>3. ASSUME NEW G, MergeScan(S, G), unbuilt' = GraphAhead(S, G),
             call' = OwedAfterScan(S \cup G), NEW c \in Callers
      PROVE  Honest(c)'
  <2>1. /\ unscanned' = unscanned \ (S \cup G) /\ unreported' = unreported \ (S \cup G)
        /\ unbuilt \cup (call[c].owed_scan \cap (S \cup G)) \subseteq unbuilt'
    BY <1>3 DEF MergeScan, GraphAhead, OwedInv, Honest
  <2> QED BY <1>1, <1>3, <2>1, ScannedCall DEF OwedInv, Honest
<1> QED BY <1>2, <1>3 DEF GenerateHmrUpdates, OwedInv

\* A rebuild that succeeds settles the caller it was started for, because it reads
\* what an aborted scan left behind, or everything.
LEMMA RebuildKeepsOwed ==
  ASSUME BaseInv, GraphInv, OwedInv, RunRebuild
  PROVE  OwedInv'
<1> USE DEF BaseInv
<1> DEFINE S == PartialScanSet(task.input)
<1>0. /\ task \in Tasks /\ task.input \in TaskInputs /\ running' = running /\ running > 0
      /\ task.pc = "rebuild"
  BY TaskStepFrame DEF RunTask, RunRebuild, TaskAt
<1>1. \A failed \in BOOLEAN :
        Rebuilt(failed) => task'.pc = "report" /\ task'.rebuild_errored = failed
  BY <1>0 DEF Rebuilt, Tasks
<1>2. \A c \in Callers :
        /\ call[c].owed_scan \subseteq Reachable
        /\ call[c].owed_scan \subseteq unscanned
  BY DEF OwedInv, Honest, GraphInv, Known
<1>3. ASSUME Rebuilt(TRUE) PROVE \A c : Serves(c)'
  BY <1>0, <1>1, <1>3 DEF Serves
<1>4. CASE Rebuilt(TRUE) /\ ScanFailed
  BY <1>3, <1>4 DEF ScanFailed, OwedInv, Honest, Settled
<1>5. ASSUME Rebuilt(TRUE), NEW R, unscanned' = unscanned \ R, unreported' = unreported \ R,
             \A c \in Callers : unbuilt \cup (call[c].owed_scan \cap R) \subseteq unbuilt',
             call' = OwedAfterScan(R), NEW c \in Callers
      PROVE  Honest(c)'
  BY <1>3, <1>5, ScannedCall DEF OwedInv
<1>6. ASSUME Rebuilt(FALSE), NEW R, unscanned' = unscanned \ R, unreported' = unreported \ R,
             call' = OwedAfterBuild(R), NEW c \in Callers,
             Serves(c) => call[c].owed_scan \subseteq R
      PROVE  Honest(c)'
  <2>1. Serves(c) => Settled(c)'
    BY <1>6, BuildOwed DEF Settled
  <2>2. Serves(c) => Serves(c)'
    BY <1>0, <1>1, <1>6, <2>1 DEF Serves
  <2> QED BY <1>6, <2>2, BuiltCall DEF OwedInv, Honest
<1>7. CASE FullScanBuild
  <2>1. ASSUME NEW G, MergeScan(Reachable, Reachable \cup G),
               \/ Rebuilt(FALSE) /\ call' = OwedAfterBuild(Reachable \cup G)
               \/ /\ Rebuilt(TRUE) /\ call' = OwedAfterScan(Reachable \cup G)
                  /\ unbuilt' = GraphAhead(Reachable, (Reachable \cup G) \ loaded)
        PROVE  OwedInv'
    <3> DEFINE R == Reachable \cup G
    <3>1. unscanned' = unscanned \ R /\ unreported' = unreported \ R
      BY <2>1 DEF MergeScan
    <3>2. CASE Rebuilt(FALSE) /\ call' = OwedAfterBuild(R)
      BY <1>2, <1>6, <3>1, <3>2 DEF OwedInv
    <3>3. CASE /\ Rebuilt(TRUE) /\ call' = OwedAfterScan(R)
               /\ unbuilt' = GraphAhead(Reachable, R \ loaded)
      <4>1. \A c \in Callers : unbuilt \cup (call[c].owed_scan \cap R) \subseteq unbuilt'
        BY <1>2, <3>3 DEF GraphAhead
      <4> QED BY <1>5, <3>1, <3>3, <4>1 DEF OwedInv
    <3> QED BY <2>1, <3>2, <3>3
  <2> QED BY <1>4, <1>7, <2>1 DEF FullScanBuild
<1>8. CASE PartialScanBuild /\ has_snapshot /\ ~requires_full_rebuild(task.input)
  <2>1. ASSUME NEW G \in PulledIn(S), MergeScan(S, G),
               \/ Rebuilt(FALSE) /\ call' = OwedAfterBuild(S \cup G)
               \/ /\ Rebuilt(TRUE) /\ call' = OwedAfterScan(S \cup G)
                  /\ unbuilt' = GraphAhead(S, G)
        PROVE  OwedInv'
    <3> DEFINE R == S \cup G
    <3>1. unscanned' = unscanned \ R /\ unreported' = unreported \ R
      BY <2>1 DEF MergeScan
    <3>2. CASE Rebuilt(FALSE) /\ call' = OwedAfterBuild(R)
      <4>1. pending_rescans \subseteq S
        BY DEF PartialScanSet
      <4>2. ASSUME NEW c \in Callers, Serves(c) PROVE call[c].owed_scan \subseteq R
        <5>1. \A f \in call[c].owed_scan : Retry(f)
          BY <1>0, <1>8, <4>2 DEF Serves, requires_full_rebuild
        <5>2. \A f \in call[c].owed_scan : f \in pending_rescans \/ Reopened(f)
          BY <1>8, <5>1 DEF Retry
        <5> HIDE DEF S
        <5> QED BY <2>1, <4>1, <5>2, ReopenedIsLoaded
      <4> QED BY <1>6, <3>1, <3>2, <4>2 DEF OwedInv
    <3>3. CASE Rebuilt(TRUE) /\ call' = OwedAfterScan(R) /\ unbuilt' = GraphAhead(S, G)
      <4>1. \A c \in Callers : unbuilt \cup (call[c].owed_scan \cap R) \subseteq unbuilt'
        BY <1>2, <3>3 DEF GraphAhead
      <4> QED BY <1>5, <3>1, <3>3, <4>1 DEF OwedInv
    <3> QED BY <2>1, <3>2, <3>3
  <2> QED BY <1>4, <1>8, <2>1 DEF PartialScanBuild
<1> QED BY <1>7, <1>8 DEF RunRebuild

\* The end of a task wakes those who await it; the caller it was started for is
\* told that the output is fresh only after a rebuild without error.
LEMMA ReportKeepsOwed ==
  ASSUME BaseInv, OwedInv, ReportCompletion
  PROVE  OwedInv'
<1> USE DEF BaseInv
<1> DEFINE stage == final_error_stage(task)
<1>1. /\ call' = Woken(stage) /\ task.pc = "report"
      /\ UNCHANGED <<unscanned, unreported, unbuilt>>
  BY DEF ReportCompletion, TaskEnds, TaskAt, fileVars
<1>2. stage = "None" => ~task.rebuild_errored
  BY DEF final_error_stage
<1> HIDE DEF stage
<1>3. ASSUME NEW c \in Callers PROVE Honest(c)'
  <2>0. c \in AllCalls /\ call[c] \in Calls /\ Honest(c)
    BY DEF AllCalls, TypeOK, OwedInv
  <2>1. CASE call[c].pc # "await"
    <3>1. call'[c] = call[c]
      BY <1>1, <2>0, <2>1 DEF Woken
    <3> QED BY <1>1, <2>0, <2>1, <3>1 DEF Honest, Settled
  <2>2. CASE call[c].pc = "await"
    <3>1. call'[c] = [call[c] EXCEPT !.pc = "woken",
                        !.result = IF ~call[c].flag THEN @
                                   ELSE IF stage = "None" THEN "fresh" ELSE "failed"]
      BY <1>1, <2>0, <2>2 DEF Woken
    <3>2. /\ call'[c].owed_scan = call[c].owed_scan /\ call'[c].owed_build = call[c].owed_build
          /\ call'[c].pc = "woken"
          /\ call'[c].result = IF ~call[c].flag THEN call[c].result
                               ELSE IF stage = "None" THEN "fresh" ELSE "failed"
      BY <2>0, <3>1 DEF Calls
    <3>3. call'[c].result = "fresh" => Settled(c)
      BY <1>1, <1>2, <2>0, <2>2, <3>2 DEF Honest, Serves
    <3> QED BY <1>1, <2>0, <3>2, <3>3, MovedCall
  <2> QED BY <2>1, <2>2
<1> QED BY <1>3 DEF OwedInv

\* A lazy compile that runs before the build of a page load takes over what that
\* build was to scan.
LEMMA LazyKeepsOwed ==
  ASSUME BaseInv, OwedInv, NEW p \in Proxies, CompileLazyEntry(p)
  PROVE  OwedInv'
<1> USE DEF BaseInv
<1> DEFINE S == {p} \cup pending_rescans
<1>0. UNCHANGED <<task, running, has_snapshot>> /\ fetched \subseteq fetched'
  BY DEF CompileLazyEntry, taskVars
<1>1. CASE ScanFailed /\ pending_rescans \subseteq pending_rescans'
  <2>1. \A f : Retry(f) => Retry(f)'
    BY <1>0, <1>1 DEF Retry, Reopened, ScanFailed
  <2>2. UNCHANGED <<call, unscanned, unreported, unbuilt>>
    BY <1>1 DEF ScanFailed
  <2>3. \A c \in Callers : Serves(c) => Serves(c)'
    BY <1>0, <2>1, <2>2 DEF Serves, Settled
  <2> QED BY <2>2, <2>3 DEF OwedInv, Honest, Settled
<1>2. ASSUME has_snapshot, NEW new \in PulledIn(S), NEW G,
             G = new \cup ({Target[p]} \ loaded), MergeScan(S, G),
             unbuilt' = GraphAhead(S, G), call' = OwedAfterScan(S \cup G), NEW c \in Callers
      PROVE  Honest(c)'
  <2>1. /\ unscanned' = unscanned \ (S \cup G) /\ unreported' = unreported \ (S \cup G)
        /\ unbuilt \cup (call[c].owed_scan \cap (S \cup G)) \subseteq unbuilt'
    BY <1>2 DEF MergeScan, GraphAhead, OwedInv, Honest
  <2>2. /\ call'[c].owed_scan = call[c].owed_scan \ (S \cup G)
        /\ call'[c].owed_build = call[c].owed_build \cup (call[c].owed_scan \cap (S \cup G))
    BY <1>2, ScanOwed
  <2>3. pending_rescans \subseteq S
    OBVIOUS
  <2> HIDE DEF S
  <2>4. \A f : Retry(f) => f \in S \cup G
    BY <1>2, <2>3, ReopenedIsLoaded DEF Retry
  <2>5. Serves(c) => Serves(c)'
    BY <1>0, <2>2, <2>4 DEF Serves, Settled
  <2> QED BY <1>2, <2>1, <2>5, ScannedCall DEF OwedInv, Honest
<1>3. CASE /\ has_snapshot
           /\ \E new \in PulledIn(S) :
                LET G == new \cup ({Target[p]} \ loaded) IN
                /\ MergeScan(S, G) /\ unbuilt' = GraphAhead(S, G)
                /\ call' = OwedAfterScan(S \cup G)
  BY <1>2, <1>3 DEF OwedInv
<1> QED BY <1>1, <1>3 DEF CompileLazyEntry, RequeueRescans

\* What a caller is owed is watched, so an edit of it is reported.
LEMMA EditKeepsOwed ==
  ASSUME BaseInv, GraphInv, OwedInv, NEW e \in Files, Edit(e)
  PROVE  OwedInv'
<1>1. Bystander /\ UNCHANGED <<call, unbuilt>>
  BY Bystanders DEF BaseInv, Edit
<1>2. UNCHANGED taskVars /\ \A f : Retry(f) <=> Retry(f)'
  BY <1>1, BystanderKeepsDue DEF BaseInv
<1>3. \A c \in Callers : Serves(c) => Serves(c)'
  BY <1>1, <1>2 DEF Serves, Settled, taskVars
<1>4. \A c \in Callers : call[c].owed_scan \subseteq unscanned' \ unreported'
  <2>1. \A c \in Callers : call[c].owed_scan \subseteq watched /\
                           call[c].owed_scan \subseteq unscanned \ unreported
    BY DEF OwedInv, Honest, GraphInv
  <2> QED BY <2>1 DEF Edit
<1> QED BY <1>1, <1>3, <1>4 DEF OwedInv, Honest, Settled

\* What the calls themselves do: they write down what they are owed, send, return.
LEMMA CallKeepsOwed ==
  ASSUME BaseInv, OwedInv, NEW c \in AllCalls, BeginCall(c) \/ StepCall(c)
  PROVE  OwedInv'
<1> USE DEF BaseInv
<1>0. NothingRead
  BY DEF BeginCall, StepCall, SendEnsure, SendGetState, ReplyDropped, Resume, NothingRead,
         graphVars, fileVars
<1>1. UNCHANGED <<unscanned, unreported, unbuilt>>
  BY <1>0 DEF NothingRead
<1>2. call \in [AllCalls -> Calls] /\ call[c] \in Calls
  BY DEF TypeOK
<1>3. \A d \in Callers : d # c => call'[d] = call[d]
  BY <1>2 DEF BeginCall, StepCall, SendEnsure, SendGetState, ReplyDropped, Resume, Ended,
     AllCalls
<1>4. SUFFICES ASSUME c \in Callers PROVE Honest(c)'
  BY <1>0, <1>3, KeptCall DEF OwedInv
<1>5. Honest(c)
  BY <1>4 DEF OwedInv
<1>6. CASE BeginCall(c)
  <2>1. /\ call'[c].pc = "send" /\ call'[c].result = call[c].result
        /\ call'[c].owed_scan = unscanned \ unreported /\ call'[c].owed_build = unbuilt
        /\ call[c].pc = "idle"
    BY <1>2, <1>4, <1>6 DEF BeginCall, Calls, Owed
  <2> QED BY <1>1, <1>5, <2>1 DEF Honest
<1>7. CASE StepCall(c)
  <2>1. /\ call'[c].owed_scan = call[c].owed_scan /\ call'[c].owed_build = call[c].owed_build
        /\ call'[c].pc \in {"send", "reply", "done"}
        /\ call'[c].result \in {call[c].result, "limit", "closed"}
    <3>1. c \notin Waiters
      BY <1>4, ConstantsAssumption
    <3> QED BY <1>2, <1>7, <3>1 DEF StepCall, SendEnsure, SendGetState, ReplyDropped, Resume,
            Ended, Calls
  <2> QED BY <1>1, <1>5, <2>1, MovedCall DEF Honest
<1> QED BY <1>6, <1>7

\* No step of the engine breaks the invariant.
LEMMA NextOwedInv ==
  ASSUME BaseInv, GraphInv, OwedInv, AskedInv, [Next]_vars
  PROVE  OwedInv'
<1> USE DEF BaseInv
<1>1. CASE Start
  <2>1. NothingRead /\ UNCHANGED call
    BY <1>1, StartOutcome DEF NothingRead, Start, graphVars, fileVars
  <2> QED BY <2>1, KeptCall DEF OwedInv
<1>2. CASE Terminate
  <2>1. NothingRead /\ UNCHANGED call
    BY <1>2 DEF NothingRead, Terminate, graphVars, fileVars
  <2> QED BY <2>1, KeptCall DEF OwedInv
<1>3. CASE RunTask
  BY <1>3, DecisionKeepsOwed, HmrKeepsOwed, RebuildKeepsOwed, ReportKeepsOwed DEF RunTask
<1>4. CASE \E c \in AllCalls : BeginCall(c) \/ StepCall(c)
  BY <1>4, CallKeepsOwed
<1>5. CASE \/ \E p \in Proxies : RequestLazy(p)
           \/ TriggerFullBuild \/ CallClose \/ CloseSteps
           \/ UNCHANGED vars
  <2>1. NothingRead /\ UNCHANGED call
    BY <1>5 DEF NothingRead, RequestLazy, TriggerFullBuild, CallClose, CloseSteps,
       CloseLocksBundler, CloseReleasesBundler, CloseReturns, vars, graphVars, fileVars
  <2> QED BY <2>1, KeptCall DEF OwedInv
<1> QED BY <1>1, <1>2, <1>3, <1>4, <1>5, HandlerKeepsOwed, LazyKeepsOwed, EditKeepsOwed
        DEF Next, Environment

-----------------------------------------------------------------------------
(* Requests that wait in the mailbox. *)

\* A message that is no request leaves the requests where they are.
LEMMA OldRequests ==
  ASSUME TypeOK, AskedInv,
         \/ UNCHANGED mailbox
         \/ \E m \in Msgs : m.type # "EnsureLatestBundleOutput" /\ Post(m),
         NEW i \in DOMAIN mailbox', mailbox'[i].type = "EnsureLatestBundleOutput"
  PROVE  /\ i \in DOMAIN mailbox /\ mailbox'[i] = mailbox[i]
         /\ Before(mailbox', i) = Before(mailbox, i)
         /\ mailbox[i].reply \in Callers
<1>0. mailbox \in Seq(Msgs)
  BY DEF TypeOK
<1>1. /\ i \in DOMAIN mailbox /\ mailbox'[i] = mailbox[i]
      /\ Before(mailbox', i) = Before(mailbox, i)
  <2>1. CASE UNCHANGED mailbox
    BY <2>1
  <2>2. CASE \E m \in Msgs : m.type # "EnsureLatestBundleOutput" /\ Post(m)
    BY <1>0, <2>2, BeforeAppend DEF Post
  <2> QED BY <2>1, <2>2
<1>2. mailbox[i] \in Msgs
  BY <1>0, <1>1
<1> QED BY <1>1, <1>2, MsgFields

\* What the caller c is owed after the step is due, given the messages M.
StillPledged(c, M) ==
  /\ \A f \in call'[c].owed_scan : Reported(f, M) \/ Due(f)'
  /\ \A f \in call'[c].owed_build :
       \/ Reported(f, M) \/ Due(f)'
       \/ OfType(M, "ModuleChanged") # {} \/ RebuildAhead'

\* That is what the invariant asks of every request.
LEMMA RequestsPledged ==
  ASSUME \A i \in DOMAIN mailbox' :
           mailbox'[i].type = "EnsureLatestBundleOutput" =>
             /\ call'[mailbox'[i].reply].pc # "idle"
             /\ coordinator' = "running" =>
                  StillPledged(mailbox'[i].reply, Before(mailbox', i))
  PROVE  AskedInv'
BY DEF AskedInv, Pledged, StillPledged

\* A call is begun once, and nothing is owed to it later that it was not owed before,
\* but what was to be scanned may have to be built.
Follows(c) ==
  /\ call'[c].pc = "idle" => call[c].pc = "idle"
  /\ call'[c].owed_scan \subseteq call[c].owed_scan
  /\ call'[c].owed_build \subseteq call[c].owed_build \cup call[c].owed_scan

\* Handlers, tasks, lazy compiles and the calls' own steps keep to this.
LEMMA CallsFollow ==
  ASSUME TypeOK,
         \/ Start \/ Handle \/ RunTask \/ UNCHANGED call
         \/ \E p \in Proxies : CompileLazyEntry(p)
         \/ \E d \in AllCalls : StepCall(d),
         NEW c \in Callers
  PROVE  Follows(c)
<1>0. call \in [AllCalls -> Calls] /\ c \in AllCalls /\ call[c] \in Calls
  BY DEF TypeOK, AllCalls
<1>1. CASE UNCHANGED call
  BY <1>1 DEF Follows
<1>2. CASE \E R : call' = OwedAfterScan(R) \/ call' = OwedAfterBuild(R)
  BY <1>2, ScanOwed, BuildOwed DEF Follows
<1>3. CASE HandleEnsureLatestBundleOutput \/ HandleGetState
  <2>1. PICK d \in AllCalls : d = Head(mailbox).reply
    BY <1>3, ReceivedType, MsgFields DEF HandleEnsureLatestBundleOutput, HandleGetState, AllCalls
  <2>2. \/ \E flag \in BOOLEAN : call' = Awaiting(d, flag)
        \/ \E result : call' = Ended(d, result)
    BY <1>3, <2>1 DEF HandleEnsureLatestBundleOutput, HandleGetState
  <2>3. OnlyMoves(d) /\ call'[d].pc # "idle"
    BY <2>1, <2>2, AwaitingRecord, EndedRecord
  <2> QED BY <1>0, <2>3 DEF OnlyMoves, Follows
<1>4. CASE \E d \in AllCalls : StepCall(d)
  <2>1. PICK d \in AllCalls : StepCall(d)
    BY <1>4
  <2>2. d = c => call'[c].owed_scan = call[c].owed_scan
                 /\ call'[c].owed_build = call[c].owed_build /\ call'[c].pc # "idle"
    BY <1>0, <2>1 DEF StepCall, SendEnsure, SendGetState, ReplyDropped, Resume, Ended, Calls
  <2>3. d # c => call'[c] = call[c]
    BY <1>0, <2>1 DEF StepCall, SendEnsure, SendGetState, ReplyDropped, Resume, Ended
  <2> QED BY <2>2, <2>3 DEF Follows
<1>5. CASE ReportCompletion
  <2>1. \/ call'[c] = call[c]
        \/ \E result : call'[c] = [call[c] EXCEPT !.pc = "woken", !.result = result]
    BY <1>0, <1>5 DEF ReportCompletion, TaskEnds, Woken
  <2> QED BY <1>0, <2>1 DEF Follows, Calls
<1>6. CASE \/ Start \/ RunWatchChange \/ DecideReload
           \/ HandleWatchEvent \/ HandleBundleCompleted \/ HandleModuleChanged
           \/ HandleTriggerFullBuild \/ HandleClose
  <2>1. UNCHANGED call
    BY <1>6 DEF Start, RunWatchChange, DecideReload, HandleWatchEvent, HandleBundleCompleted,
       HandleModuleChanged, HandleTriggerFullBuild, HandleClose, LeaveLoop
  <2> QED BY <1>1, <2>1
<1>7. CASE GenerateHmrUpdates \/ RunRebuild \/ \E p \in Proxies : CompileLazyEntry(p)
  <2>1. UNCHANGED call \/ \E R : call' = OwedAfterScan(R) \/ call' = OwedAfterBuild(R)
    BY <1>7 DEF GenerateHmrUpdates, RunRebuild, FullScanBuild, PartialScanBuild,
       CompileLazyEntry, ScanFailed
  <2> QED BY <1>1, <1>2, <2>1
<1> QED BY <1>1, <1>3, <1>4, <1>5, <1>6, <1>7 DEF Handle, RunTask

\* A handler makes due what the message at the head of the mailbox stood for.
LEMMA HandlerKeepsAsked ==
  ASSUME EditInv, OwedInv, AskedInv, Handle, ~HandleClose
  PROVE  AskedInv'
<1> USE DEF EditInv, BaseInv
<1> DEFINE h == Head(mailbox)
<1>0. /\ coordinator = "running" /\ mailbox \in Seq(Msgs) /\ mailbox # <<>>
      /\ mailbox' = Tail(mailbox)
  BY DEF TypeOK, Handle, HandleWatchEvent, HandleBundleCompleted, HandleModuleChanged,
         HandleTriggerFullBuild, HandleEnsureLatestBundleOutput, HandleGetState, Received
<1>1. HandsOn
  BY HandlersHandOn
<1> SUFFICES ASSUME NEW i \in DOMAIN mailbox',
                    mailbox'[i].type = "EnsureLatestBundleOutput"
             PROVE  /\ call'[mailbox'[i].reply].pc # "idle"
                    /\ StillPledged(mailbox'[i].reply, Before(mailbox', i))
  BY RequestsPledged
<1>2. /\ i + 1 \in DOMAIN mailbox /\ mailbox'[i] = mailbox[i + 1]
      /\ Before(mailbox, i + 1) = {h} \cup Before(mailbox', i)
  BY <1>0, BeforeTail
<1>3. mailbox[i + 1] \in Msgs
  BY <1>0, <1>2
<1>4. PICK c \in Callers : c = mailbox'[i].reply
  BY <1>2, <1>3, MsgFields
<1>5. call[c].pc # "idle" /\ Pledged(c, Before(mailbox, i + 1))
  BY <1>0, <1>2, <1>4 DEF AskedInv
<1>6. Follows(c) /\ call'[c].pc # "idle"
  BY <1>5, CallsFollow DEF Follows
<1> DEFINE M == Before(mailbox', i)
<1>7. Pledged(c, {h} \cup M)
  BY <1>2, <1>5
<1> HIDE DEF M
<1>8. call[c].owed_scan \subseteq Files /\ call[c].owed_build \subseteq Files
  BY DEF OwedInv, Honest, TypeOK
<1>9. ASSUME NEW f \in Files, Reported(f, {h} \cup M) \/ Due(f)
      PROVE  Reported(f, M) \/ Due(f)'
  <2>1. CASE Due(f) \/ (h.type = "WatchEvent" /\ f \in h.files)
    BY <2>1, HandlerKeepsDue
  <2> QED BY <1>9, <2>1 DEF Reported, OfType
<1>10. ASSUME OfType({h} \cup M, "ModuleChanged") # {} \/ RebuildAhead
       PROVE  OfType(M, "ModuleChanged") # {} \/ RebuildAhead'
  BY <1>1, <1>10 DEF HandsOn, OfType
<1>11. StillPledged(c, M)
  BY <1>6, <1>7, <1>8, <1>9, <1>10 DEF StillPledged, Pledged, Follows
<1> QED BY <1>4, <1>6, <1>11 DEF M

\* A step that keeps what is due keeps what is pledged.
LEMMA PledgeKept ==
  ASSUME NEW c, NEW M, Pledged(c, M), Follows(c),
         \A f \in call'[c].owed_scan : Due(f) => Due(f)',
         \/ call'[c].owed_build = {}
         \/ RebuildAhead'
         \/ /\ \A f \in call'[c].owed_build : Due(f) => Due(f)' \/ RebuildAhead'
            /\ RebuildAhead => RebuildAhead'
  PROVE  StillPledged(c, M)
BY DEF Pledged, StillPledged, Follows

\* Tasks, lazy compiles and edits leave the requests where they are.
LEMMA QuietKeepsAsked ==
  ASSUME TypeOK, AskedInv,
         \/ UNCHANGED mailbox
         \/ \E m \in Msgs : m.type # "EnsureLatestBundleOutput" /\ Post(m),
         coordinator' = "running" => coordinator = "running",
         \A c \in Callers : call[c].pc # "idle" =>
           /\ call'[c].pc # "idle"
           /\ coordinator = "running" =>
                \A i \in DOMAIN mailbox :
                  Pledged(c, Before(mailbox, i)) => StillPledged(c, Before(mailbox, i))
  PROVE  AskedInv'
<1> SUFFICES ASSUME NEW i \in DOMAIN mailbox',
                    mailbox'[i].type = "EnsureLatestBundleOutput"
             PROVE  /\ call'[mailbox'[i].reply].pc # "idle"
                    /\ coordinator' = "running" =>
                         StillPledged(mailbox'[i].reply, Before(mailbox', i))
  BY RequestsPledged
<1>1. /\ i \in DOMAIN mailbox /\ mailbox'[i] = mailbox[i]
      /\ Before(mailbox', i) = Before(mailbox, i)
      /\ mailbox[i].reply \in Callers
  BY OldRequests
<1>2. PICK c \in Callers : c = mailbox[i].reply
  BY <1>1
<1>3. /\ call[c].pc # "idle"
      /\ coordinator = "running" => Pledged(c, Before(mailbox, i))
  BY <1>1, <1>2 DEF AskedInv
<1> QED BY <1>1, <1>2, <1>3

\* A stage of a task drops what is due only by reading it.
LEMMA TaskKeepsAsked ==
  ASSUME NothingLost, EditInv, OwedInv, OwedInv', AskedInv, RunTask
  PROVE  AskedInv'
<1> USE DEF EditInv, BaseInv
<1>1. /\ coordinator' = coordinator /\ queued_tasks' = queued_tasks
      /\ \/ UNCHANGED mailbox
         \/ \E m \in Msgs : m.type # "EnsureLatestBundleOutput" /\ Post(m)
  <2>1. CASE ReportCompletion
    <3> DEFINE m == BundleCompleted(final_error_stage(task), task.has_rebuild_happen,
                                    task.hmr_stage_watch_files)
    <3>1. m \in Msgs /\ m.type # "EnsureLatestBundleOutput"
      BY DEF TypeOK, Tasks, Msgs, BundleCompleted, final_error_stage, Stages
    <3>2. Post(m)
      BY <2>1 DEF ReportCompletion
    <3> QED BY <2>1, <3>1, <3>2 DEF ReportCompletion, TaskEnds, taskFrame, coordVars
  <2>2. CASE ~ReportCompletion
    BY <2>2 DEF RunTask, RunWatchChange, DecideReload, GenerateHmrUpdates, RunRebuild,
       taskFrame, coordVars
  <2> QED BY <2>1, <2>2
<1> SUFFICES ASSUME NEW c \in Callers, call[c].pc # "idle"
             PROVE  /\ call'[c].pc # "idle"
                    /\ coordinator = "running" =>
                         \A i \in DOMAIN mailbox :
                           Pledged(c, Before(mailbox, i)) => StillPledged(c, Before(mailbox, i))
  BY <1>1, QuietKeepsAsked
<1>2. Follows(c) /\ call'[c].pc # "idle"
  BY CallsFollow DEF Follows
<1>3. /\ call[c].owed_scan \subseteq watched
      /\ call'[c].owed_scan \subseteq unscanned'
      /\ call'[c].owed_build \subseteq unbuilt' \cap Files
  <2>1. Honest(c) /\ Honest(c)'
    BY DEF OwedInv
  <2>2. call'[c].owed_scan \subseteq unscanned' /\ call'[c].owed_build \subseteq unbuilt'
    BY <2>1 DEF Honest
  <2>3. call[c].owed_scan \subseteq watched \cap Files /\ call[c].owed_build \subseteq Files
    BY <2>1 DEF Honest, GraphInv, TypeOK
  <2> QED BY <1>2, <2>2, <2>3 DEF Follows
<1> SUFFICES ASSUME coordinator = "running", NEW i \in DOMAIN mailbox,
                    Pledged(c, Before(mailbox, i))
             PROVE  StillPledged(c, Before(mailbox, i))
  BY <1>2
<1>4. CASE ReportCompletion
  <2>1. /\ Lagging => Lagging'
        /\ \A f \in Files : Due(f) => Due(f)'
    BY <1>4, ReportKeepsDue
  <2>2. RebuildAhead => RebuildAhead'
    BY <1>1, <2>1 DEF RebuildAhead
  <2>3. \A f \in call'[c].owed_scan \cup call'[c].owed_build : Due(f) => Due(f)'
    BY <1>2, <1>3, <2>1 DEF Follows, TypeOK
  <2> QED BY <1>2, <2>2, <2>3, PledgeKept
<1>5. CASE ~ReportCompletion
  <2>1. /\ unbuilt' = {} \/ Lagging'
        /\ \A f \in watched : Due(f) => f \notin unscanned' \/ Due(f)'
    BY <1>5, DecisionKeepsDue, HmrKeepsDue, RebuildKeepsDue DEF RunTask, NothingLost, TypeOK
  <2>2. call'[c].owed_build = {} \/ RebuildAhead'
    BY <1>3, <2>1 DEF RebuildAhead
  <2>3. \A f \in call'[c].owed_scan : Due(f) => Due(f)'
    BY <1>2, <1>3, <2>1 DEF Follows
  <2> QED BY <1>2, <2>2, <2>3, PledgeKept
<1> QED BY <1>4, <1>5

\* A lazy compile drops what is due only by reading it, and then it is to be built.
LEMMA LazyKeepsAsked ==
  ASSUME NothingLost, EditInv, OwedInv, OwedInv', AskedInv,
         NEW p \in Proxies, CompileLazyEntry(p)
  PROVE  AskedInv'
<1> USE DEF EditInv, BaseInv
<1>1. /\ coordinator' = coordinator
      /\ \/ UNCHANGED mailbox
         \/ \E m \in Msgs : m.type # "EnsureLatestBundleOutput" /\ Post(m)
  <2>1. UNCHANGED mailbox \/ Post(ModuleChanged(p, watch_files'))
    BY DEF CompileLazyEntry
  <2>2. watch_files' \subseteq Files
    <3>1. [Next]_vars
      BY DEF Next
    <3> QED BY <3>1, NextEditInv DEF TypeOK
  <2>3. /\ ModuleChanged(p, watch_files') \in Msgs
        /\ ModuleChanged(p, watch_files').type # "EnsureLatestBundleOutput"
    BY <2>2 DEF Msgs, ModuleChanged
  <2> QED BY <2>1, <2>3 DEF CompileLazyEntry, coordVars
<1>2. /\ RebuildAhead <=> RebuildAhead'
      /\ \A f \in watched : Due(f) => f \notin unscanned' \/ Due(f)'
      /\ \A f : Due(f) => Due(f)' \/ Lagging'
  BY LazyKeepsDue DEF NothingLost
<1> SUFFICES ASSUME NEW c \in Callers, call[c].pc # "idle"
             PROVE  /\ call'[c].pc # "idle"
                    /\ \A i \in DOMAIN mailbox :
                         Pledged(c, Before(mailbox, i)) => StillPledged(c, Before(mailbox, i))
  BY <1>1, QuietKeepsAsked
<1>3. Follows(c) /\ call'[c].pc # "idle"
  BY CallsFollow DEF Follows
<1>4. call[c].owed_scan \subseteq watched /\ call'[c].owed_scan \subseteq unscanned'
  <2>1. Honest(c) /\ Honest(c)'
    BY DEF OwedInv
  <2> QED BY <2>1 DEF Honest, GraphInv
<1>5. \A f \in call'[c].owed_scan : Due(f) => Due(f)'
  BY <1>2, <1>3, <1>4 DEF Follows
<1>6. \A f \in call'[c].owed_build : Due(f) => Due(f)' \/ RebuildAhead'
  BY <1>2 DEF RebuildAhead
<1> QED BY <1>2, <1>3, <1>5, <1>6, PledgeKept

\* Nothing becomes less due by the steps that leave the coordinator, the task and the
\* graph alone.
LEMMA BystanderKeepsAsked ==
  ASSUME TypeOK, AskedInv, Bystander,
         \/ UNCHANGED mailbox
         \/ \E m \in Msgs : m.type # "EnsureLatestBundleOutput" /\ Post(m),
         \A c \in Callers : call[c].pc # "idle" => Follows(c)
  PROVE  AskedInv'
<1>1. /\ coordinator' = coordinator
      /\ RebuildAhead <=> RebuildAhead'
      /\ \A f : Due(f) <=> Due(f)'
  BY BystanderKeepsDue
<1> SUFFICES ASSUME NEW c \in Callers, call[c].pc # "idle"
             PROVE  /\ call'[c].pc # "idle"
                    /\ \A i \in DOMAIN mailbox :
                         Pledged(c, Before(mailbox, i)) => StillPledged(c, Before(mailbox, i))
  BY <1>1, QuietKeepsAsked
<1> QED BY <1>1, PledgeKept DEF Follows

\* An edit, and the calls that ask for no output.
LEMMA OthersKeepAsked ==
  ASSUME TypeOK, AskedInv,
         \/ \E f \in Files : Edit(f)
         \/ \E p \in Proxies : RequestLazy(p)
         \/ TriggerFullBuild \/ CallClose \/ CloseSteps
         \/ UNCHANGED vars
  PROVE  AskedInv'
<1>1. Bystander
  BY Bystanders
<1>2. UNCHANGED call
  BY DEF Edit, RequestLazy, TriggerFullBuild, CallClose, CloseSteps, CloseLocksBundler,
         CloseReleasesBundler, CloseReturns, vars
<1>3. \A c \in Callers : Follows(c)
  BY <1>2, CallsFollow
<1>4. \/ UNCHANGED mailbox
      \/ \E m \in Msgs : m.type # "EnsureLatestBundleOutput" /\ Post(m)
  <2>1. CASE \E f \in Files : Edit(f)
    <3>1. PICK f \in Files : Edit(f)
      BY <2>1
    <3>2. WatchEvent({f}) \in Msgs /\ WatchEvent({f}).type # "EnsureLatestBundleOutput"
      BY DEF WatchEvent, Msgs
    <3> QED BY <3>1, <3>2 DEF Edit
  <2>2. CASE TriggerFullBuild
    <3>1. /\ Signal("TriggerFullBuild") \in Msgs
          /\ Signal("TriggerFullBuild").type # "EnsureLatestBundleOutput"
      BY DEF Signal, Msgs
    <3> QED BY <2>2, <3>1 DEF TriggerFullBuild
  <2>3. CASE CallClose
    <3>1. Signal("Close") \in Msgs /\ Signal("Close").type # "EnsureLatestBundleOutput"
      BY DEF Signal, Msgs
    <3> QED BY <2>3, <3>1 DEF CallClose
  <2>4. CASE (\E p \in Proxies : RequestLazy(p)) \/ CloseSteps \/ UNCHANGED vars
    BY <2>4 DEF RequestLazy, CloseSteps, CloseLocksBundler, CloseReleasesBundler,
       CloseReturns, vars
  <2> QED BY <2>1, <2>2, <2>3, <2>4
<1> QED BY <1>1, <1>3, <1>4, BystanderKeepsAsked

\* Whatever a caller is owed when it asks is due by what is ahead of its request.
LEMMA AskKeepsAsked ==
  ASSUME TypeOK, FreshInv, OwedInv, AskedInv, NEW d \in Callers, SendEnsure(d),
         Post(Request("EnsureLatestBundleOutput", d)), coordinator # "terminated"
  PROVE  AskedInv'
<1> DEFINE m == Request("EnsureLatestBundleOutput", d)
<1>0. mailbox \in Seq(Msgs) /\ m \in Msgs /\ m.reply = d
  BY DEF TypeOK, Request, Msgs
<1> HIDE DEF m
<1>1. /\ mailbox' = Append(mailbox, m) /\ coordinator' = coordinator
      /\ \A c \in Callers : Follows(c) /\ (call[c].pc # "idle" => call'[c].pc # "idle")
      /\ call[d].pc # "idle"
  <2>1. \E c \in AllCalls : StepCall(c)
    BY DEF StepCall, AllCalls
  <2>2. \A c \in Callers : Follows(c)
    BY <2>1, CallsFollow
  <2> QED BY <2>2 DEF Follows, Post, SendEnsure, coordVars, m
<1>2. /\ RebuildAhead <=> RebuildAhead'
      /\ \A f : Due(f) <=> Due(f)'
  <2>1. Bystander
    BY Bystanders DEF StepCall, AllCalls
  <2> QED BY <2>1, BystanderKeepsDue
<1>3. /\ DOMAIN mailbox' = DOMAIN mailbox \cup {Len(mailbox) + 1}
      /\ \A i \in DOMAIN mailbox :
           mailbox'[i] = mailbox[i] /\ Before(mailbox', i) = Before(mailbox, i)
      /\ mailbox'[Len(mailbox) + 1] = m
      /\ Before(mailbox', Len(mailbox) + 1) = Sent(mailbox)
  BY <1>0, <1>1, BeforeAppend
<1>4. ASSUME NEW i \in DOMAIN mailbox, mailbox'[i].type = "EnsureLatestBundleOutput"
      PROVE  /\ call'[mailbox'[i].reply].pc # "idle"
             /\ coordinator' = "running" =>
                  StillPledged(mailbox'[i].reply, Before(mailbox', i))
  <2>1. mailbox[i] \in Msgs /\ mailbox[i].type = "EnsureLatestBundleOutput"
    BY <1>0, <1>3, <1>4
  <2>2. PICK c \in Callers : c = mailbox[i].reply
    BY <2>1, MsgFields
  <2>3. /\ call[c].pc # "idle"
        /\ coordinator = "running" => Pledged(c, Before(mailbox, i))
    BY <2>1, <2>2 DEF AskedInv
  <2>4. coordinator = "running" => StillPledged(c, Before(mailbox, i))
    BY <1>1, <1>2, <2>3, PledgeKept
  <2> QED BY <1>1, <1>3, <2>2, <2>3, <2>4
<1>5. ASSUME coordinator = "running" PROVE StillPledged(d, Sent(mailbox))
  <2>1. Honest(d)
    BY DEF OwedInv
  <2>2. Pledged(d, Sent(mailbox))
    BY <1>5, <2>1 DEF FreshInv, Honest, Pledged
  <2> QED BY <1>1, <1>2, <2>2, PledgeKept
<1>6. call'[d].pc # "idle"
  BY <1>1
<1>7. ASSUME NEW i \in DOMAIN mailbox', mailbox'[i].type = "EnsureLatestBundleOutput"
      PROVE  /\ call'[mailbox'[i].reply].pc # "idle"
             /\ coordinator' = "running" =>
                  StillPledged(mailbox'[i].reply, Before(mailbox', i))
  <2>1. CASE i = Len(mailbox) + 1
    BY <1>0, <1>1, <1>3, <1>5, <1>6, <2>1
  <2> QED BY <1>3, <1>4, <1>7, <2>1
<1> QED BY <1>7, RequestsPledged

\* The other steps of the calls.
LEMMA CallKeepsAsked ==
  ASSUME TypeOK, FreshInv, OwedInv, AskedInv, NEW d \in AllCalls, BeginCall(d) \/ StepCall(d)
  PROVE  AskedInv'
<1>0. call \in [AllCalls -> Calls] /\ Callers \subseteq AllCalls
  BY DEF TypeOK, AllCalls
<1>1. Bystander
  BY Bystanders
<1>2. CASE BeginCall(d)
  <2>1. UNCHANGED mailbox /\ \A c \in Callers : c # d => call'[c] = call[c]
    BY <1>0, <1>2 DEF BeginCall
  <2>2. \A c \in Callers : call[c].pc # "idle" => Follows(c)
    BY <1>2, <2>1 DEF BeginCall, Follows
  <2> QED BY <1>1, <2>1, <2>2, BystanderKeepsAsked
<1>3. ASSUME StepCall(d),
             \/ UNCHANGED mailbox
             \/ \E m \in Msgs : m.type # "EnsureLatestBundleOutput" /\ Post(m)
      PROVE  AskedInv'
  <2>1. \A c \in Callers : Follows(c)
    BY <1>3, CallsFollow
  <2> QED BY <1>1, <1>3, <2>1, BystanderKeepsAsked
<1>4. CASE SendEnsure(d)
  BY <1>3, <1>4, AskKeepsAsked DEF SendEnsure, StepCall
<1>5. CASE SendGetState(d)
  <2>1. d \in Waiters
    BY <1>5 DEF SendGetState
  <2>2. /\ Request("GetState", d) \in Msgs
        /\ Request("GetState", d).type # "EnsureLatestBundleOutput"
    BY <2>1 DEF Request, Msgs
  <2> QED BY <1>3, <1>5, <2>2 DEF SendGetState, StepCall
<1>6. CASE ReplyDropped(d) \/ Resume(d)
  BY <1>3, <1>6 DEF ReplyDropped, Resume, StepCall
<1> QED BY <1>2, <1>4, <1>5, <1>6 DEF StepCall

\* The run loop begins with nothing due and ends with nothing asked.
LEMMA LoopKeepsAsked ==
  ASSUME EditInv, FreshInv, OwedInv, AskedInv, Start \/ HandleClose \/ Terminate
  PROVE  AskedInv'
<1> USE DEF EditInv, BaseInv
<1>0. mailbox \in Seq(Msgs)
  BY DEF TypeOK
<1>1. CASE Start
  <2>1. /\ coordinator = "init" /\ UNCHANGED <<mailbox, call>>
    BY <1>1 DEF Start
  <2>2. \A c \in Callers : call[c].owed_scan = {} /\ call[c].owed_build = {}
    BY <2>1 DEF FreshInv, GraphInv, OwedInv, Honest
  <2> SUFFICES ASSUME NEW i \in DOMAIN mailbox',
                      mailbox'[i].type = "EnsureLatestBundleOutput"
               PROVE  /\ call'[mailbox'[i].reply].pc # "idle"
                      /\ StillPledged(mailbox'[i].reply, Before(mailbox', i))
    BY RequestsPledged
  <2>3. i \in DOMAIN mailbox /\ mailbox'[i] = mailbox[i] /\ mailbox[i].reply \in Callers
    BY <2>1, OldRequests
  <2> QED BY <2>1, <2>2, <2>3 DEF AskedInv, StillPledged
<1>2. CASE HandleClose \/ Terminate
  <2>1. /\ coordinator' # "running" /\ UNCHANGED call
        /\ mailbox' = <<>> \/ (mailbox # <<>> /\ mailbox' = Tail(mailbox))
    BY <1>2 DEF HandleClose, LeaveLoop, Terminate
  <2>2. ASSUME NEW i \in DOMAIN mailbox', mailbox'[i].type = "EnsureLatestBundleOutput"
        PROVE  call'[mailbox'[i].reply].pc # "idle"
    <3>1. mailbox # <<>> /\ mailbox' = Tail(mailbox)
      BY <2>1, <2>2, EmptySeq
    <3>2. i + 1 \in DOMAIN mailbox /\ mailbox'[i] = mailbox[i + 1]
      BY <1>0, <3>1, BeforeTail
    <3> QED BY <2>1, <2>2, <3>2 DEF AskedInv
  <2> QED BY <2>1, <2>2, RequestsPledged
<1> QED BY <1>1, <1>2

\* No step of the engine breaks the invariant.
LEMMA NextAskedInv ==
  ASSUME NothingLost, EditInv, FreshInv, OwedInv, OwedInv', AskedInv, [Next]_vars
  PROVE  AskedInv'
<1> USE DEF EditInv, BaseInv
<1>1. CASE Handle
  BY <1>1, HandlerKeepsAsked, LoopKeepsAsked
<1>2. CASE Start \/ Terminate
  BY <1>2, LoopKeepsAsked
<1>3. CASE RunTask
  BY <1>3, TaskKeepsAsked
<1>4. CASE \E p \in Proxies : CompileLazyEntry(p)
  BY <1>4, LazyKeepsAsked
<1>5. CASE \E c \in AllCalls : BeginCall(c) \/ StepCall(c)
  BY <1>5, CallKeepsAsked
<1> QED BY <1>1, <1>2, <1>3, <1>4, <1>5, OthersKeepAsked DEF Next, Environment

-----------------------------------------------------------------------------
\* When ensure_latest_bundle_output returns and the build it relied on did not fail,
\* the output has every change the watcher had reported, and everything the graph
\* held, when the call was made: whatever edits, builds, failures, lazy compiles,
\* other calls or a manual restart came between, the answer is never given for an
\* older build (DevEngine::ensure_latest_bundle_output in dev_engine.rs with the arm
\* of BundleCoordinator that answers it).
THEOREM EnsureAnswersFresh ==
  ASSUME NothingLost
  PROVE  Spec => []EnsureIsFresh
<1> DEFINE Inv == EditInv /\ FreshInv /\ OwedInv /\ AskedInv
<1>1. Init => Inv
  BY InitEditInv, InitFreshInv, InitOwedInv
<1>2. Inv /\ [Next]_vars => Inv'
  <2> SUFFICES ASSUME Inv, [Next]_vars PROVE Inv'
    OBVIOUS
  <2>1. EditInv' /\ FreshInv'
    BY NextEditInv, NextFreshInv
  <2>2. OwedInv'
    BY NextOwedInv DEF EditInv
  <2>3. AskedInv'
    BY <2>2, NextAskedInv
  <2> QED BY <2>1, <2>2, <2>3
<1>3. Inv => EnsureIsFresh
  BY DEF OwedInv, Honest, Settled, EnsureIsFresh
<1> QED BY <1>1, <1>2, <1>3, PTL DEF Spec

=============================================================================
