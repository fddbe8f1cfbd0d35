--------------------------- MODULE WatchModeProofs ---------------------------
(***************************************************************************)
(* Theorems about the watch mode of WatchMode.tla, for any number of tasks *)
(* and edits, any import graph, any set of failures and any callers of     *)
(* close().                                                                *)
(***************************************************************************)
EXTENDS WatchMode, WellFoundedInduction, SequenceTheorems, TLAPS

-----------------------------------------------------------------------------
(* Events and messages. *)

\* A non-empty set of numbers has a least one.
LEMMA LeastNumber ==
  ASSUME NEW T \in SUBSET Nat, T # {}
  PROVE  \E n \in T : \A m \in T : n <= m
<1>1. \E n \in T : \A m \in T : ~(<<m, n>> \in OpToRel(<, Nat))
  BY NatLessThanWellFounded, WFMin
<1>2. \A m, n \in Nat : m < n => <<m, n>> \in OpToRel(<, Nat)
  BY DEF OpToRel
<1>3. \A m, n \in Nat : ~(m < n) => n <= m
  OBVIOUS
<1> QED BY <1>1, <1>2, <1>3

\* The fields of an event, by its code (event.rs).
LEMMA EventFields ==
  ASSUME NEW e \in Events
  PROVE  /\ e.code \in {"bundle_start", "bundle_end", "error"} => e.task \in Tasks
         /\ e.code = "change" => e.path \in Files
<1>1. CASE e \in {Event(code) : code \in {"start", "end", "restart", "close"}}
  BY <1>1 DEF Event
<1>2. CASE e \in {TaskEvent(code, t) : code \in {"bundle_start", "bundle_end", "error"},
                                       t \in Tasks}
  BY <1>2 DEF TaskEvent
<1>3. CASE e \in {ChangeEvent(f) : f \in Files}
  BY <1>3 DEF ChangeEvent
<1> QED BY <1>1, <1>2, <1>3 DEF Events

\* The events the coordinator dispatches are events.
LEMMA EventTypes ==
  /\ \A code \in {"start", "end", "restart", "close"} :
       Event(code) \in Events /\ Event(code).code = code
  /\ \A code \in {"bundle_start", "bundle_end", "error"}, t \in Tasks :
       /\ TaskEvent(code, t) \in Events
       /\ TaskEvent(code, t).code = code
       /\ TaskEvent(code, t).task = t
  /\ \A f \in Files : ChangeEvent(f) \in Events
<1>1. \A code \in {"start", "end", "restart", "close"} :
        Event(code) \in Events /\ Event(code).code = code
  BY DEF Events, Event
<1>2. \A code \in {"bundle_start", "bundle_end", "error"}, t \in Tasks :
        /\ TaskEvent(code, t) \in Events
        /\ TaskEvent(code, t).code = code
        /\ TaskEvent(code, t).task = t
  BY DEF Events, TaskEvent
<1>3. \A f \in Files : ChangeEvent(f) \in Events
  BY DEF Events
<1> QED BY <1>1, <1>2, <1>3

\* The messages the coordinator receives are messages (msg.rs).
LEMMA MsgTypes ==
  /\ CloseMsg \in Msgs
  /\ CloseMsg.type = "Close"
  /\ \A t \in Tasks, f \in Files, k \in Kinds : FileChanges(t, f, k) \in Msgs
  /\ \A t, f, k :
       /\ FileChanges(t, f, k).type = "FileChanges"
       /\ FileChanges(t, f, k).task = t
       /\ FileChanges(t, f, k).path = f
       /\ FileChanges(t, f, k).kind = k
<1>1. CloseMsg \in Msgs /\ CloseMsg.type = "Close"
  BY DEF Msgs, CloseMsg
<1>2. \A t \in Tasks, f \in Files, k \in Kinds : FileChanges(t, f, k) \in Msgs
  BY DEF Msgs
<1>3. \A t, f, k :
        /\ FileChanges(t, f, k).type = "FileChanges"
        /\ FileChanges(t, f, k).task = t
        /\ FileChanges(t, f, k).path = f
        /\ FileChanges(t, f, k).kind = k
  BY DEF FileChanges
<1> QED BY <1>1, <1>2, <1>3

\* A message about a file names its task, its path and a kind.
LEMMA MsgFields ==
  ASSUME NEW m \in Msgs, m.type = "FileChanges"
  PROVE  /\ m.task \in Tasks /\ m.path \in Files /\ m.kind \in Kinds
         /\ m = FileChanges(m.task, m.path, m.kind)
<1>1. m # CloseMsg
  BY DEF CloseMsg
<1>2. PICK t \in Tasks, f \in Files, k \in Kinds : m = FileChanges(t, f, k)
  BY <1>1 DEF Msgs
<1> QED BY <1>2, MsgTypes

\* The task a build sequence goes on with is the next one that needs a build.
LEMMA NextTaskEffect ==
  ASSUME NEW after, NextTask(after)
  PROVE  /\ pc' = "dispatch"
         /\ event' \in Events
         /\ \/ event' = Event("end")
            \/ \E t \in Tasks : needs_rebuild[t] /\ event' = TaskEvent("bundle_start", t)
<1> DEFINE due == {t \in Tasks : t > after /\ needs_rebuild[t]}
<1>1. CASE due = {}
  BY <1>1, EventTypes DEF NextTask, dispatch
<1>2. CASE due # {}
  <2> DEFINE first == CHOOSE t \in due : \A u \in due : t <= u
  <2>1. due \in SUBSET Nat
    BY DEF Tasks
  <2> HIDE DEF due
  <2>2. first \in due
    BY <1>2, <2>1, LeastNumber
  <2>3. event' = TaskEvent("bundle_start", first) /\ pc' = "dispatch"
    BY <1>2 DEF NextTask, dispatch, due
  <2>4. first \in Tasks /\ needs_rebuild[first]
    BY <2>2 DEF due
  <2> HIDE DEF first
  <2> QED BY <2>3, <2>4, EventTypes
<1> QED BY <1>1, <1>2

-----------------------------------------------------------------------------
(* Type correctness. *)

\* A build is under way only for the task whose bundle_start was dispatched, and
\* the coordinator takes steps once it is spawned.
StepOK ==
  /\ pc \in {"scan", "scanned", "write"} => event.code = "bundle_start"
  /\ spawned <=> pc # "unspawned"

TypeInv == TypeOK /\ StepOK

\* The task of a build that is under way is one of the watcher's tasks.
LEMMA BuildingTask ==
  ASSUME TypeInv, pc \in {"scan", "scanned", "write"}
  PROVE  event.task \in Tasks
BY EventFields DEF TypeInv, TypeOK, StepOK

\* The state createWatcher starts from is well typed.
LEMMA InitType == Init => TypeInv
<1> SUFFICES ASSUME Init PROVE TypeInv
  OBVIOUS
<1>1. event \in Events
  BY EventTypes DEF Init
<1>2. os \in [Tasks -> Seq(Files \X Kinds)] /\ rx \in Seq(Msgs)
  BY DEF Init
<1>3. edits \in 0 .. MaxEdits /\ disk \in [Files -> 0 .. (MaxEdits + 1)]
      /\ seen \in [Tasks -> [Files -> 0 .. (MaxEdits + 1)]]
  BY ConstantsAssumption DEF Init
<1>4. changes \in [Files -> Kinds \cup {"none"}]
  BY DEF Init, NoChanges
<1>5. hooked \in [Tasks \cup {0} -> Nat] /\ late \in Nat
  BY DEF Init
<1>6. StepOK /\ StateFitsStep
  BY DEF Init, StepOK, StateFitsStep
<1> QED BY <1>1, <1>2, <1>3, <1>4, <1>5, <1>6 DEF Init, TypeInv, TypeOK, Steps

\* An edit leaves every variable well typed.
LEMMA EditType ==
  ASSUME TypeInv, NEW f \in Files, Edit(f)
  PROVE  TypeInv'
<1> USE ConstantsAssumption DEF TypeInv, TypeOK
<1>1. PICK version \in {edits + 2, 0}, kind \in Kinds : Write(f, version, kind)
  BY DEF Edit, CreateFile, UpdateFile, DeleteFile, RenameOver, Kinds
<1>2. /\ edits' \in 0 .. MaxEdits
      /\ disk' \in [Files -> 0 .. (MaxEdits + 1)]
  BY <1>1 DEF Write
<1>3. os' \in [Tasks -> Seq(Files \X Kinds)]
  <2>1. \A t \in Tasks : Append(os[t], <<f, kind>>) \in Seq(Files \X Kinds)
    BY <1>1
  <2> QED BY <1>1, <2>1 DEF Write
<1>4. missed' \in [Tasks -> SUBSET Files]
  BY <1>1 DEF Write
<1> QED BY <1>1, <1>2, <1>3, <1>4
        DEF Write, StepOK, StateFitsStep, stepVars, loopVars, closeVars, startVars, history

\* What Send appends to the channel.
LEMMA SendType ==
  ASSUME TypeInv, NEW m \in Msgs, Send(m)
  PROVE  rx' \in Seq(Msgs)
BY DEF Send, TypeInv, TypeOK

\* The backend's handler of a notification (handle_events) keeps the types.
LEMMA HandleEventsType ==
  ASSUME TypeInv, NEW t \in Tasks, handle_events(t)
  PROVE  TypeInv'
<1>1. os[t] \in Seq(Files \X Kinds) /\ os[t] # <<>>
  BY DEF handle_events, TypeInv, TypeOK
<1>2. Head(os[t]) \in Files \X Kinds /\ Tail(os[t]) \in Seq(Files \X Kinds)
  BY <1>1
<1> DEFINE f == Head(os[t])[1]
           kind == Head(os[t])[2]
           sent == IF kind = "Delete" THEN kind ELSE map_notify_event(f, kind)
<1>3. f \in Files /\ sent \in Kinds
  BY <1>2 DEF map_notify_event, Kinds
<1>4. Send(FileChanges(t, f, sent))
  BY DEF handle_events
<1>5. rx' \in Seq(Msgs)
  BY <1>3, <1>4, MsgTypes, SendType
<1>6. os' \in [Tasks -> Seq(Files \X Kinds)]
  BY <1>2 DEF handle_events, TypeInv, TypeOK
<1>7. UNCHANGED <<disk, edits, watched, needs_rebuild, built, seen, read, missed, state,
                  changes, pc, event, initial, batch, todo, callback, closed, permit,
                  spawned, js, js_closed, close_pc, hooked, late>>
  BY DEF handle_events, taskVars, stepVars, loopVars, closeVars, startVars, history
<1> QED BY <1>5, <1>6, <1>7 DEF TypeInv, TypeOK, StepOK, StateFitsStep

\* Spawning the coordinator and creating the watcher keep the types.
LEMMA StartType ==
  ASSUME TypeInv, createWatcher \/ run
  PROVE  TypeInv'
<1>1. CASE createWatcher
  BY <1>1 DEF createWatcher, TypeInv, TypeOK, StepOK, StateFitsStep, fileVars, taskVars,
              stepVars, loopVars, closeVars, history
<1>2. CASE run
  BY <1>2, EventTypes DEF run, dispatch, TypeInv, TypeOK, StepOK, StateFitsStep, Steps,
              fileVars, taskVars, loopVars, closeVars, history
<1> QED BY <1>1, <1>2

\* Dispatching an event, or closing instead, keeps the types.
LEMMA DispatchType ==
  ASSUME TypeInv, Dispatch \/ StartCallback \/ CloseWins \/ ReturnedClosed
  PROVE  TypeInv'
<1> USE DEF TypeInv, TypeOK, StepOK, StateFitsStep, Steps, handle_close, fileVars, taskVars,
           closeVars, startVars, history
<1>1. CASE Dispatch
  BY <1>1 DEF Dispatch, PassCheck
<1>2. CASE StartCallback
  BY <1>2 DEF StartCallback, Start, loopVars
<1>3. CASE CloseWins
  BY <1>3 DEF CloseWins
<1>4. CASE ReturnedClosed
  BY <1>4 DEF ReturnedClosed
<1> QED BY <1>1, <1>2, <1>3, <1>4

\* What a step of the build sequence may leave changed (sequenceVars are not).
LEMMA SequenceType ==
  ASSUME TypeInv, UNCHANGED <<sequenceVars, taskVars, todo>>,
         pc \in {"callback", "drain"}, pc' \in {"dispatch", "receive", "drain"},
         pc = "drain" => pc' = "receive",
         event' \in Events, initial' \in BOOLEAN, batch' \subseteq Files
  PROVE  TypeInv'
BY DEF TypeInv, TypeOK, StepOK, StateFitsStep, Steps, sequenceVars, fileVars, taskVars,
       closeVars, startVars, history

\* The steps between the events of a build sequence keep the types.
LEMMA AfterType ==
  ASSUME TypeInv,
         AfterChange \/ AfterRestart \/ AfterStart \/ AfterOutcome \/ AfterEnd
  PROVE  TypeInv'
<1> USE DEF TypeInv, TypeOK, Steps
<1>1. CASE AfterChange
  <2>1. batch' \subseteq Files
    BY <1>1 DEF AfterChange
  <2>2. pc' = "dispatch" /\ event' \in Events
    BY <1>1, <2>1, EventTypes DEF AfterChange, dispatch
  <2> QED BY <1>1, <2>1, <2>2, SequenceType DEF AfterChange, Returned
<1>2. CASE AfterRestart
  BY <1>2, EventTypes, SequenceType DEF AfterRestart, Returned, dispatch
<1>3. CASE AfterStart
  BY <1>3, NextTaskEffect, SequenceType DEF AfterStart, Returned
<1>4. CASE AfterOutcome
  BY <1>4, NextTaskEffect, SequenceType DEF AfterOutcome, Returned
<1>5. CASE AfterEnd
  BY <1>5, SequenceType DEF AfterEnd, Returned
<1> QED BY <1>1, <1>2, <1>3, <1>4, <1>5

\* The end of a build, whatever its outcome, keeps the types.
LEMMA BuildEndType ==
  ASSUME TypeInv, pc \in {"scan", "scanned", "write"},
         NEW code \in {"bundle_end", "error", "closed"}, BuildEnd(code),
         UNCHANGED <<fileVars, rx, changes, callback, closeVars, startVars, history, seen,
                     read, missed, batch, todo, initial>>
  PROVE  TypeInv'
<1>1. event.task \in Tasks
  BY BuildingTask
<1>2. /\ watched' \in [Tasks -> SUBSET Files]
      /\ needs_rebuild' \in [Tasks -> BOOLEAN]
      /\ built' \in [Tasks -> BOOLEAN]
  BY <1>1 DEF BuildEnd, Registered, TypeInv, TypeOK
<1>3. /\ event' \in Events
      /\ \/ pc' = "closing" /\ state' = "Closing"
         \/ pc' = "dispatch" /\ state' = "Idle"
  BY <1>1, EventTypes DEF BuildEnd, handle_close, dispatch, TypeInv, TypeOK, StateFitsStep
<1> QED BY <1>2, <1>3 DEF TypeInv, TypeOK, StepOK, StateFitsStep, Steps, fileVars, closeVars,
           startVars, history

\* Every step of WatchTask::build keeps the types.
LEMMA BuildType ==
  ASSUME TypeInv, Build
  PROVE  TypeInv'
<1>1. CASE BuildStart
  <2>1. /\ read' \in [Tasks -> SUBSET Files]
        /\ missed' \in [Tasks -> SUBSET Files]
        /\ todo' \subseteq Files
    BY <1>1, ConstantsAssumption DEF BuildStart, TypeInv, TypeOK
  <2> QED BY <1>1, <2>1 DEF BuildStart, Returned, TypeInv, TypeOK, StepOK, StateFitsStep, Steps,
             sequenceVars, fileVars, closeVars, startVars, history
<1>2. ASSUME NEW f \in Files, ScanFile(f)
      PROVE  TypeInv'
  <2>1. event.task \in Tasks
    BY <1>2, BuildingTask DEF ScanFile
  <2>2. /\ read' \in [Tasks -> SUBSET Files]
        /\ todo' \subseteq Files
    BY <1>2, ConstantsAssumption DEF ScanFile, TypeInv, TypeOK
  <2>3. seen' \in [Tasks -> [Files -> 0 .. (MaxEdits + 1)]]
    BY <1>2, <2>1 DEF ScanFile, TypeInv, TypeOK
  <2>4. UNCHANGED <<disk, edits, os, watched, needs_rebuild, built, missed, rx, state,
                    changes, pc, event, initial, batch, callback, closed, permit,
                    spawned, js, js_closed, close_pc, hooked, late>>
    BY <1>2 DEF ScanFile, sequenceVars, fileVars, closeVars, startVars, history
  <2> QED BY <2>2, <2>3, <2>4 DEF TypeInv, TypeOK, StepOK, StateFitsStep
<1>3. CASE ScanFails
  BY <1>3, BuildEndType DEF ScanFails, ScanDone
<1>4. CASE ScanClosed
  BY <1>4, BuildEndType DEF ScanClosed, ScanDone
<1>5. CASE ScanSucceeds
  <2>1. watched' \in [Tasks -> SUBSET Files]
    BY <1>5 DEF ScanSucceeds, Registered, TypeInv, TypeOK
  <2> QED BY <1>5, <2>1 DEF ScanSucceeds, ScanDone, TypeInv, TypeOK, StepOK, StateFitsStep,
               Steps, sequenceVars, fileVars, closeVars, startVars, history
<1>6. CASE StartWrite
  BY <1>6 DEF StartWrite, Start, TypeInv, TypeOK, StepOK, StateFitsStep, Steps, fileVars,
              taskVars, loopVars, closeVars, startVars
<1>7. CASE WriteDone
  BY <1>7, BuildEndType DEF WriteDone
<1>8. CASE RegistrationFails
  <2>1. built' \in [Tasks -> BOOLEAN]
    BY <1>8 DEF RegistrationFails, TypeInv, TypeOK
  <2>2. pc' = "dispatch" /\ event' \in Events
    BY <1>8, NextTaskEffect DEF RegistrationFails
  <2> QED BY <1>8, <2>1, <2>2 DEF RegistrationFails, ScanDone, TypeInv, TypeOK, StepOK,
               StateFitsStep, Steps, sequenceVars, fileVars, closeVars, startVars, history
<1> QED BY <1>1, <1>2, <1>3, <1>4, <1>5, <1>6, <1>7, <1>8 DEF Build

\* Merging two kinds of change gives a kind, or none when they cancel out.
LEMMA MergeType ==
  \A old \in Kinds \cup {"none"}, new \in Kinds :
    merge_change_kind(old, new) \in Kinds \cup {"none"}
BY DEF merge_change_kind, Kinds

\* What the coordinator takes off its channel.
LEMMA ReceivedType ==
  ASSUME TypeInv, rx # <<>>
  PROVE  Head(rx) \in Msgs /\ Tail(rx) \in Seq(Msgs)
BY DEF TypeInv, TypeOK

\* process_file_changes marks the task and merges the change.
LEMMA ProcessType ==
  ASSUME TypeInv, NEW m \in Msgs, m.type = "FileChanges", process_file_changes(m)
  PROVE  /\ needs_rebuild' \in [Tasks -> BOOLEAN]
         /\ state' \in {"Idle", "Debouncing", "Closing", "Closed"}
         /\ changes' \in [Files -> Kinds \cup {"none"}]
<1>1. m.path \in Files /\ m.kind \in Kinds
  BY MsgFields
<1>2. changes \in [Files -> Kinds \cup {"none"}] /\ changes[m.path] \in Kinds \cup {"none"}
  BY <1>1 DEF TypeInv, TypeOK
<1>3. merge_change_kind(changes[m.path], m.kind) \in Kinds \cup {"none"}
  BY <1>1, <1>2, MergeType
<1> QED BY <1>2, <1>3 DEF process_file_changes, on_file_changes, TypeInv, TypeOK

\* The steps of the coordinator's loop keep the types.
LEMMA LoopType ==
  ASSUME TypeInv, Receive \/ Drained \/ Timeout
  PROVE  TypeInv'
<1>1. CASE Receive
  <2>1. Head(rx) \in Msgs /\ rx' \in Seq(Msgs)
    BY <1>1, ReceivedType DEF Receive
  <2>2. /\ needs_rebuild' \in [Tasks -> BOOLEAN]
        /\ state' \in {"Idle", "Debouncing", "Closing", "Closed"}
        /\ changes' \in [Files -> Kinds \cup {"none"}]
        /\ \/ pc' = pc /\ state' \in {state, "Debouncing"}
           \/ pc' = "closing" /\ state' = "Closing"
    <3>1. CASE /\ Head(rx).type = "FileChanges"
               /\ process_file_changes(Head(rx))
               /\ UNCHANGED pc
      BY <1>1, <2>1, <3>1, ProcessType DEF Receive, process_file_changes, on_file_changes
    <3>2. CASE handle_close /\ UNCHANGED <<needs_rebuild, changes>>
      BY <3>2 DEF handle_close, TypeInv, TypeOK
    <3> QED BY <1>1, <3>1, <3>2 DEF Receive
  <2> QED BY <1>1, <2>1, <2>2 DEF Receive, TypeInv, TypeOK, StepOK, StateFitsStep, Steps,
               fileVars, closeVars, startVars, history
<1>2. CASE Drained
  BY <1>2, SequenceType DEF Drained, TypeInv, TypeOK, Steps
<1>3. CASE Timeout
  <2>1. batch' \subseteq Files /\ changes' \in [Files -> Kinds \cup {"none"}]
    BY <1>3 DEF Timeout, NoChanges
  <2>2. pc' \in {"receive", "dispatch"} /\ event' \in Events
    BY <1>3, <2>1, EventTypes DEF Timeout, dispatch, TypeInv, TypeOK
  <2> QED BY <1>3, <2>1, <2>2 DEF Timeout, TypeInv, TypeOK, StepOK, StateFitsStep, Steps,
               fileVars, taskVars, closeVars, startVars, history
<1> QED BY <1>1, <1>2, <1>3

\* The closing sequence of the coordinator keeps the types.
LEMMA CloseSequenceType ==
  ASSUME TypeInv, CloseHooks \/ Closed
  PROVE  TypeInv'
<1>1. CASE CloseHooks
  <2>1. hooked' \in [Tasks \cup {0} -> Nat]
    BY <1>1 DEF CloseHooks, TypeInv, TypeOK
  <2> QED BY <1>1, <2>1 DEF CloseHooks, TypeInv, TypeOK, StepOK, StateFitsStep, Steps, fileVars,
             taskVars, loopVars, closeVars, startVars, history
<1>2. CASE Closed
  BY <1>2 DEF Closed, TypeInv, TypeOK, StepOK, StateFitsStep, Steps, fileVars, taskVars,
         closeVars, startVars, history
<1> QED BY <1>1, <1>2

\* Calls of close(), from outside or from a callback, keep the types.
LEMMA CallType ==
  ASSUME TypeInv, NEW c \in Callers, close(c) \/ CallbackAwaitsClose(c)
  PROVE  TypeInv'
<1>1. /\ close_pc' \in [Callers -> {"none", "stopping", "flagged", "notified", "waiting",
                                    "resolved", "noop"}]
      /\ js_closed' \in BOOLEAN
      /\ UNCHANGED <<closed, permit>>
  BY DEF close, CallbackAwaitsClose, CallClose, TypeInv, TypeOK
<1>2. UNCHANGED <<otherVars, rx>> /\ callback' \in {"none", "runs"} \cup Callers
  BY DEF close, CallbackAwaitsClose, TypeInv, TypeOK
<1> QED BY <1>1, <1>2 DEF otherVars, TypeInv, TypeOK, StepOK, StateFitsStep, fileVars, taskVars,
           loopVars, startVars, history

\* A callback that returns keeps the types.
LEMMA CallbackReturnsType ==
  ASSUME TypeInv, CallbackReturns
  PROVE  TypeInv'
BY DEF CallbackReturns, otherVars, TypeInv, TypeOK, StepOK, StateFitsStep, fileVars, taskVars,
       loopVars, startVars, history, closeVars

\* The steps of Watcher::close keep the types.
LEMMA ClosingType ==
  ASSUME TypeInv, NEW c \in Callers, Closing(c)
  PROVE  TypeInv'
<1>1. /\ close_pc' \in [Callers -> {"none", "stopping", "flagged", "notified", "waiting",
                                    "resolved", "noop"}]
      /\ closed' \in BOOLEAN /\ permit' \in BOOLEAN
  BY DEF Closing, Flag, NotifyOne, SendClose, wait_for_close, TypeInv, TypeOK
<1>2. rx' \in Seq(Msgs)
  <2>1. CASE SendClose(c)
    BY <2>1, MsgTypes, SendType DEF SendClose
  <2>2. CASE ~SendClose(c)
    BY <2>2 DEF Closing, Flag, NotifyOne, wait_for_close, TypeInv, TypeOK
  <2> QED BY <2>1, <2>2
<1>3. UNCHANGED <<otherVars, callback, js_closed>>
  BY DEF Closing, Flag, NotifyOne, SendClose, wait_for_close
<1> QED BY <1>1, <1>2, <1>3 DEF otherVars, TypeInv, TypeOK, StepOK, StateFitsStep, fileVars,
           taskVars, loopVars, startVars, history

\* A step that changes nothing keeps the types.
LEMMA StutterType == TypeInv /\ UNCHANGED vars => TypeInv'
BY DEF vars, TypeInv, TypeOK, StepOK, StateFitsStep, fileVars, taskVars, loopVars, stepVars,
       closeVars, startVars, history

\* Every step of watch mode keeps the types.
LEMMA NextType == TypeInv /\ [Next]_vars => TypeInv'
<1> SUFFICES ASSUME TypeInv, [Next]_vars PROVE TypeInv'
  OBVIOUS
<1>1. CASE Coordinator
  BY <1>1, DispatchType, AfterType, BuildType, LoopType, CloseSequenceType DEF Coordinator
<1> QED BY <1>1, StartType, EditType, HandleEventsType, CallType, CallbackReturnsType,
           ClosingType, StutterType DEF Next

\* Every variable of the watcher keeps its type, and a build is under way only
\* for a task whose bundle_start event was dispatched.
LEMMA TypeInvariant == Spec => []TypeInv
BY InitType, NextType, PTL DEF Spec

\* Every variable of watch mode keeps its type: the events and messages that
\* the coordinator takes apart have the fields it reads, and the versions stay
\* within the edits made (WatchCoordinator, WatchTask, Watcher).
THEOREM TypeCorrect == Spec => []TypeOK
BY TypeInvariant, PTL DEF TypeInv

-----------------------------------------------------------------------------
(* At most one callback or write begins once close() has set its flag. *)

\* A late start needs the flag, and from there the coordinator can only finish
\* what has begun, report it to a dispatch that closes instead, or close.
LateInv ==
  /\ late # 0 => closed
  /\ late = 0 \/ (late = 1 /\ pc \in {"callback", "write", "dispatch", "closing",
                                      "close_event", "done"})

\* Starting a callback or a write keeps LateInv.
LEMMA StartKeepsLate ==
  ASSUME TypeInv, LateInv, StartCallback \/ StartWrite
  PROVE  LateInv'
BY DEF StartCallback, StartWrite, Start, LateInv, TypeInv, TypeOK, closeVars

\* A step that takes the coordinator on keeps LateInv when it goes nowhere that a
\* closed watcher does not go.
LEMMA StepKeepsLate ==
  ASSUME LateInv, UNCHANGED <<closed, late>>,
         closed => pc' \in {"callback", "write", "dispatch", "closing", "close_event", "done"}
                   \/ pc \notin {"callback", "write", "dispatch", "closing", "close_event",
                                 "done"}
  PROVE  LateInv'
BY DEF LateInv

\* Every step of the coordinator keeps LateInv.
LEMMA CoordinatorKeepsLate ==
  ASSUME TypeInv, LateInv, Coordinator
  PROVE  LateInv'
<1>1. CASE Dispatch \/ CloseWins \/ ReturnedClosed
  BY <1>1, StepKeepsLate DEF Dispatch, PassCheck, CloseWins, ReturnedClosed, handle_close,
     closeVars, history
<1>2. CASE AfterChange \/ AfterRestart \/ AfterEnd \/ BuildStart
  BY <1>2, StepKeepsLate DEF AfterChange, AfterRestart, AfterEnd, BuildStart, Returned,
     sequenceVars, closeVars, history
<1>3. CASE AfterStart \/ AfterOutcome \/ RegistrationFails
  BY <1>3, NextTaskEffect, StepKeepsLate DEF AfterStart, AfterOutcome, RegistrationFails,
     sequenceVars, closeVars, history
<1>4. ASSUME NEW f \in Files, ScanFile(f)
      PROVE  LateInv'
  BY <1>4, StepKeepsLate DEF ScanFile, sequenceVars, closeVars, history
<1>5. CASE ScanFails \/ ScanClosed \/ WriteDone
  BY <1>5, StepKeepsLate DEF ScanFails, ScanClosed, WriteDone, BuildEnd, dispatch,
     handle_close, closeVars, history
<1>6. CASE ScanSucceeds \/ Receive \/ Drained \/ Timeout
  BY <1>6, StepKeepsLate DEF ScanSucceeds, ScanDone, Receive, Drained, Timeout, sequenceVars,
     closeVars, history
<1>7. CASE CloseHooks \/ Closed
  BY <1>7, StepKeepsLate DEF CloseHooks, Closed, closeVars, history
<1> QED BY <1>1, <1>2, <1>3, <1>4, <1>5, <1>6, <1>7, StartKeepsLate DEF Coordinator, Build

\* A step aside from the coordinator keeps LateInv: the flag is never cleared.
LEMMA AsideKeepsLate ==
  ASSUME LateInv, UNCHANGED <<pc, late>>, closed => closed'
  PROVE  LateInv'
BY DEF LateInv

\* Every step keeps LateInv.
LEMMA NextLate == TypeInv /\ LateInv /\ [Next]_vars => LateInv'
<1> SUFFICES ASSUME TypeInv, LateInv, [Next]_vars PROVE LateInv'
  OBVIOUS
<1>1. CASE createWatcher \/ CallbackReturns \/ UNCHANGED vars
  BY <1>1, AsideKeepsLate DEF createWatcher, CallbackReturns, vars, otherVars, stepVars,
     closeVars, history
<1>2. CASE run
  BY <1>2, StepKeepsLate DEF run, dispatch, closeVars, history
<1>3. ASSUME NEW f \in Files, Edit(f)
      PROVE  LateInv'
  BY <1>3, AsideKeepsLate DEF Edit, CreateFile, UpdateFile, DeleteFile, RenameOver, Write,
     stepVars, closeVars, history
<1>4. ASSUME NEW t \in Tasks, handle_events(t)
      PROVE  LateInv'
  BY <1>4, AsideKeepsLate DEF handle_events, stepVars, closeVars, history
<1>5. ASSUME NEW c \in Callers, close(c) \/ CallbackAwaitsClose(c) \/ Closing(c)
      PROVE  LateInv'
  BY <1>5, AsideKeepsLate DEF close, CallbackAwaitsClose, CallClose, Closing, Flag,
     NotifyOne, SendClose, wait_for_close, otherVars, history
<1> QED BY <1>1, <1>2, <1>3, <1>4, <1>5, CoordinatorKeepsLate DEF Next

\* Once close() has set its flag, at most one more consumer callback or write of
\* an output begins, in any interleaving of close() with the looks at the flag
\* and the starts that follow them, for any number of tasks, edits and callers
\* (await_handler_or_close, WatchTask::build).
THEOREM OneLateStart == Spec => []AtMostOneLateStart
<1>1. Init => LateInv
  BY DEF Init, LateInv
<1>2. LateInv => AtMostOneLateStart
  BY DEF LateInv, AtMostOneLateStart
<1> QED BY <1>1, <1>2, NextLate, TypeInvariant, PTL DEF Spec

-----------------------------------------------------------------------------
(* close() resolves after the closing sequence. *)

\* Before the closing sequence no hook has run; after it, the closeWatcher hooks
\* have run once for the tasks that have built, and nothing builds any more.
HooksRun ==
  IF pc \in {"close_event", "done"}
  THEN hooked[0] = 1 /\ \A t \in Tasks : hooked[t] = IF built[t] THEN 1 ELSE 0
  ELSE \A t \in Tasks \cup {0} : hooked[t] = 0

CloseInv ==
  /\ \A c \in Callers : close_pc[c] = "resolved" => pc = "done"
  /\ HooksRun

\* A step between spawning and closing, which runs no hook and answers no
\* close(), keeps CloseInv.
LEMMA MidwayKeepsClose ==
  ASSUME CloseInv, pc \notin {"unspawned", "close_event", "done"},
         pc' \notin {"unspawned", "close_event", "done"},
         UNCHANGED <<close_pc, hooked>>
  PROVE  CloseInv'
BY DEF CloseInv, HooksRun

\* A step that leaves the coordinator where it is, and its tasks as they are,
\* keeps CloseInv when it answers no close().
LEMMA AsideKeepsClose ==
  ASSUME CloseInv, UNCHANGED <<pc, built, hooked>>,
         \A c \in Callers : close_pc'[c] = "resolved" => close_pc[c] = "resolved"
  PROVE  CloseInv'
BY DEF CloseInv, HooksRun

\* Every step keeps CloseInv.
LEMMA NextClose == TypeInv /\ CloseInv /\ [Next]_vars => CloseInv'
<1> SUFFICES ASSUME TypeInv, CloseInv, [Next]_vars PROVE CloseInv'
  OBVIOUS
<1>1. CASE Dispatch \/ StartCallback \/ CloseWins \/ ReturnedClosed
  BY <1>1, MidwayKeepsClose DEF Dispatch, PassCheck, StartCallback, Start, CloseWins,
     ReturnedClosed, handle_close, closeVars, startVars, history
<1>2. CASE AfterChange \/ AfterRestart \/ AfterEnd
  BY <1>2, MidwayKeepsClose DEF AfterChange, AfterRestart, AfterEnd, Returned, dispatch,
     sequenceVars, closeVars, startVars, history
<1>3. CASE AfterStart \/ AfterOutcome
  BY <1>3, MidwayKeepsClose, NextTaskEffect DEF AfterStart, AfterOutcome, Returned,
     sequenceVars, closeVars, startVars, history
<1>4. CASE Build
  <2>1. CASE BuildStart \/ ScanSucceeds \/ StartWrite \/ RegistrationFails
    BY <2>1, MidwayKeepsClose, NextTaskEffect DEF BuildStart, ScanSucceeds, StartWrite,
       Start, RegistrationFails, ScanDone, Returned, sequenceVars, closeVars, startVars, history
  <2>2. ASSUME NEW f \in Files, ScanFile(f)
        PROVE  CloseInv'
    BY <2>2, MidwayKeepsClose DEF ScanFile, sequenceVars, closeVars, startVars, history
  <2>3. CASE ScanFails \/ ScanClosed \/ WriteDone
    BY <2>3, MidwayKeepsClose DEF ScanFails, ScanClosed, WriteDone, ScanDone, BuildEnd,
       dispatch, handle_close, closeVars, startVars, history
  <2> QED BY <1>4, <2>1, <2>2, <2>3 DEF Build
<1>5. CASE Receive \/ Drained \/ Timeout
  BY <1>5, MidwayKeepsClose DEF Receive, Drained, Timeout, dispatch, handle_close,
     sequenceVars, closeVars, startVars, history
<1>6. CASE CloseHooks
  <2>1. hooked' = [t \in Tasks \cup {0} |-> IF t = 0 THEN 1 ELSE IF built[t] THEN 1 ELSE 0]
    BY <1>6 DEF CloseHooks, CloseInv, HooksRun
  <2>2. 0 \notin Tasks
    BY DEF Tasks
  <2> QED BY <1>6, <2>1, <2>2 DEF CloseHooks, CloseInv, HooksRun, taskVars, closeVars,
             startVars, history
<1>7. CASE Closed
  BY <1>7 DEF Closed, CloseInv, HooksRun, taskVars, closeVars, startVars, history
<1>8. CASE run
  BY <1>8 DEF run, dispatch, CloseInv, HooksRun, TypeInv, StepOK, closeVars, history
<1>9. CASE createWatcher \/ CallbackReturns
  BY <1>9, AsideKeepsClose DEF createWatcher, CallbackReturns, otherVars, taskVars, stepVars,
     startVars, history, closeVars
<1>10. ASSUME NEW f \in Files, Edit(f)
       PROVE  CloseInv'
  BY <1>10, AsideKeepsClose DEF Edit, CreateFile, UpdateFile, DeleteFile, RenameOver, Write,
     stepVars, startVars, history, closeVars
<1>11. ASSUME NEW t \in Tasks, handle_events(t)
       PROVE  CloseInv'
  BY <1>11, AsideKeepsClose DEF handle_events, taskVars, stepVars, startVars, history, closeVars
<1>12. ASSUME NEW c \in Callers,
              close(c) \/ CallbackAwaitsClose(c) \/ Flag(c) \/ NotifyOne(c) \/ SendClose(c)
       PROVE  CloseInv'
  BY <1>12, AsideKeepsClose DEF close, CallbackAwaitsClose, CallClose, Flag, NotifyOne,
     SendClose, otherVars, taskVars, startVars, history, TypeInv, TypeOK
<1>13. ASSUME NEW c \in Callers, wait_for_close(c)
       PROVE  CloseInv'
  BY <1>13 DEF wait_for_close, CloseInv, HooksRun, otherVars, taskVars, startVars, history,
         TypeInv, TypeOK
<1>14. CASE UNCHANGED vars
  BY <1>14, AsideKeepsClose DEF vars, taskVars, stepVars, startVars, history, closeVars
<1> QED BY <1>1, <1>2, <1>3, <1>4, <1>5, <1>6, <1>7, <1>8, <1>9, <1>10, <1>11, <1>12, <1>13,
           <1>14 DEF Next, Coordinator, Closing

\* A close() that waited for the coordinator resolves only after the closeWatcher
\* hooks ran once for every task with a build and the close event was sent once,
\* whichever of its three signals (flag, permit, message) the coordinator saw
\* first and however many calls there were (handle_close, wait_for_close).
THEOREM ClosesCompletely == Spec => []CloseIsComplete
<1>1. Init => CloseInv
  BY DEF Init, CloseInv, HooksRun
<1>2. CloseInv => CloseIsComplete
  BY DEF CloseInv, HooksRun, CloseIsComplete
<1> QED BY <1>1, <1>2, NextClose, TypeInvariant, PTL DEF Spec

-----------------------------------------------------------------------------
(* No edit of a watched file is forgotten. *)

Occurs(x, s) == \E i \in DOMAIN s : s[i] = x

\* A change of f is on its way to task t: as a notification that its backend has
\* not handled, or as a message the coordinator has not received.
Pending(t, f) ==
  \E k \in Kinds : Occurs(<<f, k>>, os[t]) \/ Occurs(FileChanges(t, f, k), rx)

InBuild(t) == pc \in {"scan", "scanned", "write"} /\ event.task = t

\* A stale file has a change on its way, or its task is marked.  The mark does
\* not count during a build of the task, which is going to clear it.
StaleIsPending ==
  pc # "done" =>
    \A t \in Tasks, f \in Files :
      Stale(t, f) => Pending(t, f) \/ (needs_rebuild[t] /\ ~InBuild(t))

\* What the running scan has read and does not watch yet is as it read it,
\* unless the edit was missed.
ScannedIsCurrent ==
  pc = "scan" =>
    \A f \in (read[event.task] \ watched[event.task]) \ missed[event.task] :
      seen[event.task][f] = disk[f]

\* What the build that goes on to write still does not watch was missed.
UnwatchedIsMissed ==
  pc \in {"scanned", "write"} =>
    read[event.task] \ watched[event.task] \subseteq missed[event.task]

EditInv == StaleIsPending /\ ScannedIsCurrent /\ UnwatchedIsMissed

\* Appending keeps what occurs in a sequence and adds the new element.
LEMMA OccursAppend ==
  ASSUME NEW S, NEW s \in Seq(S), NEW e \in S
  PROVE  /\ Occurs(e, Append(s, e))
         /\ \A x : Occurs(x, s) => Occurs(x, Append(s, e))
<1>1. Len(s) + 1 \in DOMAIN Append(s, e) /\ Append(s, e)[Len(s) + 1] = e
  OBVIOUS
<1>2. \A i \in DOMAIN s : i \in DOMAIN Append(s, e) /\ Append(s, e)[i] = s[i]
  OBVIOUS
<1> QED BY <1>1, <1>2 DEF Occurs

\* What occurs in a sequence is its head or occurs in its tail.
LEMMA OccursTail ==
  ASSUME NEW S, NEW s \in Seq(S), s # <<>>, NEW x, Occurs(x, s)
  PROVE  x = Head(s) \/ Occurs(x, Tail(s))
<1>1. PICK i \in 1 .. Len(s) : s[i] = x
  BY DEF Occurs
<1>2. CASE i = 1
  BY <1>1, <1>2
<1>3. CASE i # 1
  <2>1. i - 1 \in DOMAIN Tail(s) /\ Tail(s)[i - 1] = s[i]
    BY <1>3
  <2> QED BY <1>1, <2>1 DEF Occurs
<1> QED BY <1>2, <1>3

\* A step of the coordinator outside the builds, which touches neither the files
\* nor what the tasks have read, keeps EditInv when it unmarks no task and takes
\* no change off the queues without marking its task.
LEMMA OutsideKeepsEdits ==
  ASSUME EditInv, UNCHANGED <<disk, watched, read, missed, seen>>,
         pc \notin {"scan", "scanned", "write", "done"},
         pc' \notin {"scan", "scanned", "write"},
         \A t \in Tasks : needs_rebuild[t] => needs_rebuild'[t],
         \A t \in Tasks, f \in Files :
           Pending(t, f) /\ Stale(t, f) => Pending(t, f)' \/ needs_rebuild'[t]
  PROVE  EditInv'
BY DEF EditInv, StaleIsPending, ScannedIsCurrent, UnwatchedIsMissed, InBuild, Stale

\* A step aside from the coordinator keeps EditInv when it leaves the files, the
\* tasks and their queues alone.
LEMMA AsideKeepsEdits ==
  ASSUME EditInv, UNCHANGED <<disk, os, taskVars, pc, event>>,
         \A x : Occurs(x, rx) => Occurs(x, rx')
  PROVE  EditInv'
<1>1. \A t \in Tasks, f \in Files : Pending(t, f) => Pending(t, f)'
  BY DEF Pending
<1> QED BY <1>1 DEF EditInv, StaleIsPending, ScannedIsCurrent, UnwatchedIsMissed, InBuild,
                    Stale, taskVars

\* An edit leaves a notification for the tasks that watch the file, and the scan
\* under way has missed it if it has read the file and does not watch it.
LEMMA EditKeepsEdits ==
  ASSUME TypeInv, EditInv, NEW g \in Files, Edit(g)
  PROVE  EditInv'
<1>1. PICK version \in {edits + 2, 0}, kind \in Kinds : Write(g, version, kind)
  BY DEF Edit, CreateFile, UpdateFile, DeleteFile, RenameOver, Kinds
<1>2. /\ disk' = [disk EXCEPT ![g] = version]
      /\ os' = [t \in Tasks |-> IF g \in watched[t] THEN Append(os[t], <<g, kind>>) ELSE os[t]]
      /\ missed' = [t \in Tasks |->
                      IF t \in Scanning /\ g \in read[t] \ watched[t]
                        THEN missed[t] \cup {g} ELSE missed[t]]
      /\ UNCHANGED <<watched, needs_rebuild, seen, read, rx, pc, event>>
  BY <1>1 DEF Write, stepVars
<1>3. /\ \A t \in Tasks : os[t] \in Seq(Files \X Kinds)
      /\ disk \in [Files -> 0 .. (MaxEdits + 1)] /\ missed \in [Tasks -> SUBSET Files]
      /\ read \in [Tasks -> SUBSET Files]
  BY DEF TypeInv, TypeOK
<1>4. \A t \in Tasks : g \in watched[t] => Occurs(<<g, kind>>, os'[t])
  BY <1>2, <1>3, OccursAppend
<1>5. \A t \in Tasks : \A x : Occurs(x, os[t]) => Occurs(x, os'[t])
  <2> SUFFICES ASSUME NEW t \in Tasks, NEW x, Occurs(x, os[t])
               PROVE  Occurs(x, os'[t])
    OBVIOUS
  <2>1. <<g, kind>> \in Files \X Kinds
    BY <1>1
  <2>2. os'[t] = Append(os[t], <<g, kind>>) \/ os'[t] = os[t]
    BY <1>2
  <2> QED BY <1>3, <2>1, <2>2, OccursAppend
<1>6. \A t \in Tasks, f \in Files : Pending(t, f) => Pending(t, f)'
  BY <1>2, <1>5 DEF Pending
<1>7. StaleIsPending'
  <2> SUFFICES ASSUME pc # "done", NEW t \in Tasks, NEW f \in Files, Stale(t, f)'
               PROVE  Pending(t, f)' \/ (needs_rebuild[t] /\ ~InBuild(t))'
    BY <1>2 DEF StaleIsPending
  <2>1. f \in read[t] \cap watched[t] /\ f \notin missed[t]
    BY <1>2 DEF Stale
  <2>2. CASE f = g
    BY <1>2, <1>4, <2>1, <2>2 DEF Pending
  <2>3. CASE f # g
    <3>1. Stale(t, f)
      BY <1>2, <1>3, <2>1, <2>3 DEF Stale
    <3>2. Pending(t, f) \/ (needs_rebuild[t] /\ ~InBuild(t))
      BY <3>1 DEF EditInv, StaleIsPending
    <3> QED BY <1>2, <1>6, <3>2 DEF InBuild
  <2> QED BY <2>2, <2>3
<1>8. ScannedIsCurrent'
  <2> SUFFICES ASSUME pc = "scan",
                      NEW f \in ((read[event.task] \ watched[event.task]) \ missed[event.task])'
               PROVE  (seen[event.task][f] = disk[f])'
    BY <1>2 DEF ScannedIsCurrent
  <2>1. event.task \in Tasks /\ event.task \in Scanning
    BY BuildingTask DEF Scanning
  <2>2. f \in (read[event.task] \ watched[event.task]) \ missed[event.task] /\ f # g
    BY <1>2, <2>1
  <2>3. seen[event.task][f] = disk[f]
    BY <2>2 DEF EditInv, ScannedIsCurrent
  <2> QED BY <1>2, <1>3, <2>1, <2>2, <2>3
<1>9. UnwatchedIsMissed'
  <2> SUFFICES ASSUME pc \in {"scanned", "write"}
               PROVE  (read[event.task] \ watched[event.task] \subseteq missed[event.task])'
    BY <1>2 DEF UnwatchedIsMissed
  <2>1. event.task \in Tasks
    BY BuildingTask
  <2> QED BY <1>2, <2>1 DEF EditInv, UnwatchedIsMissed
<1> QED BY <1>7, <1>8, <1>9 DEF EditInv

\* The backend turns a notification into a message about the same file, which
\* reaches the channel as long as the coordinator is there.
LEMMA HandleEventsKeepsEdits ==
  ASSUME TypeInv, EditInv, NEW u \in Tasks, handle_events(u)
  PROVE  EditInv'
<1> DEFINE g == Head(os[u])[1]
           kind == Head(os[u])[2]
           sent == IF kind = "Delete" THEN kind ELSE map_notify_event(g, kind)
<1>1. os[u] \in Seq(Files \X Kinds) /\ os[u] # <<>> /\ os \in [Tasks -> Seq(Files \X Kinds)]
  BY DEF handle_events, TypeInv, TypeOK
<1>2. /\ Head(os[u]) \in Files \X Kinds /\ Head(os[u]) = <<g, kind>>
      /\ g \in Files /\ kind \in Kinds /\ sent \in Kinds
  BY <1>1 DEF map_notify_event, Kinds
<1>3. /\ Send(FileChanges(u, g, sent))
      /\ os' = [os EXCEPT ![u] = Tail(@)]
      /\ UNCHANGED <<disk, taskVars, pc, event>>
  BY DEF handle_events, stepVars
<1> HIDE DEF g, kind, sent
<1>4. ASSUME pc # "done", NEW t \in Tasks, NEW f \in Files, Pending(t, f)
      PROVE  Pending(t, f)'
  <2>1. rx' = Append(rx, FileChanges(u, g, sent)) /\ FileChanges(u, g, sent) \in Msgs
        /\ rx \in Seq(Msgs)
    BY <1>2, <1>3, <1>4, MsgTypes DEF Send, TypeInv, TypeOK
  <2>2. /\ Occurs(FileChanges(u, g, sent), rx')
        /\ \A x : Occurs(x, rx) => Occurs(x, rx')
    BY <2>1, OccursAppend
  <2>3. PICK k \in Kinds : Occurs(<<f, k>>, os[t]) \/ Occurs(FileChanges(t, f, k), rx)
    BY <1>4 DEF Pending
  <2>4. CASE Occurs(FileChanges(t, f, k), rx)
    BY <2>2, <2>4 DEF Pending
  <2>5. CASE Occurs(<<f, k>>, os[t]) /\ t # u
    BY <1>1, <1>3, <2>5 DEF Pending
  <2>6. CASE Occurs(<<f, k>>, os[t]) /\ t = u
    <3>1. <<f, k>> = Head(os[u]) \/ Occurs(<<f, k>>, Tail(os[u]))
      BY <1>1, <2>6, OccursTail
    <3>2. CASE <<f, k>> = Head(os[u])
      <4>1. f = g
        BY <1>2, <3>2
      <4> QED BY <1>2, <2>2, <2>6, <4>1 DEF Pending
    <3>3. CASE Occurs(<<f, k>>, Tail(os[u]))
      BY <1>1, <1>3, <2>6, <3>3 DEF Pending
    <3> QED BY <3>1, <3>2, <3>3
  <2> QED BY <2>3, <2>4, <2>5, <2>6
<1> QED BY <1>3, <1>4 DEF EditInv, StaleIsPending, ScannedIsCurrent, UnwatchedIsMissed,
           InBuild, Stale, taskVars

\* Receiving a message marks the task it is about, if that task watches the file.
LEMMA ReceiveKeepsEdits ==
  ASSUME TypeInv, EditInv, Receive
  PROVE  EditInv'
<1>1. /\ rx \in Seq(Msgs) /\ rx # <<>> /\ rx' = Tail(rx) /\ Head(rx) \in Msgs
      /\ needs_rebuild \in [Tasks -> BOOLEAN]
  BY ReceivedType DEF Receive, TypeInv, TypeOK
<1>2. /\ UNCHANGED <<disk, watched, read, missed, seen, os>>
      /\ pc \in {"receive", "drain"} /\ pc' \in {"receive", "drain", "closing"}
  BY DEF Receive, handle_close, fileVars
<1>3. \A t \in Tasks : needs_rebuild[t] => needs_rebuild'[t]
  BY <1>1 DEF Receive, process_file_changes
<1>4. ASSUME NEW t \in Tasks, NEW f \in Files, Pending(t, f), Stale(t, f)
      PROVE  Pending(t, f)' \/ needs_rebuild'[t]
  <2>1. PICK k \in Kinds : Occurs(<<f, k>>, os[t]) \/ Occurs(FileChanges(t, f, k), rx)
    BY <1>4 DEF Pending
  <2>2. CASE Occurs(<<f, k>>, os[t])
    BY <1>2, <2>2 DEF Pending
  <2>3. CASE Occurs(FileChanges(t, f, k), rx)
    <3>1. FileChanges(t, f, k) = Head(rx) \/ Occurs(FileChanges(t, f, k), Tail(rx))
      BY <1>1, <2>3, OccursTail
    <3>2. CASE FileChanges(t, f, k) = Head(rx)
      <4>1. Head(rx).type = "FileChanges" /\ Head(rx).task = t /\ Head(rx).path = f
        BY <3>2, MsgTypes
      <4>2. process_file_changes(Head(rx))
        BY <4>1 DEF Receive
      <4>3. f \in watched[t]
        BY <1>4 DEF Stale
      <4> QED BY <1>1, <4>1, <4>2, <4>3 DEF process_file_changes
    <3>3. CASE Occurs(FileChanges(t, f, k), Tail(rx))
      BY <1>1, <3>3 DEF Pending
    <3> QED BY <3>1, <3>2, <3>3
  <2> QED BY <2>1, <2>2, <2>3
<1> QED BY <1>2, <1>3, <1>4, OutsideKeepsEdits

\* The end of a build unmarks its task.  What it registers now is as it was read
\* or was missed, and a change of what it watched before is still on its way.
LEMMA BuildEndKeepsEdits ==
  ASSUME TypeInv, EditInv, pc \in {"scan", "scanned", "write"}, NEW code, BuildEnd(code),
         UNCHANGED <<disk, os, rx, seen, read, missed>>
  PROVE  EditInv'
<1> DEFINE u == event.task
<1>1. u \in Tasks
  BY BuildingTask
<1>2. /\ watched' = [watched EXCEPT ![u] = Registered(u)]
      /\ needs_rebuild' = [needs_rebuild EXCEPT ![u] = FALSE]
      /\ pc' \in {"closing", "dispatch"}
  BY DEF BuildEnd, handle_close, dispatch
<1>3. watched \in [Tasks -> SUBSET Files] /\ needs_rebuild \in [Tasks -> BOOLEAN]
  BY DEF TypeInv, TypeOK
<1> HIDE DEF u
<1>4. ASSUME NEW t \in Tasks, NEW f \in Files, Stale(t, f)'
      PROVE  Stale(t, f)
  <2>1. CASE t # u
    BY <1>2, <1>3, <1>4, <2>1 DEF Stale
  <2>2. CASE t = u /\ f \in watched[u]
    BY <1>4, <2>2 DEF Stale
  <2>3. CASE t = u /\ f \notin watched[u]
    <3>1. f \in read[u] /\ f \notin missed[u] /\ seen[u][f] # disk[f]
      BY <1>4, <2>3 DEF Stale
    <3> QED BY <2>3, <3>1 DEF EditInv, ScannedIsCurrent, UnwatchedIsMissed, u
  <2> QED BY <2>1, <2>2, <2>3
<1>5. \A t \in Tasks, f \in Files : Pending(t, f) => Pending(t, f)'
  BY DEF Pending
<1>6. StaleIsPending'
  <2> SUFFICES ASSUME NEW t \in Tasks, NEW f \in Files, Stale(t, f)'
               PROVE  Pending(t, f)' \/ (needs_rebuild[t] /\ ~InBuild(t))'
    BY DEF StaleIsPending
  <2>1. Pending(t, f) \/ (needs_rebuild[t] /\ ~InBuild(t))
    BY <1>4 DEF EditInv, StaleIsPending
  <2>2. CASE t = u
    BY <1>5, <2>1, <2>2 DEF InBuild, u
  <2>3. CASE t # u
    BY <1>2, <1>3, <1>5, <2>1, <2>3 DEF InBuild
  <2> QED BY <2>2, <2>3
<1>7. ScannedIsCurrent' /\ UnwatchedIsMissed'
  BY <1>2 DEF ScannedIsCurrent, UnwatchedIsMissed
<1> QED BY <1>6, <1>7 DEF EditInv

\* Every step of a build keeps EditInv.
LEMMA BuildKeepsEdits ==
  ASSUME TypeInv, EditInv, Build
  PROVE  EditInv'
<1> DEFINE u == event.task
<1>1. CASE BuildStart
  <2>1. u \in Tasks /\ pc = "callback"
    BY <1>1, EventFields DEF BuildStart, Returned, TypeInv, TypeOK
  <2>2. /\ pc' = "scan" /\ event' = event
        /\ read' = [read EXCEPT ![u] = {}] /\ missed' = [missed EXCEPT ![u] = {}]
        /\ UNCHANGED <<disk, os, rx, watched, needs_rebuild, seen>>
    BY <1>1 DEF BuildStart, sequenceVars, fileVars
  <2>3. read \in [Tasks -> SUBSET Files] /\ missed \in [Tasks -> SUBSET Files]
    BY DEF TypeInv, TypeOK
  <2> HIDE DEF u
  <2>4. read'[u] = {}
    BY <2>1, <2>2, <2>3
  <2>5. \A t \in Tasks, f \in Files : Pending(t, f) => Pending(t, f)'
    BY <2>2 DEF Pending
  <2>6. ASSUME NEW t \in Tasks, NEW f \in Files, Stale(t, f)'
        PROVE  t # u /\ Stale(t, f)
    <3>1. t # u
      BY <2>4, <2>6 DEF Stale
    <3> QED BY <2>2, <2>3, <2>6, <3>1 DEF Stale
  <2>7. StaleIsPending'
    BY <2>1, <2>2, <2>5, <2>6 DEF EditInv, StaleIsPending, InBuild, u
  <2>8. ScannedIsCurrent' /\ UnwatchedIsMissed'
    BY <2>2, <2>4 DEF ScannedIsCurrent, UnwatchedIsMissed, u
  <2> QED BY <2>7, <2>8 DEF EditInv
<1>2. ASSUME NEW g \in Files, ScanFile(g)
      PROVE  EditInv'
  <2>1. u \in Tasks /\ pc = "scan"
    BY <1>2, BuildingTask DEF ScanFile
  <2>2. /\ read' = [read EXCEPT ![u] = @ \cup {g}]
        /\ seen' = [seen EXCEPT ![u][g] = disk[g]]
        /\ UNCHANGED <<disk, os, rx, watched, needs_rebuild, missed, pc, event>>
    BY <1>2 DEF ScanFile, sequenceVars, fileVars
  <2>3. read \in [Tasks -> SUBSET Files] /\ seen \in [Tasks -> [Files -> 0 .. (MaxEdits + 1)]]
    BY DEF TypeInv, TypeOK
  <2> HIDE DEF u
  <2>4. /\ read'[u] = read[u] \cup {g}
        /\ seen'[u][g] = disk[g]
        /\ \A f \in Files \ {g} : seen'[u][f] = seen[u][f]
        /\ \A t \in Tasks \ {u} : read'[t] = read[t] /\ seen'[t] = seen[t]
    BY <2>1, <2>2, <2>3
  <2>5. \A t \in Tasks, f \in Files : Pending(t, f) => Pending(t, f)'
    BY <2>2 DEF Pending
  <2>6. ASSUME NEW t \in Tasks, NEW f \in Files, Stale(t, f)'
        PROVE  Stale(t, f)
    <3>1. ~(t = u /\ f = g)
      BY <2>2, <2>4, <2>6 DEF Stale
    <3> QED BY <2>2, <2>4, <2>6, <3>1 DEF Stale
  <2>7. StaleIsPending'
    BY <2>2, <2>5, <2>6 DEF EditInv, StaleIsPending, InBuild
  <2>8. ScannedIsCurrent'
    <3> SUFFICES ASSUME NEW f \in (read'[u] \ watched[u]) \ missed[u]
                 PROVE  seen'[u][f] = disk[f]
      BY <2>2 DEF ScannedIsCurrent, u
    <3>1. f \in Files
      BY <2>1, <2>3, <2>4
    <3>2. f # g => seen[u][f] = disk[f]
      BY <2>1, <2>4 DEF EditInv, ScannedIsCurrent, u
    <3> QED BY <2>4, <3>1, <3>2
  <2>9. UnwatchedIsMissed'
    BY <2>1, <2>2 DEF UnwatchedIsMissed
  <2> QED BY <2>7, <2>8, <2>9 DEF EditInv
<1>3. CASE ScanFails \/ ScanClosed \/ WriteDone
  BY <1>3, BuildEndKeepsEdits DEF ScanFails, ScanClosed, WriteDone, ScanDone, fileVars
<1>4. CASE ScanSucceeds
  <2>1. u \in Tasks /\ pc = "scan" /\ ~Unresolved(u)
    BY <1>4, BuildingTask DEF ScanSucceeds, ScanDone
  <2>2. /\ watched' = [watched EXCEPT ![u] = Registered(u)] /\ pc' = "scanned"
        /\ UNCHANGED <<disk, os, rx, needs_rebuild, seen, read, missed, event>>
    BY <1>4 DEF ScanSucceeds, sequenceVars, fileVars
  <2>3. watched \in [Tasks -> SUBSET Files]
    BY DEF TypeInv, TypeOK
  <2>4. \A f \in (read[u] \ watched[u]) \ missed[u] : seen[u][f] = disk[f]
    BY <2>1 DEF EditInv, ScannedIsCurrent
  <2> HIDE DEF u
  <2>5. \A t \in Tasks, f \in Files : Pending(t, f) => Pending(t, f)'
    BY <2>2 DEF Pending
  <2>6. ASSUME NEW t \in Tasks, NEW f \in Files, Stale(t, f)'
        PROVE  Stale(t, f)
    <3>1. CASE t = u
      BY <2>2, <2>4, <2>6, <3>1 DEF Stale
    <3>2. CASE t # u
      BY <2>2, <2>3, <2>6, <3>2 DEF Stale
    <3> QED BY <3>1, <3>2
  <2>7. StaleIsPending'
    BY <2>1, <2>2, <2>5, <2>6 DEF EditInv, StaleIsPending, InBuild
  <2>8. UnwatchedIsMissed'
    <3> SUFFICES ASSUME NEW f \in read[u], f \notin watched'[u], f \notin missed[u]
                 PROVE  FALSE
      BY <2>2 DEF UnwatchedIsMissed, u
    <3>1. watched'[u] = Registered(u)
      BY <2>1, <2>2, <2>3
    <3>2. f \notin watched[u] /\ ~(seen[u][f] # 0 /\ disk[f] # 0)
      BY <3>1 DEF Registered
    <3>3. seen[u][f] = disk[f] /\ seen[u][f] # 0
      BY <2>1, <2>4, <3>2 DEF Unresolved
    <3> QED BY <3>2, <3>3
  <2>9. ScannedIsCurrent'
    BY <2>2 DEF ScannedIsCurrent
  <2> QED BY <2>7, <2>8, <2>9 DEF EditInv
<1>5. CASE RegistrationFails
  <2>1. /\ pc \in {"scan", "scanned", "write"} /\ pc' = "dispatch"
        /\ UNCHANGED <<disk, os, rx, watched, needs_rebuild, seen, read, missed>>
    BY <1>5, NextTaskEffect DEF RegistrationFails, ScanDone, sequenceVars, fileVars
  <2>2. \A t \in Tasks, f \in Files : Pending(t, f) => Pending(t, f)'
    BY <2>1 DEF Pending
  <2> QED BY <2>1, <2>2 DEF EditInv, StaleIsPending, ScannedIsCurrent, UnwatchedIsMissed,
             InBuild, Stale
<1>6. CASE StartWrite
  <2>1. /\ pc = "scanned" /\ pc' = "write"
        /\ UNCHANGED <<disk, os, rx, taskVars, event>>
    BY <1>6 DEF StartWrite, Start, fileVars
  <2>2. \A t \in Tasks, f \in Files : Pending(t, f) => Pending(t, f)'
    BY <2>1 DEF Pending
  <2> QED BY <2>1, <2>2 DEF EditInv, StaleIsPending, ScannedIsCurrent, UnwatchedIsMissed,
             InBuild, Stale, taskVars
<1> QED BY <1>1, <1>2, <1>3, <1>4, <1>5, <1>6 DEF Build

\* Every step keeps EditInv.
LEMMA NextEdits == TypeInv /\ EditInv /\ [Next]_vars => EditInv'
<1> SUFFICES ASSUME TypeInv, EditInv, [Next]_vars PROVE EditInv'
  OBVIOUS
<1>1. CASE Dispatch \/ StartCallback \/ CloseWins \/ ReturnedClosed
  <2>1. /\ UNCHANGED <<disk, os, rx, watched, read, missed, seen, needs_rebuild>>
        /\ pc \notin {"scan", "scanned", "write", "done"}
        /\ pc' \notin {"scan", "scanned", "write"}
    BY <1>1 DEF Dispatch, PassCheck, StartCallback, Start, CloseWins, ReturnedClosed,
       handle_close, fileVars, taskVars
  <2> QED BY <2>1, OutsideKeepsEdits DEF Pending
<1>2. CASE AfterChange \/ AfterRestart \/ AfterStart \/ AfterOutcome \/ AfterEnd \/ Drained
  <2>1. /\ UNCHANGED <<disk, os, rx, watched, read, missed, seen, needs_rebuild>>
        /\ pc \notin {"scan", "scanned", "write", "done"}
    BY <1>2 DEF AfterChange, AfterRestart, AfterStart, AfterOutcome, AfterEnd, Drained,
       Returned, sequenceVars, fileVars, taskVars
  <2>2. pc' \notin {"scan", "scanned", "write"}
    BY <1>2, NextTaskEffect DEF AfterChange, AfterRestart, AfterStart, AfterOutcome,
       AfterEnd, Drained, dispatch
  <2> QED BY <2>1, <2>2, OutsideKeepsEdits DEF Pending
<1>3. CASE Timeout \/ CloseHooks \/ Closed
  <2>1. /\ UNCHANGED <<disk, os, rx, watched, read, missed, seen, needs_rebuild>>
        /\ pc \notin {"scan", "scanned", "write", "done"}
        /\ pc' \notin {"scan", "scanned", "write"}
    BY <1>3 DEF Timeout, CloseHooks, Closed, dispatch, fileVars, taskVars
  <2> QED BY <2>1, OutsideKeepsEdits DEF Pending
<1>4. CASE createWatcher \/ CallbackReturns \/ UNCHANGED vars
  <2>1. UNCHANGED <<disk, os, rx, taskVars, pc, event>>
    BY <1>4 DEF createWatcher, CallbackReturns, vars, otherVars, fileVars, stepVars
  <2> QED BY <2>1, AsideKeepsEdits
<1>5. CASE run
  <2>1. /\ UNCHANGED <<disk, os, rx, watched, read, missed, seen, needs_rebuild>>
        /\ pc = "unspawned" /\ pc' = "dispatch"
    BY <1>5 DEF run, dispatch, TypeInv, StepOK, fileVars, taskVars
  <2> QED BY <2>1, OutsideKeepsEdits DEF Pending
<1>6. ASSUME NEW c \in Callers, close(c) \/ CallbackAwaitsClose(c) \/ Closing(c)
      PROVE  EditInv'
  <2>1. UNCHANGED <<disk, os, taskVars, pc, event>>
    BY <1>6 DEF close, CallbackAwaitsClose, Closing, Flag, NotifyOne, SendClose,
       wait_for_close, otherVars, fileVars
  <2>2. rx' = rx \/ rx' = Append(rx, CloseMsg)
    BY <1>6 DEF close, CallbackAwaitsClose, Closing, Flag, NotifyOne, SendClose,
       wait_for_close, Send
  <2>3. \A x : Occurs(x, rx) => Occurs(x, rx')
    <3>1. rx \in Seq(Msgs) /\ CloseMsg \in Msgs
      BY MsgTypes DEF TypeInv, TypeOK
    <3>2. \A x : Occurs(x, rx) => Occurs(x, Append(rx, CloseMsg))
      BY <3>1, OccursAppend
    <3> QED BY <2>2, <3>2
  <2> QED BY <2>1, <2>3, AsideKeepsEdits
<1> QED BY <1>1, <1>2, <1>3, <1>4, <1>5, <1>6, EditKeepsEdits, HandleEventsKeepsEdits,
           ReceiveKeepsEdits, BuildKeepsEdits DEF Next, Coordinator

\* The invariants the theorem rests on hold of every behaviour.
LEMMA EditInvariant == Spec => []EditInv
<1>1. Init => EditInv
  BY DEF Init, EditInv, StaleIsPending, ScannedIsCurrent, UnwatchedIsMissed, Stale
<1> QED BY <1>1, NextEdits, TypeInvariant, PTL DEF Spec

\* No edit of a watched file is forgotten: whenever it falls, during a scan, a
\* write, a callback or a debounce window, a watcher with nothing under way has
\* either built it or left its task marked for a build (process_file_changes,
\* WatchTask::build, update_watch_files_from).
THEOREM EditsRemembered == Spec => []EditsAreNotForgotten
<1>1. EditInv => EditsAreNotForgotten
  <2> SUFFICES ASSUME EditInv, Quiet, NEW t \in Tasks, NEW f \in Files, Stale(t, f)
               PROVE  needs_rebuild[t]
    BY DEF EditsAreNotForgotten
  <2>1. ~Pending(t, f)
    BY DEF Quiet, Pending, Occurs
  <2> QED BY <2>1 DEF Quiet, EditInv, StaleIsPending
<1> QED BY <1>1, EditInvariant, PTL

=============================================================================
