------------------------------ MODULE WatchMode ------------------------------
(***************************************************************************)
(* Watch mode (crates/rolldown_watcher, crates/rolldown_fs_watcher and the *)
(* watch API of packages/rolldown): the coordinator that builds every task *)
(* and then builds again when their files change, the notifications of the *)
(* operating system on their way to it, the callbacks it awaits, and calls *)
(* of close() at any moment, also from inside a callback.                  *)
(*                                                                         *)
(* A file is the number of the edit that wrote it, 0 when it is absent.    *)
(***************************************************************************)
EXTENDS Naturals, Sequences, FiniteSets

CONSTANTS
  NTasks,    \* number of watch tasks (one per output)
  Files,     \* files the tasks can read
  Entry,     \* the file every task starts from
  Imports,   \* [Files -> SUBSET Files], static imports of a file
  Renames,   \* edits may also move a new version over an existing file
  Failures,  \* steps of a build that may fail
  Callers,   \* calls of watcher.close(), each made at most once
  MaxEdits   \* bound: edits of files

FailurePlaces == {"scan", "register", "register_late", "write"}

ASSUME ConstantsAssumption ==
  /\ NTasks \in Nat \ {0}
  /\ Entry \in Files
  /\ Imports \in [Files -> SUBSET Files]
  /\ Renames \in BOOLEAN
  /\ Failures \subseteq FailurePlaces
  /\ MaxEdits \in Nat

VARIABLES
  \* the files and the operating system
  disk,      \* the version of each file, 0 when absent
  edits,     \* edits made so far
  os,        \* per task: notifications its backend has not handled yet
  \* WatchTask
  watched,   \* FsWatcher::watched_paths
  needs_rebuild,
  built,     \* bundler.last_bundle_handle.is_some()
  seen,      \* what the latest build of the task read of each file
  read,      \* the files that build read (its watch files)
  missed,    \* history: edited after that build read them, before they were watched
  \* WatchCoordinator
  rx,        \* the unbounded channel, in FIFO order
  state,     \* WatcherState, without the fields of Debouncing
  changes,   \* the changes of Debouncing
  pc,        \* where the coordinator is
  event,     \* the event being dispatched
  initial,   \* the initial build is under way
  batch,     \* the changes of the build sequence still to be reported
  todo,      \* files the running scan has found and not read yet
  callback,  \* the consumer callback: "none", "runs", or the close() it awaits
  \* Watcher
  closed,    \* the shared flag
  permit,    \* close_notify holds a permit
  spawned,   \* coordinator_state.handle.is_some()
  \* the JavaScript Watcher and its emitter
  js,        \* "creating" while createWatcher is pending, then "made"
  js_closed, \* Watcher.closed
  close_pc,  \* progress of each close() call
  hooked,    \* history: closeWatcher hooks per task and close events sent
  late       \* history: callbacks and writes started after the flag was set

fileVars  == <<disk, edits, os>>
taskVars  == <<watched, needs_rebuild, built, seen, read, missed>>
loopVars  == <<state, changes, batch>>
stepVars  == <<pc, event, todo, callback>>
closeVars == <<closed, permit, js_closed, close_pc>>
startVars == <<spawned, js>>
history   == <<hooked, late>>
vars == <<fileVars, taskVars, rx, loopVars, initial, stepVars, closeVars, startVars, history>>

Tasks == 1..NTasks

-----------------------------------------------------------------------------
(* Events, changes and messages. *)

Kinds == {"Create", "Update", "Delete"}
NoChanges == [f \in Files |-> "none"]

FileChanges(t, f, kind) == [type |-> "FileChanges", task |-> t, path |-> f, kind |-> kind]
CloseMsg == [type |-> "Close"]

Event(code)        == [code |-> code]
TaskEvent(code, t) == [code |-> code, task |-> t]
ChangeEvent(f)     == [code |-> "change", path |-> f]

Msgs == {CloseMsg} \cup {FileChanges(t, f, k) : t \in Tasks, f \in Files, k \in Kinds}

Events ==
  {Event(code) : code \in {"start", "end", "restart", "close"}}
    \cup {TaskEvent(code, t) : code \in {"bundle_start", "bundle_end", "error"},
                               t \in Tasks}
    \cup {ChangeEvent(f) : f \in Files}

Steps == {"unspawned", "dispatch", "checked", "callback", "scan", "scanned", "write",
          "receive", "drain", "closing", "close_event", "done"}

\* WatcherState agrees with where the coordinator is: changes are debounced
\* between builds only, and the loop finds a closed watcher closed.
StateFitsStep ==
  /\ state = "Debouncing" => pc \in {"receive", "drain"}
  /\ state = "Closing" <=> pc \in {"closing", "close_event"}
  /\ state = "Closed" <=> pc = "done"

\* The variables have their types, and WatcherState fits the coordinator's step.
TypeOK ==
  /\ disk \in [Files -> 0..(MaxEdits + 1)]
  /\ edits \in 0..MaxEdits
  /\ os \in [Tasks -> Seq(Files \X Kinds)]
  /\ watched \in [Tasks -> SUBSET Files]
  /\ needs_rebuild \in [Tasks -> BOOLEAN]
  /\ built \in [Tasks -> BOOLEAN]
  /\ seen \in [Tasks -> [Files -> 0..(MaxEdits + 1)]]
  /\ read \in [Tasks -> SUBSET Files]
  /\ missed \in [Tasks -> SUBSET Files]
  /\ rx \in Seq(Msgs)
  /\ state \in {"Idle", "Debouncing", "Closing", "Closed"}
  /\ changes \in [Files -> Kinds \cup {"none"}]
  /\ pc \in Steps
  /\ event \in Events
  /\ initial \in BOOLEAN
  /\ batch \in SUBSET Files
  /\ todo \in SUBSET Files
  /\ callback \in {"none", "runs"} \cup Callers
  /\ closed \in BOOLEAN
  /\ permit \in BOOLEAN
  /\ spawned \in BOOLEAN
  /\ js \in {"creating", "made"}
  /\ js_closed \in BOOLEAN
  /\ close_pc \in [Callers -> {"none", "stopping", "flagged", "notified", "waiting",
                               "resolved", "noop"}]
  /\ hooked \in [Tasks \cup {0} -> Nat]
  /\ late \in Nat
  /\ StateFitsStep

Init ==
  /\ disk = [f \in Files |-> 1]
  /\ edits = 0
  /\ os = [t \in Tasks |-> <<>>]
  /\ watched = [t \in Tasks |-> {}]
  /\ needs_rebuild = [t \in Tasks |-> TRUE]
  /\ built = [t \in Tasks |-> FALSE]
  /\ seen = [t \in Tasks |-> [f \in Files |-> 0]]
  /\ read = [t \in Tasks |-> {}]
  /\ missed = [t \in Tasks |-> {}]
  /\ rx = <<>>
  /\ state = "Idle"
  /\ changes = NoChanges
  /\ pc = "unspawned"
  /\ event = Event("start")
  /\ initial = TRUE
  /\ batch = {}
  /\ todo = {}
  /\ callback = "none"
  /\ closed = FALSE
  /\ permit = FALSE
  /\ spawned = FALSE
  /\ js = "creating"
  /\ js_closed = FALSE
  /\ close_pc = [c \in Callers |-> "none"]
  /\ hooked = [t \in Tasks \cup {0} |-> 0]
  /\ late = 0

-----------------------------------------------------------------------------
(* The file system: an edit notifies the backend of every task that watches *)
(* the file; a build in its scan that has read the file, and does not watch *)
(* it yet, misses the edit.                                                 *)

\* The task whose build is under way.
Scanning == IF pc = "scan" THEN {event.task} ELSE {}

Write(f, version, kind) ==
  /\ edits < MaxEdits
  /\ disk' = [disk EXCEPT ![f] = version]
  /\ edits' = edits + 1
  /\ os' = [t \in Tasks |-> IF f \in watched[t] THEN Append(os[t], <<f, kind>>) ELSE os[t]]
  /\ missed' = [t \in Tasks |->
                 IF t \in Scanning /\ f \in read[t] \ watched[t]
                   THEN missed[t] \cup {f} ELSE missed[t]]
  /\ UNCHANGED <<watched, needs_rebuild, built, seen, read, rx, loopVars, initial,
                 stepVars, closeVars, startVars, history>>

CreateFile(f) == disk[f] = 0 /\ Write(f, edits + 2, "Create")
UpdateFile(f) == disk[f] # 0 /\ Write(f, edits + 2, "Update")
DeleteFile(f) == disk[f] # 0 /\ Write(f, 0, "Delete")
\* A save that moves a new file over the old one arrives as Name(To).
RenameOver(f) == Renames /\ disk[f] # 0 /\ Write(f, edits + 2, "Create")

Edit(f) == CreateFile(f) \/ UpdateFile(f) \/ DeleteFile(f) \/ RenameOver(f)

\* map_notify_event: for a kind that says the path exists, the disk decides.
map_notify_event(f, kind) == IF disk[f] = 0 THEN "Delete" ELSE kind

\* The backend maps a notification and sends it; nobody receives it once the
\* coordinator is gone.
Send(msg) == rx' = IF pc = "done" THEN rx ELSE Append(rx, msg)

handle_events(t) ==
  /\ os[t] # <<>>
  /\ LET f == Head(os[t])[1] kind == Head(os[t])[2]
     IN  Send(FileChanges(t, f, IF kind = "Delete" THEN kind ELSE map_notify_event(f, kind)))
  /\ os' = [os EXCEPT ![t] = Tail(@)]
  /\ UNCHANGED <<disk, edits, taskVars, loopVars, initial, stepVars, closeVars, startVars,
                 history>>

-----------------------------------------------------------------------------
(* WatcherState. *)

\* merge_change_kind: the kind a path has after one more change.
merge_change_kind(old, new) ==
  CASE old = "Create" /\ new = "Update" -> "Create"
    [] old = "Create" /\ new = "Delete" -> "none"
    [] old = "Delete" /\ new = "Create" -> "Update"
    [] OTHER -> new

\* on_file_changes, for the one change of a message the task watches.
on_file_changes(f, kind) ==
  IF state \in {"Idle", "Debouncing"}
    THEN /\ state' = "Debouncing"
         /\ changes' = [changes EXCEPT ![f] = merge_change_kind(@, kind)]
    ELSE UNCHANGED <<state, changes>>

\* Variant: The change is batched, but its task is not marked.
BatchWithoutMark(m) ==
  /\ IF m.path \in watched[m.task] THEN on_file_changes(m.path, m.kind)
                                   ELSE UNCHANGED <<state, changes>>
  /\ UNCHANGED needs_rebuild

process_file_changes(m) ==
  IF m.path \in watched[m.task]
    THEN /\ needs_rebuild' = [needs_rebuild EXCEPT ![m.task] = TRUE]
         /\ on_file_changes(m.path, m.kind)
    ELSE UNCHANGED <<needs_rebuild, state, changes>>

-----------------------------------------------------------------------------
(* The coordinator. *)

dispatch(e) == pc' = "dispatch" /\ event' = e

\* Variant: The state that on_close returns is not stored.
CloseDropsState == pc' = "closing" /\ state' = "Idle"

\* A Close message, or a dispatch that close() cut short: run the close hooks.
handle_close == pc' = "closing" /\ state' = "Closing"

\* The next task of the sequence that needs a build, or the END event.
NextTask(after) ==
  LET due == {t \in Tasks : t > after /\ needs_rebuild[t]}
  IN  IF due = {} THEN dispatch(Event("end"))
      ELSE dispatch(TaskEvent("bundle_start", CHOOSE t \in due : \A u \in due : t <= u))

\* Watcher::run spawns the coordinator, whose initial build starts with START.
run ==
  /\ js = "made"
  /\ ~spawned
  /\ spawned' = TRUE
  /\ dispatch(Event("start"))
  /\ UNCHANGED <<fileVars, taskVars, rx, loopVars, initial, todo, callback, closeVars, js,
                 history>>

\* Variant: Only the permit of close() is looked at, not its flag.
PassUnchecked == pc' = "checked" /\ UNCHANGED state

\* await_handler_or_close looks at the flag, and waits for the permit of
\* close() and the callback together when it is not set.
PassCheck == ~closed /\ pc' = "checked" /\ UNCHANGED state

Dispatch ==
  /\ pc = "dispatch"
  /\ PassCheck \/ (closed /\ handle_close)
  /\ UNCHANGED <<fileVars, taskVars, rx, changes, batch, event, todo, callback, initial,
                 closeVars, startVars, history>>

\* A callback or a write begins.
Start(step) ==
  /\ pc' = step
  /\ late' = late + (IF closed THEN 1 ELSE 0)

\* The callback is polled once the wait for the permit is pending; close() may
\* have set its flag, and left its permit, since the flag was looked at.
StartCallback ==
  /\ pc = "checked"
  /\ Start("callback")
  /\ callback' = "runs"
  /\ UNCHANGED <<fileVars, taskVars, rx, loopVars, event, todo, initial, closeVars, startVars,
                 hooked>>

\* Variant: A close() is noticed only after the callback has returned.
CloseWaitsForCallback ==
  /\ pc = "checked" \/ (pc = "callback" /\ callback = "none")
  /\ permit
  /\ permit' = FALSE
  /\ handle_close
  /\ UNCHANGED <<fileVars, taskVars, rx, changes, batch, event, todo, callback, initial, closed,
                 js_closed, close_pc, startVars, history>>

\* close_notify wakes the coordinator, which drops its wait for the callback,
\* or leaves a permit that is found before the callback is polled.
CloseWins ==
  /\ pc \in {"checked", "callback"}
  /\ permit
  /\ permit' = FALSE
  /\ handle_close
  /\ UNCHANGED <<fileVars, taskVars, rx, changes, batch, event, todo, callback, initial, closed,
                 js_closed, close_pc, startVars, history>>

\* The callback of an event has returned, and the watcher is still open.
Returned(codes) ==
  /\ pc = "callback"
  /\ callback = "none"
  /\ ~closed
  /\ event.code \in codes

\* The callback has returned after close() set the flag.
ReturnedClosed ==
  /\ pc = "callback"
  /\ callback = "none"
  /\ closed
  /\ handle_close
  /\ UNCHANGED <<fileVars, taskVars, rx, changes, batch, event, todo, callback, initial,
                 closeVars, startVars, history>>

sequenceVars == <<fileVars, rx, state, changes, callback, closeVars, startVars, history>>

\* After the last change event the watchChange hooks run, then RESTART.
AfterChange ==
  /\ Returned({"change"})
  /\ batch' = batch \ {event.path}
  /\ IF batch' = {} THEN dispatch(Event("restart"))
                    ELSE \E f \in batch' : dispatch(ChangeEvent(f))
  /\ UNCHANGED <<sequenceVars, taskVars, todo, initial>>

AfterRestart ==
  /\ Returned({"restart"})
  /\ dispatch(Event("start"))
  /\ UNCHANGED <<sequenceVars, taskVars, batch, todo, initial>>

AfterStart ==
  /\ Returned({"start"})
  /\ NextTask(0)
  /\ UNCHANGED <<sequenceVars, taskVars, batch, todo, initial>>

AfterOutcome ==
  /\ Returned({"bundle_end", "error"})
  /\ NextTask(event.task)
  /\ UNCHANGED <<sequenceVars, taskVars, batch, todo, initial>>

\* The initial build goes straight to the loop; a later one drains first.
AfterEnd ==
  /\ Returned({"end"})
  /\ pc' = IF initial THEN "receive" ELSE "drain"
  /\ initial' = FALSE
  /\ UNCHANGED <<sequenceVars, taskVars, event, batch, todo>>

-----------------------------------------------------------------------------
(* WatchTask::build: scan, register what the scan read, write, register     *)
(* again.                                                                   *)

BuildStart ==
  /\ Returned({"bundle_start"})
  /\ pc' = "scan"
  /\ todo' = {Entry}
  /\ read' = [read EXCEPT ![event.task] = {}]
  /\ missed' = [missed EXCEPT ![event.task] = {}]
  /\ UNCHANGED <<sequenceVars, watched, needs_rebuild, built, seen, event, batch, initial>>

\* The scan reads one file and finds what it imports; an absent file is an
\* unresolved import.
ScanFile(f) ==
  LET t == event.task IN
  /\ pc = "scan"
  /\ f \in todo
  /\ read' = [read EXCEPT ![t] = @ \cup {f}]
  /\ seen' = [seen EXCEPT ![t][f] = disk[f]]
  /\ todo' = (todo \cup (IF disk[f] = 0 THEN {} ELSE Imports[f])) \ (read[t] \cup {f})
  /\ UNCHANGED <<sequenceVars, watched, needs_rebuild, built, missed, pc, event, batch, initial>>

\* update_watch_files_from: files that were loaded and still exist.
Registered(t) == watched[t] \cup {f \in read[t] : seen[t][f] # 0 /\ disk[f] # 0}

Unresolved(t) == \E f \in read[t] : seen[t][f] = 0

\* build() has returned with a BuildOutcome; code is the event that reports it.
BuildEnd(code) ==
  LET t == event.task IN
  /\ watched' = [watched EXCEPT ![t] = Registered(t)]
  /\ needs_rebuild' = [needs_rebuild EXCEPT ![t] = FALSE]
  /\ built' = [built EXCEPT ![t] = TRUE]
  /\ IF code = "closed" THEN handle_close /\ UNCHANGED event
                        ELSE dispatch(TaskEvent(code, t)) /\ UNCHANGED state

ScanDone == pc = "scan" /\ todo = {}

\* Registering opens a batch of the backend only for new files.
HasNewFiles(t) == Registered(t) # watched[t]

\* The files are watched before the scan's errors are looked at; when the
\* batch cannot be committed, the registration after the build retries it.
ScanFails ==
  /\ ScanDone
  /\ \/ Unresolved(event.task)
     \/ "scan" \in Failures
     \/ "register" \in Failures /\ HasNewFiles(event.task)
  /\ BuildEnd("error")
  /\ UNCHANGED <<fileVars, rx, changes, callback, closeVars, startVars, history, seen, read,
                 missed, batch, todo, initial>>

\* close() came during the scan: the output is discarded.
ScanClosed ==
  /\ ScanDone
  /\ ~Unresolved(event.task)
  /\ closed
  /\ BuildEnd("closed")
  /\ UNCHANGED <<fileVars, rx, changes, callback, closeVars, startVars, history, seen, read,
                 missed, batch, todo, initial>>

\* Variant: The files are watched only once the output is written.
WatchAfterWrite ==
  /\ ScanDone
  /\ ~Unresolved(event.task)
  /\ ~closed
  /\ pc' = "scanned"
  /\ UNCHANGED <<sequenceVars, taskVars, event, batch, todo, initial>>

\* The files are watched, and the flag is not set.
ScanSucceeds ==
  /\ ScanDone
  /\ ~Unresolved(event.task)
  /\ ~closed
  /\ watched' = [watched EXCEPT ![event.task] = Registered(event.task)]
  /\ pc' = "scanned"
  /\ UNCHANGED <<sequenceVars, needs_rebuild, built, seen, read, missed, event, batch, todo,
                 initial>>

StartWrite ==
  /\ pc = "scanned"
  /\ Start("write")
  /\ UNCHANGED <<fileVars, taskVars, rx, loopVars, event, todo, callback, initial, closeVars,
                 startVars, hooked>>

\* bundle_write or bundle_generate, and the warnings given to on_log.
WriteDone ==
  /\ pc = "write"
  /\ \/ BuildEnd("bundle_end")
     \/ "write" \in Failures /\ BuildEnd("error")
  /\ UNCHANGED <<fileVars, rx, changes, callback, closeVars, startVars, history, seen, read,
                 missed, batch, todo, initial>>

\* The last registration fails: build() returns before it clears
\* needs_rebuild, the coordinator logs the error and goes on.
RegistrationFails ==
  /\ "register_late" \in Failures
  /\ pc = "write" \/ ScanDone
  /\ HasNewFiles(event.task)
  /\ built' = [built EXCEPT ![event.task] = TRUE]
  /\ NextTask(event.task)
  /\ UNCHANGED <<sequenceVars, watched, needs_rebuild, seen, read, missed, batch, todo, initial>>

Build ==
  \/ BuildStart \/ (\E f \in Files : ScanFile(f))
  \/ ScanFails \/ ScanClosed \/ ScanSucceeds \/ StartWrite \/ WriteDone \/ RegistrationFails

-----------------------------------------------------------------------------
(* The loop: messages before the deadline, and a build when it fires. *)

Receive ==
  /\ pc \in {"receive", "drain"}
  /\ rx # <<>>
  /\ rx' = Tail(rx)
  /\ \/ /\ Head(rx).type = "FileChanges"
        /\ process_file_changes(Head(rx))
        /\ UNCHANGED pc
     \/ /\ Head(rx).type = "Close"
        /\ handle_close
        /\ UNCHANGED <<needs_rebuild, changes>>
  /\ UNCHANGED <<fileVars, watched, built, seen, read, missed, event, batch, todo, callback,
                 initial, closeVars, startVars, history>>

Drained ==
  /\ pc = "drain"
  /\ rx = <<>>
  /\ pc' = "receive"
  /\ UNCHANGED <<sequenceVars, taskVars, event, batch, todo, initial>>

\* The deadline fires when no message is queued; changes that cancelled each
\* other out start no build.
Timeout ==
  /\ pc = "receive"
  /\ state = "Debouncing"
  /\ rx = <<>>
  /\ state' = "Idle"
  /\ changes' = NoChanges
  /\ batch' = {f \in Files : changes[f] # "none"}
  /\ IF batch' = {} THEN UNCHANGED <<pc, event>>
                    ELSE \E f \in batch' : dispatch(ChangeEvent(f))
  /\ UNCHANGED <<fileVars, taskVars, rx, todo, callback, initial, closeVars, startVars, history>>

\* handle_close: the closeWatcher hooks of the tasks that have built, then
\* their closing, then the close event, which is awaited.
CloseHooks ==
  /\ pc = "closing"
  /\ hooked' = [t \in Tasks \cup {0} |->
                  IF t = 0 THEN hooked[0] + 1 ELSE IF built[t] THEN hooked[t] + 1 ELSE hooked[t]]
  /\ pc' = "close_event"
  /\ UNCHANGED <<fileVars, taskVars, rx, loopVars, event, todo, callback, initial, closeVars,
                 startVars, late>>

Closed ==
  /\ pc = "close_event"
  /\ state' = "Closed"
  /\ pc' = "done"
  /\ UNCHANGED <<fileVars, taskVars, rx, changes, event, batch, todo, callback, initial,
                 closeVars, startVars, history>>

Coordinator ==
  \/ Dispatch \/ StartCallback \/ CloseWins \/ ReturnedClosed
  \/ AfterChange \/ AfterRestart \/ AfterStart \/ AfterOutcome \/ AfterEnd
  \/ Build \/ Receive \/ Drained \/ Timeout \/ CloseHooks \/ Closed

-----------------------------------------------------------------------------
(* close(): the emitter, the JavaScript Watcher, then Watcher::close. *)

\* Until createWatcher is done, emitter.close() does nothing; a second call
\* of Watcher.close returns at once.
CallClose(c) ==
  /\ close_pc[c] = "none"
  /\ IF js = "creating" \/ js_closed
       THEN close_pc' = [close_pc EXCEPT ![c] = "noop"] /\ UNCHANGED js_closed
       ELSE close_pc' = [close_pc EXCEPT ![c] = "stopping"] /\ js_closed' = TRUE
  /\ UNCHANGED <<closed, permit>>

otherVars == <<fileVars, taskVars, loopVars, initial, pc, event, todo, startVars, history>>

\* Somebody else than a callback calls close().
close(c) ==
  /\ CallClose(c)
  /\ UNCHANGED <<otherVars, rx, callback>>

\* A callback calls close() and awaits it.
CallbackAwaitsClose(c) ==
  /\ callback = "runs"
  /\ CallClose(c)
  /\ callback' = c
  /\ UNCHANGED <<otherVars, rx>>

CallbackReturns ==
  /\ \/ callback = "runs"
     \/ callback \in Callers /\ close_pc[callback] \in {"resolved", "noop"}
  /\ callback' = "none"
  /\ UNCHANGED <<otherVars, rx, closeVars>>

\* The workers are stopped; then Watcher::close stores the flag,
Flag(c) ==
  /\ close_pc[c] = "stopping"
  /\ close_pc' = [close_pc EXCEPT ![c] = "flagged"]
  /\ closed' = TRUE
  /\ UNCHANGED <<otherVars, rx, callback, permit, js_closed>>

\* leaves a permit,
NotifyOne(c) ==
  /\ close_pc[c] = "flagged"
  /\ close_pc' = [close_pc EXCEPT ![c] = "notified"]
  /\ permit' = TRUE
  /\ UNCHANGED <<otherVars, rx, callback, closed, js_closed>>

\* sends Close,
SendClose(c) ==
  /\ close_pc[c] = "notified"
  /\ close_pc' = [close_pc EXCEPT ![c] = "waiting"]
  /\ Send(CloseMsg)
  /\ UNCHANGED <<otherVars, callback, closed, permit, js_closed>>

\* Variant: close() returns once the close sequence has begun.
ResolveOnClosing(c) ==
  /\ close_pc[c] = "waiting"
  /\ \/ spawned /\ pc \in {"closing", "done"} /\ close_pc' = [close_pc EXCEPT ![c] = "resolved"]
     \/ ~spawned /\ close_pc' = [close_pc EXCEPT ![c] = "noop"]
  /\ UNCHANGED <<otherVars, rx, callback, closed, permit, js_closed>>

\* and waits for the coordinator, if it was spawned.
wait_for_close(c) ==
  /\ close_pc[c] = "waiting"
  /\ \/ spawned /\ pc = "done" /\ close_pc' = [close_pc EXCEPT ![c] = "resolved"]
     \/ ~spawned /\ close_pc' = [close_pc EXCEPT ![c] = "noop"]
  /\ UNCHANGED <<otherVars, rx, callback, closed, permit, js_closed>>

Closing(c) == Flag(c) \/ NotifyOne(c) \/ SendClose(c) \/ wait_for_close(c)

createWatcher ==
  /\ js = "creating"
  /\ js' = "made"
  /\ UNCHANGED <<fileVars, taskVars, rx, loopVars, initial, stepVars, closeVars, spawned,
                 history>>

Next ==
  \/ createWatcher \/ run
  \/ Coordinator
  \/ CallbackReturns
  \/ \E f \in Files : Edit(f)
  \/ \E t \in Tasks : handle_events(t)
  \/ \E c \in Callers : close(c) \/ CallbackAwaitsClose(c) \/ Closing(c)

Spec == Init /\ [][Next]_vars

\* Every task of the runtime that can run does, the backend delivers its
\* notifications, and callbacks return (unless they await a close()).
FairSpec ==
  /\ Spec
  /\ WF_vars(createWatcher) /\ WF_vars(run)
  /\ WF_vars(Coordinator)
  /\ WF_vars(CallbackReturns)
  /\ \A t \in Tasks : WF_vars(handle_events(t))
  /\ \A c \in Callers : WF_vars(Closing(c))

-----------------------------------------------------------------------------
(* Properties. *)

\* Nothing is under way: the coordinator waits for a message, no change is
\* pending and no notification is on its way.
Quiet ==
  /\ pc = "receive"
  /\ state = "Idle"
  /\ rx = <<>>
  /\ \A t \in Tasks : os[t] = <<>>

\* The latest build of t read an older version of f than the one on disk.
Stale(t, f) ==
  f \in (read[t] \cap watched[t]) \ missed[t] /\ seen[t][f] # disk[f]

\* An edit of a watched file, whenever it happens during a build, a callback
\* or a debounce window, leaves a quiet watcher whose task has built it or is
\* still marked for a build.
EditsAreNotForgotten ==
  Quiet /\ ~closed => \A t \in Tasks, f \in Files : Stale(t, f) => needs_rebuild[t]

\* A close() that waited for the coordinator resolves after the closeWatcher
\* hooks ran once for every task with a build, and the close event once.
CloseIsComplete ==
  (\E c \in Callers : close_pc[c] = "resolved") =>
    /\ pc = "done"
    /\ hooked[0] = 1
    /\ \A t \in Tasks : hooked[t] = IF built[t] THEN 1 ELSE 0

\* Once close() has set its flag, at most one more consumer callback or write of
\* an output begins: the one whose look at the flag came just before.  Its end
\* leads to the closing sequence, however many tasks and events were to follow.
AtMostOneLateStart == late <= 1

\* Every close() is answered, also one that a callback awaits while the
\* coordinator awaits that callback.
CloseReturns ==
  \A c \in Callers :
    (close_pc[c] # "none") ~> (close_pc[c] \in {"resolved", "noop"})

\* An edit of a watched file is built sooner or later, or the watcher is
\* closed, or its change was cancelled out and the task stays marked.
EditsAreBuilt ==
  \A t \in Tasks, f \in Files :
    Stale(t, f) ~> (~Stale(t, f) \/ closed \/ (Quiet /\ needs_rebuild[t]))

\* An edit of a watched file is built sooner or later or the watcher is closed,
\* whichever changes it is merged with.
EveryEditIsBuilt ==
  \A t \in Tasks, f \in Files : Stale(t, f) ~> (~Stale(t, f) \/ closed)

\* A close() that has resolved leaves a watcher that stops.
CloseStopsWatcher ==
  \A c \in Callers : (close_pc[c] \in {"resolved", "noop"}) ~> (pc = "done")
=============================================================================
