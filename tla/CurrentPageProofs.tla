---------------------------- MODULE CurrentPageProofs ----------------------------
(***************************************************************************)
(* Proofs about HmrDelivery.tla, continued: a page runs the code of the    *)
(* files on disk once everything that is on its way has arrived, and has   *)
(* the factories of everything it is asked to run.                         *)
(***************************************************************************)
EXTENDS HmrDeliveryProofs, WellFoundedInduction

-----------------------------------------------------------------------------
(* The inductive invariant. *)

\* The code is that of m in the graph g; what it reads of its imports may differ.
Current(g, m, code) ==
  m \in DOMAIN g /\ code.text = g[m].text /\ code.imports = g[m].imports

\* A patch that brings a newer copy of m and re-runs m if it ran.
Replaces(changed, carried, m, stamp) ==
  m \in changed \cap DOMAIN carried /\ carried[m].stamp > stamp

\* Such a patch is on its way to the page p of c, or the task t is about to publish it.
Coming(c, p, t, m, stamp) ==
  \/ \E i \in DOMAIN p.inbox : Replaces(p.inbox[i].changed, p.inbox[i].carried, m, stamp)
  \/ c \in DOMAIN t.updates /\ Replaces(t.changed, t.updates[c].carried, m, stamp)

\* The page has a newer copy than the one with this stamp.
HasNewer(p, m, stamp) == m \in DOMAIN p.factories /\ p.factories[m].stamp > stamp

\* Every update was computed for the page of c, and those patches it left alone would have
\* replaced no copy that it has or waits for.
Served(c) == missed[c] \subseteq {"skip"}

\* What a page runs is current or will be replaced, and so is what was sent to it,
\* unless it comes too late to be registered.
CurrentOf(c) ==
  page[c].st = "live" /\ Served(c) =>
    /\ \A m \in DOMAIN page[c].cache :
         \/ Current(graph, m, page[c].cache[m].code)
         \/ Coming(c, page[c], task, m, page[c].cache[m].stamp)
    /\ \A f \in SentTo(c) : \A m \in DOMAIN f :
         \/ Current(graph, m, f[m].code)
         \/ Coming(c, page[c], task, m, f[m].stamp)
         \/ HasNewer(page[c], m, f[m].stamp)
CurrentInv == \A c \in Clients : CurrentOf(c)

\* A file that the graph does not have as it is on disk will be scanned.
DiskInv ==
  \A m \in DOMAIN graph :
    \/ graph[m] = disk[m]
    \/ m \in events \cup pending_rescans
    \/ task.phase = "compute" /\ m \in task.files

\* No copy that is recorded as shipped or pending is newer than the latest rebuild, so
\* the next hot update finds every changed module stale; and a patch that is yet to be
\* published carries the latest copies.
NotAhead(stamps, n) == \A m \in DOMAIN stamps : stamps[m] <= n
RecordInv ==
  /\ \A c \in DOMAIN clients : NotAhead(clients[c].shipped, rebuild_seq)
  /\ \A c \in DOMAIN task.snapshot : NotAhead(task.snapshot[c].shipped, rebuild_seq)
  /\ \A f \in DOMAIN pending_payloads : NotAhead(pending_payloads[f].modules, rebuild_seq)
  /\ task.phase \notin {"number", "publish"} => DOMAIN task.updates = {}
  /\ \A c \in DOMAIN task.updates : \A m \in DOMAIN task.updates[c].carried :
       task.updates[c].carried[m].stamp = latest[m]

-----------------------------------------------------------------------------
(* The graph and the files. *)

\* What the graph lacks is remembered until it is scanned.
LEMMA DiskStep ==
  ASSUME TypeInv, DiskInv, [Next]_vars
  PROVE  DiskInv'
<1>0. /\ task \in Tasks /\ disk \in [Modules -> Sources]
      /\ DOMAIN graph \subseteq Modules
  BY DEF TypeInv, GraphType, IsGraph
<1>1. ASSUME NEW m \in Modules, Edit(m)
      PROVE  DiskInv'
  <2>1. /\ graph' = graph /\ pending_rescans' = pending_rescans /\ task' = task
        /\ events \subseteq events' /\ (m \in DOMAIN graph => m \in events')
        /\ disk' = disk \/ \E x : disk' = [disk EXCEPT ![m] = x]
    BY <1>1 DEF Edit, graphVars
  <2>2. \A y \in Modules : y # m => disk'[y] = disk[y]
    BY <1>0, <2>1
  <2> QED BY <1>0, <2>1, <2>2 DEF DiskInv
<1>2. ASSUME NEW ms \in SUBSET Modules, graph' = FetchModules(ms), disk' = disk,
             events' = events, pending_rescans \subseteq ms,
             task.phase = "compute" => task.files \subseteq ms
      PROVE  DiskInv'
  <2>1. \A m \in DOMAIN graph' :
          graph'[m] = IF m \in DOMAIN graph \ ms THEN graph[m] ELSE disk[m]
    BY <1>2, FetchedGraph
  <2>2. ASSUME NEW m \in DOMAIN graph'
        PROVE  graph'[m] = disk'[m] \/ m \in events'
    <3>1. CASE m \in DOMAIN graph \ ms
      BY <1>2, <2>1, <3>1 DEF DiskInv
    <3>2. CASE m \notin DOMAIN graph \ ms
      BY <1>2, <2>1, <3>2
    <3> QED BY <3>1, <3>2
  <2> QED BY <2>2 DEF DiskInv
<1>3. ASSUME NEW files \in SUBSET events, NEW rebuild \in BOOLEAN, StartHmr(files, rebuild)
      PROVE  DiskInv'
  <2>1. /\ task.phase = "idle" /\ events' = events \ files
        /\ UNCHANGED <<disk, graph, pending_rescans>>
    BY <1>3 DEF StartHmr, graphVars
  <2>2. task'.phase = "compute" /\ task'.files = files
    BY <1>3, HmrStarted
  <2> QED BY <2>1, <2>2 DEF DiskInv
<1>4. CASE ComputeFails
  BY <1>4 DEF ComputeFails, DiskInv, diskVars
<1>5. CASE Compute
  <2>1. /\ graph' = FetchModules(Refetched) /\ Refetched \subseteq Modules
    BY <1>5, Computed, RefetchedScanned
  <2> QED BY <1>2, <1>5, <2>1 DEF Compute, Refetched, diskVars
<1>6. CASE Rebuild
  <2>1. task.phase = "rebuild" /\ UNCHANGED <<disk, events>>
    BY <1>6 DEF Rebuild, diskVars
  <2>2. CASE graph' = graph /\ pending_rescans \subseteq pending_rescans'
    BY <2>1, <2>2 DEF DiskInv
  <2>3. CASE graph' = FetchModules(task.files \cup pending_rescans)
    <3>1. task.files \cup pending_rescans \in SUBSET Modules
      BY <1>0 DEF TypeInv, GraphType, Tasks
    <3> QED BY <1>2, <2>1, <2>3, <3>1
  <2> QED BY <1>6, <2>2, <2>3 DEF Rebuild
<1>7. CASE CompileLazyEntry
  <2>1. PICK r \in Routes : graph' = FetchModules(pending_rescans \cup ({r} \ DOMAIN graph))
    BY <1>7, Compiled
  <2>2. pending_rescans \cup ({r} \ DOMAIN graph) \in SUBSET Modules
    BY <1>0, ModulesAssumption DEF TypeInv, GraphType
  <2>3. task.phase = "lazy" /\ UNCHANGED <<disk, events>>
    BY <1>7 DEF CompileLazyEntry, diskVars
  <2> QED BY <1>2, <2>1, <2>2, <2>3
<1>8. CASE \/ NumberPatches \/ HmrDone \/ StartRebuild \/ UNCHANGED vars
           \/ \E c \in Clients : PublishPatch(c) \/ ClientStep(c)
           \/ \E c \in Clients, r \in Routes : StartLazy(c, r)
  <2>1. /\ UNCHANGED <<disk, events, graph, pending_rescans>>
        /\ task' = task \/ task.phase # "compute"
    BY <1>8 DEF NumberPatches, HmrDone, StartRebuild, PublishPatch, StartLazy, ClientStep,
       LoadPage, register_client, remove_client, ReceivePush, requestLazy, ReceiveChunk,
       notify_payload_delivered, diskVars, graphVars, vars
  <2> QED BY <2>1 DEF DiskInv
<1> QED BY <1>1, <1>3, <1>4, <1>5, <1>6, <1>7, <1>8 DEF Next

-----------------------------------------------------------------------------
(* What is recorded of the clients. *)

\* Copies are not ahead of the latest rebuild.
LEMMA CopiesNotAhead ==
  ASSUME TypeInv, StampInv, NEW f \in AllCopies, NEW m \in DOMAIN f
  PROVE  f[m].stamp <= rebuild_seq /\ f[m].stamp \in Nat
<1>1. m \in DOMAIN graph /\ f[m].stamp <= latest[m]
  BY DEF StampInv
<1>2. m \in Modules /\ latest \in [Modules -> 0 .. rebuild_seq] /\ rebuild_seq \in Nat
  BY <1>1 DEF TypeInv, GraphType, IsGraph
<1>3. f[m].stamp \in Nat
  BY AllCopiesType, CopyFields
<1> QED BY <1>1, <1>2, <1>3

\* So are their stamps in a pending entry.
LEMMA PendingNotAhead ==
  ASSUME NEW n \in Nat, NEW carried \in CopyMaps, \A m \in DOMAIN carried : carried[m].stamp <= n
  PROVE  \A m \in DOMAIN Stamps(carried) : Stamps(carried)[m] <= n
BY StampsOf

\* Later rebuilds only raise the bound.
LEMMA CounterGrows ==
  ASSUME TypeInv, [Next]_vars
  PROVE  /\ rebuild_seq \in Nat /\ rebuild_seq' \in Nat /\ rebuild_seq' >= rebuild_seq
         /\ \A s \in StampMaps : NotAhead(s, rebuild_seq) => NotAhead(s, rebuild_seq')
<1>1. rebuild_seq \in Nat
  BY DEF TypeInv, GraphType
<1>2. rebuild_seq' = rebuild_seq \/ rebuild_seq' = rebuild_seq + 1
  <2>1. rebuild_seq' = rebuild_seq \/ Compute
    BY DEF Next, ClientStep, Edit, StartHmr, ComputeFails, NumberPatches, PublishPatch, HmrDone,
       StartRebuild, Rebuild, StartLazy, CompileLazyEntry, LoadPage, register_client,
       remove_client, ReceivePush, requestLazy, ReceiveChunk, notify_payload_delivered,
       stampVars, vars
  <2> QED BY <2>1, Computed
<1>3. ASSUME NEW s \in StampMaps, NotAhead(s, rebuild_seq)
      PROVE  NotAhead(s, rebuild_seq')
  <2>1. \A m \in DOMAIN s : s[m] \in Nat
    BY MapFields DEF StampMaps
  <2> QED BY <1>1, <1>2, <1>3, <2>1 DEF NotAhead
<1> QED BY <1>1, <1>2, <1>3

\* A task has updates only while it numbers and publishes them.
LEMMA NextPhase ==
  ASSUME TypeInv, [Next]_vars,
         task.phase \notin {"number", "publish"} => DOMAIN task.updates = {}
  PROVE  task'.phase \notin {"number", "publish"} => DOMAIN task'.updates = {}
<1>0. task \in Tasks
  BY DEF TypeInv
<1>1. CASE task' = task
  BY <1>1
<1>2. CASE DOMAIN task'.updates = {}
  BY <1>2
<1>3. CASE Compute
  <2>1. task'.phase = "number"
    BY <1>0, <1>3, Computed DEF Tasks
  <2> QED BY <2>1
<1>4. CASE NumberPatches
  <2>1. task'.phase = "publish"
    BY <1>0, <1>4, NumberedPatches DEF Tasks
  <2> QED BY <2>1
<1>5. ASSUME NEW c \in Clients, PublishPatch(c)
      PROVE  task'.phase = "publish"
  BY <1>0, <1>5, Published DEF Tasks
<1>6. CASE task' = Idle
  BY <1>6, IdleType
<1>7. CASE ComputeFails
  <2>1. DOMAIN task.updates = {}
    BY <1>7 DEF ComputeFails
  <2>2. task' = Idle \/ task'.updates = task.updates
    BY <1>0, <1>7 DEF ComputeFails, EndTask, Tasks
  <2> QED BY <2>1, <2>2, IdleType
<1>8. CASE HmrDone
  <2>1. task.updates = <<>> /\ (task' = Idle \/ task' = [task EXCEPT !.phase = "rebuild"])
    BY <1>8 DEF HmrDone, EndTask
  <2>2. task' = Idle \/ task'.updates = <<>>
    BY <1>0, <2>1 DEF Tasks
  <2> QED BY <2>2, IdleType, EmptySeq
<1>9. CASE StartRebuild
  <2>1. task'.updates = Idle.updates
    BY <1>9 DEF StartRebuild, Idle
  <2> QED BY <2>1, IdleType
<1>10. CASE Rebuild \/ CompileLazyEntry
  BY <1>6, <1>10 DEF Rebuild, CompileLazyEntry, EndTask
<1>11. CASE \/ \E m \in Modules : Edit(m)
            \/ \E c \in Clients : ClientStep(c)
            \/ UNCHANGED vars
  BY <1>1, <1>11 DEF Edit, ClientStep, LoadPage, register_client, remove_client, ReceivePush,
     requestLazy, ReceiveChunk, notify_payload_delivered, vars
<1> QED BY <1>2, <1>3, <1>4, <1>5, <1>7, <1>8, <1>9, <1>10, <1>11, HmrStarted, LazyStarted
           DEF Next

\* The records of the clients, step by step.
LEMMA RecordStep ==
  ASSUME TypeInv, StampInv, RecordInv, [Next]_vars
  PROVE  RecordInv'
<1> DEFINE ClientsBehind == \A c \in DOMAIN clients' : NotAhead(clients'[c].shipped, rebuild_seq')
           PendingBehind == \A f \in DOMAIN pending_payloads' :
                              NotAhead(pending_payloads'[f].modules, rebuild_seq')
           SnapshotBehind == \A c \in DOMAIN task'.snapshot :
                               NotAhead(task'.snapshot[c].shipped, rebuild_seq')
<1>0. /\ rebuild_seq \in Nat /\ rebuild_seq' \in Nat /\ rebuild_seq' >= rebuild_seq
      /\ \A c \in DOMAIN clients : clients[c].shipped \in StampMaps
                                   /\ NotAhead(clients[c].shipped, rebuild_seq')
      /\ \A c \in DOMAIN task.snapshot : NotAhead(task.snapshot[c].shipped, rebuild_seq')
      /\ \A f \in DOMAIN pending_payloads : pending_payloads[f].modules \in StampMaps
                                            /\ NotAhead(pending_payloads[f].modules, rebuild_seq')
  <2>1. /\ \A c \in DOMAIN clients : clients[c].shipped \in StampMaps
        /\ \A c \in DOMAIN task.snapshot : task.snapshot[c].shipped \in StampMaps
        /\ \A f \in DOMAIN pending_payloads : pending_payloads[f].modules \in StampMaps
    BY ServerFields DEF Sessions, TypeInv, SessionType, Payloads
  <2> QED BY <2>1, CounterGrows DEF RecordInv
<1>1. ClientsBehind
  <2>1. CASE UNCHANGED clients
    BY <1>0, <2>1
  <2>2. CASE NumberPatches
    BY <1>0, <2>2, NumberedPatches
  <2>3. ASSUME NEW c \in Clients, register_client(c) PROVE ClientsBehind
    <3>1. clients'[c] = NewSession /\ NewSession.shipped = <<>>
      <4>1. NewSession.shipped = <<>>
        BY DEF NewSession
      <4> QED BY <2>3, <4>1, Registered
    <3>2. DOMAIN <<>> = {}
      BY EmptySeq
    <3> QED BY <1>0, <2>3, <3>1, <3>2, Registered DEF NotAhead
  <2>4. CASE \E c \in Clients : remove_client(c)
    BY <1>0, <2>4, Removed
  <2>5. ASSUME NEW c \in Clients, NEW f, notify_payload_delivered(c, f) PROVE ClientsBehind
    <3>1. ASSUME c \in DOMAIN clients PROVE NotAhead(clients'[c].shipped, rebuild_seq')
      <4>1. clients'[c].shipped = MaxMerge(clients[c].shipped, pending_payloads[f].modules)
            /\ f \in DOMAIN pending_payloads
        BY <2>5, <3>1, Notified
      <4>2. /\ NotAhead(clients[c].shipped, rebuild_seq')
            /\ NotAhead(pending_payloads[f].modules, rebuild_seq')
            /\ clients[c].shipped \in StampMaps /\ pending_payloads[f].modules \in StampMaps
        BY <1>0, <3>1, <4>1
      <4> QED BY <4>1, <4>2 DEF NotAhead, MaxMerge
    <3>2. DOMAIN clients' = DOMAIN clients
          /\ \A d \in DOMAIN clients : d # c => clients'[d] = clients[d]
      BY <2>5, Notified
    <3> QED BY <1>0, <3>1, <3>2
  <2>6. CASE \/ \E m \in Modules : Edit(m)
             \/ \E files \in SUBSET events, rebuild \in BOOLEAN : StartHmr(files, rebuild)
             \/ ComputeFails \/ Compute \/ HmrDone \/ StartRebuild \/ Rebuild \/ CompileLazyEntry
             \/ \E c \in Clients : PublishPatch(c) \/ LoadPage(c) \/ ReceivePush(c)
             \/ \E c \in Clients, r \in Routes : StartLazy(c, r) \/ requestLazy(c, r)
             \/ \E c \in Clients : \E k \in page[c].chunks : ReceiveChunk(c, k)
             \/ UNCHANGED vars
    <3>1. UNCHANGED clients
      BY <2>6 DEF Edit, StartHmr, ComputeFails, Compute, HmrDone, StartRebuild, Rebuild,
         CompileLazyEntry, PublishPatch, LoadPage, ReceivePush, StartLazy, requestLazy,
         ReceiveChunk, vars
    <3> QED BY <2>1, <3>1
  <2> HIDE DEF ClientsBehind
  <2> QED BY <2>2, <2>3, <2>4, <2>5, <2>6 DEF Next, ClientStep
<1>2. PendingBehind
  <2>1. CASE \A f \in DOMAIN pending_payloads' :
               f \in DOMAIN pending_payloads /\ pending_payloads'[f] = pending_payloads[f]
    BY <1>0, <2>1
  <2>2. ASSUME NEW carried \in CopyMaps, NewPending(Stamps(carried)),
               \A m \in DOMAIN carried : carried[m].stamp <= rebuild_seq'
        PROVE  PendingBehind
    <3>1. NotAhead(Stamps(carried), rebuild_seq')
      BY <1>0, <2>2, PendingNotAhead DEF NotAhead
    <3>2. \A f \in DOMAIN pending_payloads' :
            \/ pending_payloads'[f].modules = Stamps(carried)
            \/ f \in DOMAIN pending_payloads /\ pending_payloads'[f] = pending_payloads[f]
      BY <2>2 DEF NewPending
    <3> QED BY <1>0, <3>1, <3>2
  <2>3. ASSUME NEW c \in Clients, PublishPatch(c)
        PROVE  PendingBehind
    <3>1. /\ NewPending(Stamps(task.updates[c].carried)) /\ c \in DOMAIN task.updates
          /\ task.updates[c].carried \in CopyMaps
      BY <2>3, Published, ServerFields
    <3>2. task.updates[c].carried \in AllCopies /\ rebuild_seq' = rebuild_seq
      BY <2>3, <3>1 DEF AllCopies, SentTo, PublishPatch, stampVars
    <3>3. \A m \in DOMAIN task.updates[c].carried :
            task.updates[c].carried[m].stamp <= rebuild_seq'
      BY <3>2, CopiesNotAhead
    <3> QED BY <2>2, <3>1, <3>3
  <2>4. CASE CompileLazyEntry
    <3>1. PICK k \in Chunks : Rendered(k.carried, graph', latest) /\ NewPending(Stamps(k.carried))
      BY <2>4, Handed
    <3>2. IsGraph(graph') /\ rebuild_seq' = rebuild_seq
      BY <2>4, Compiled DEF CompileLazyEntry, stampVars
    <3>3. latest \in [Modules -> 0 .. rebuild_seq] /\ latest \in [Modules -> Nat]
      BY LatestType DEF TypeInv, GraphType
    <3>4. k.carried \in CopyMaps
          /\ \A m \in DOMAIN k.carried : m \in Modules /\ k.carried[m].stamp = latest[m]
      BY <3>1, <3>2, <3>3, RenderedScanned DEF IsGraph
    <3>5. \A m \in DOMAIN k.carried : k.carried[m].stamp <= rebuild_seq'
      BY <1>0, <3>2, <3>3, <3>4
    <3> QED BY <2>2, <3>1, <3>4, <3>5
  <2>5. CASE \E c \in Clients :
               remove_client(c) \/ \E f \in page[c].ran : notify_payload_delivered(c, f)
    BY <2>1, <2>5, Removed, Notified
  <2>6. CASE \/ \E m \in Modules : Edit(m)
             \/ \E files \in SUBSET events, rebuild \in BOOLEAN : StartHmr(files, rebuild)
             \/ ComputeFails \/ Compute \/ NumberPatches \/ HmrDone \/ StartRebuild \/ Rebuild
             \/ \E c \in Clients : LoadPage(c) \/ register_client(c) \/ ReceivePush(c)
             \/ \E c \in Clients, r \in Routes : StartLazy(c, r) \/ requestLazy(c, r)
             \/ \E c \in Clients : \E k \in page[c].chunks : ReceiveChunk(c, k)
             \/ UNCHANGED vars
    <3>1. UNCHANGED pending_payloads
      BY <2>6 DEF Edit, StartHmr, ComputeFails, Compute, NumberPatches, HmrDone, StartRebuild,
         Rebuild, LoadPage, register_client, ReceivePush, StartLazy, requestLazy,
         ReceiveChunk, vars
    <3> QED BY <2>1, <3>1
  <2> HIDE DEF PendingBehind
  <2> QED BY <2>3, <2>4, <2>5, <2>6 DEF Next, ClientStep
<1>3. SnapshotBehind
  <2>1. CASE task'.snapshot = task.snapshot \/ DOMAIN task'.snapshot = {}
    BY <1>0, <2>1
  <2>2. CASE \E files \in SUBSET events, rebuild \in BOOLEAN : StartHmr(files, rebuild)
    BY <1>0, <2>2, HmrStarted
  <2>3. ASSUME NEW c \in Clients, NEW r \in Routes, StartLazy(c, r)
        PROVE  SnapshotBehind
    <3>1. DOMAIN <<>> = {}
      BY EmptySeq
    <3>2. NotAhead(task'.snapshot[c].shipped, rebuild_seq')
      BY <1>0, <2>3, <3>1, LazyStarted DEF NotAhead
    <3> QED BY <2>3, <3>2, LazyStarted
  <2>4. CASE \/ ComputeFails \/ HmrDone \/ Compute \/ NumberPatches
             \/ \E c \in Clients : PublishPatch(c)
    <3>1. task' = Idle \/ task'.snapshot = task.snapshot
      <4>1. task \in Tasks
        BY DEF TypeInv
      <4>2. CASE ComputeFails \/ HmrDone
        BY <4>1, <4>2 DEF ComputeFails, HmrDone, EndTask, Tasks
      <4>3. CASE Compute
        BY <4>1, <4>3, Computed DEF Tasks
      <4>4. CASE NumberPatches \/ \E c \in Clients : PublishPatch(c)
        BY <4>1, <4>4, NumberedPatches, Published DEF Tasks
      <4> QED BY <2>4, <4>2, <4>3, <4>4
    <3> QED BY <2>1, <3>1, IdleType
  <2>5. CASE \/ \E m \in Modules : Edit(m)
             \/ \E c \in Clients : ClientStep(c)
             \/ Rebuild \/ CompileLazyEntry \/ StartRebuild
             \/ UNCHANGED vars
    <3>1. UNCHANGED task \/ task' = Idle \/ task'.snapshot = Idle.snapshot
      BY <2>5 DEF Edit, ClientStep, LoadPage, register_client, remove_client, ReceivePush,
         requestLazy, ReceiveChunk, notify_payload_delivered, Rebuild, CompileLazyEntry,
         StartRebuild, Idle, EndTask, vars
    <3> QED BY <2>1, <3>1, IdleType
  <2> HIDE DEF SnapshotBehind
  <2> QED BY <2>2, <2>3, <2>4, <2>5 DEF Next
<1>4. ASSUME NEW c \in DOMAIN task'.updates, NEW m \in DOMAIN task'.updates[c].carried
      PROVE  task'.updates[c].carried[m].stamp = latest'[m]
  <2>1. CASE Rendered(task'.updates[c].carried, graph', latest')
    <3>1. IsGraph(graph') /\ latest' \in [Modules -> Nat]
      BY NextGraphType, <1>0 DEF GraphType
    <3> QED BY <2>1, <3>1, RenderedScanned
  <2>2. CASE /\ c \in DOMAIN task.updates /\ ~Compute
             /\ task'.updates[c].carried = task.updates[c].carried
    <3>1. latest' = latest
      BY <2>2, StampsGrow
    <3> QED BY <2>2, <3>1 DEF RecordInv
  <2>3. CASE c \in DOMAIN task.updates /\ Compute
    BY <2>3 DEF RecordInv, Compute
  <2> QED BY <2>1, <2>2, <2>3, NextUpdates
<1> QED BY <1>1, <1>2, <1>3, <1>4, NextPhase DEF RecordInv

-----------------------------------------------------------------------------
(* The patches of a hot update. *)

\* Every client whose session the HMR stage had gets a patch with the changed modules, and
\* a page that is open without one is on record.
LEMMA PatchCarries ==
  ASSUME TypeInv, RecordInv, Compute, NEW m \in task'.changed
  PROVE  /\ m \in Refetched \ Unchanged(Refetched, graph')
         /\ \A c \in DOMAIN task.snapshot :
              /\ c \in DOMAIN task'.updates /\ m \in DOMAIN task'.updates[c].carried
              /\ task'.updates[c].carried[m].stamp = rebuild_seq + 1
         /\ \A c \in Clients : page[c].st = "live" /\ c \notin DOMAIN task.snapshot =>
              "late" \in missed'[c]
<1> DEFINE g == FetchModules(Refetched)
           new == DOMAIN g \ DOMAIN graph
           changed == Refetched \ Unchanged(Refetched, g)
           importer == rerendered_importers(g, changed)
           lat == Stamped(changed \cup new \cup importer)
           affected == collect_client_update_superset(g, changed) \cup new \cup importer
           added == added_static_deps(g, changed, new)
           need == [c \in DOMAIN task.snapshot |->
                      NeededBy(g, lat, affected, added, task.snapshot[c])]
           patched == {c \in DOMAIN need : need[c] # {} \/ changed # {}}
           updates == [c \in patched |-> [seq |-> 0, carried |-> Payload(g, lat, need[c])]]
<1>1. /\ graph' = g /\ latest' = lat
      /\ task' = [task EXCEPT !.phase = "number", !.changed = changed, !.updates = updates]
      /\ missed' = Missing({c \in Clients : page[c].st = "live"
                              /\ c \notin DOMAIN task.snapshot /\ changed # {}}, {"late"})
  BY DEF Compute
<1>2. task'.changed = changed /\ task'.updates = updates /\ m \in changed
  BY <1>1 DEF TypeInv, Tasks
<1>3. /\ changed \subseteq Modules /\ IsGraph(g) /\ task.phase = "compute"
  BY RefetchedScanned, FetchedGraph DEF Compute
<1>4. m \in Modules /\ lat[m] = rebuild_seq + 1
  BY <1>2, <1>3 DEF Stamped
<1>5. m \in affected
  <2> DEFINE step == [x \in Modules |->
               IF x \in Accepting THEN {}
               ELSE {p \in importers(g, x) : <<p, x>> \notin AcceptedDeps}]
  <2>1. step \in [Modules -> SUBSET Modules]
    BY <1>3, ModulesAssumption DEF importers, IsGraph
  <2> HIDE DEF step, g, changed
  <2>2. changed \subseteq Closure(changed, step)
    BY <1>3, <2>1, ClosureIsLeast
  <2> QED BY <1>2, <2>2 DEF collect_client_update_superset, step
<1> HIDE DEF g, new, changed, importer, lat, affected, added
<1>6. ASSUME NEW c \in DOMAIN task.snapshot
      PROVE  /\ c \in DOMAIN task'.updates /\ m \in DOMAIN task'.updates[c].carried
             /\ task'.updates[c].carried[m].stamp = rebuild_seq + 1
  <2>1. m \in DOMAIN task.snapshot[c].shipped => is_stale(lat, m, task.snapshot[c].shipped[m])
    <3> HAVE m \in DOMAIN task.snapshot[c].shipped
    <3>1. /\ task.snapshot[c].shipped[m] <= rebuild_seq /\ rebuild_seq \in Nat
          /\ task.snapshot[c].shipped[m] \in Nat
      <4>1. task.snapshot[c].shipped \in StampMaps
        BY ServerFields DEF Sessions
      <4>2. task.snapshot[c].shipped[m] \in Nat
        BY <4>1, MapFields DEF StampMaps
      <4> QED BY <4>2 DEF RecordInv, NotAhead, TypeInv, GraphType
    <3> QED BY <1>4, <3>1 DEF is_stale
  <2>2. m \in need[c]
    BY <1>5, <2>1 DEF NeededBy
  <2>3. c \in patched /\ DOMAIN updates = patched
    BY <1>2
  <2>4. task'.updates[c].carried = Payload(g, lat, need[c])
    BY <1>2, <2>3
  <2>5. m \in DOMAIN Payload(g, lat, need[c]) /\ Payload(g, lat, need[c])[m].stamp = lat[m]
    BY <2>2 DEF Payload
  <2> QED BY <1>2, <1>4, <2>3, <2>4, <2>5
<1>7. \A c \in Clients : page[c].st = "live" /\ c \notin DOMAIN task.snapshot =>
        "late" \in missed'[c]
  BY <1>1, <1>2 DEF Missing
<1>8. m \in Refetched \ Unchanged(Refetched, graph')
  BY <1>1, <1>2 DEF changed
<1> QED BY <1>6, <1>7, <1>8

\* Code that is current stays so, unless the HMR stage finds the module changed or another
\* scan reads the edit first.
LEMMA CurrentKept ==
  ASSUME TypeInv, SourceInv, [Next]_vars,
         NEW m, NEW code, Current(graph, m, code)
  PROVE  \/ Current(graph', m, code)
         \/ Compute /\ m \in task'.changed
         \/ \A c \in Clients : page[c].st # "none" => ~GotEveryScan(c)'
<1>0. m \in DOMAIN graph /\ m \in DOMAIN graph' /\ m \in Modules
      /\ code.text = graph[m].text /\ code.imports = graph[m].imports
  BY NextGraphType DEF Current, TypeInv, GraphType, IsGraph
<1>1. ASSUME render_module_code(graph', m) = render_module_code(graph, m)
      PROVE  Current(graph', m, code)
  <2>1. graph'[m].text = graph[m].text /\ graph'[m].imports = graph[m].imports
    BY <1>1 DEF render_module_code
  <2> QED BY <1>0, <2>1 DEF Current
<1>2. CASE latest'[m] = latest[m]
  BY <1>0, <1>1, <1>2, SameStampSameCode
<1>3. CASE Compute /\ m \notin task'.changed
  <2>1. /\ task'.changed = Refetched \ Unchanged(Refetched, graph')
        /\ graph' = FetchModules(Refetched)
    BY <1>3, Computed DEF TypeInv, Tasks
  <2>2. CASE m \in Refetched
    BY <1>1, <1>3, <2>1, <2>2 DEF Unchanged
  <2>3. CASE m \notin Refetched
    <3>1. Refetched \subseteq Modules
      BY <1>3, RefetchedScanned DEF Compute
    <3>2. graph'[m] = graph[m]
      BY <1>0, <2>1, <2>3, <3>1, FetchedGraph
    <3> QED BY <1>0, <3>2 DEF Current
  <2> QED BY <2>2, <2>3
<1>4. latest' = latest \/ Compute
  BY StampsGrow
<1> QED BY <1>2, <1>3, <1>4

-----------------------------------------------------------------------------
(* Patches on their way. *)

\* A push that a page takes or leaves alone is no longer on its way.
LEMMA PushGone ==
  ASSUME TypeInv, NEW c \in Clients, ReceivePush(c), page'[c].st = "live"
  PROVE  page'[c].inbox = Tail(page[c].inbox) /\ page[c].inbox # <<>>
<1> DEFINE push == Head(page[c].inbox)
           p == [page[c] EXCEPT !.inbox = Tail(@), !.last_seq = push.seq]
<1>1. page[c].inbox # <<>>
      /\ (page'[c] \in {NoPage("gap"), NoPage("reload"), p}
            \/ Took(p, page'[c], push.file, push.carried))
  BY ReceivedPush
<1>2. page'[c] # NoPage("gap") /\ page'[c] # NoPage("reload")
  BY DEF NoPage
<1>3. p.inbox = Tail(page[c].inbox)
  BY DEF TypeInv, Pages
<1> HIDE DEF p
<1> QED BY <1>1, <1>2, <1>3 DEF Took

\* A page that takes a push registers what it carries and runs what changed anew.
LEMMA PushRuns ==
  ASSUME TypeInv, NEW c \in Clients, ReceivePush(c), ~SkipPush(c), page'[c].st = "live"
  PROVE  LET push == Head(page[c].inbox)
         IN /\ page[c].st = "live" /\ page[c].inbox # <<>> /\ push \in Pushes
            /\ page'[c].inbox = Tail(page[c].inbox)
            /\ page'[c].factories = registerFactory(page[c].factories, push.carried)
            /\ RunsFactories(page'[c], push.changed)
<1> DEFINE push == Head(page[c].inbox)
           p == [page[c] EXCEPT !.inbox = Tail(@), !.last_seq = push.seq]
<1>1. /\ page \in [Clients -> Pages] /\ page[c] \in Pages
      /\ page[c].inbox # <<>> /\ page[c].st = "live"
  BY DEF TypeInv, ReceivePush, RunPush
<1>2. push \in Pushes /\ p \in Pages
  BY ReceivedPush
<1>3. PICK q : page' = [page EXCEPT ![c] = q]
               /\ \/ q = IF push.seq # page[c].last_seq + 1 THEN NoPage("gap")
                         ELSE ApplyUpdate(p, push)
                  \/ q = NoPage("reload")
  BY DEF ReceivePush, RunPush
<1>4. page'[c] = ApplyUpdate(p, push)
  <2>1. page'[c] = q
    BY <1>1, <1>3
  <2>2. q # NoPage("gap") /\ q # NoPage("reload")
    BY <2>1 DEF NoPage
  <2> QED BY <1>3, <2>1, <2>2
<1>5. p.inbox = Tail(page[c].inbox) /\ p.factories = page[c].factories
  BY <1>1 DEF Pages
<1> HIDE DEF p, push
<1>6. ApplyUpdate(p, push) # NoPage("reload")
  BY <1>4 DEF NoPage
<1>7. /\ Took(p, ApplyUpdate(p, push), push.file, push.carried)
      /\ RunsFactories(ApplyUpdate(p, push), push.changed)
  BY <1>2, <1>6, AppliedUpdate
<1> QED BY <1>1, <1>2, <1>4, <1>5, <1>7 DEF Took, push

\* A push stays in the inbox until the page takes it.
LEMMA InboxKept ==
  ASSUME TypeInv, [Next]_vars, NEW c \in Clients, page[c].st = "live", page'[c].st = "live"
  PROVE  \/ ReceivePush(c)
         \/ page'[c].inbox = page[c].inbox
         \/ PublishPatch(c) /\ page'[c].inbox = Append(page[c].inbox, NewPush(c))
<1>0. page \in [Clients -> Pages] /\ page[c] \in Pages
  BY DEF TypeInv
<1>1. CASE \/ \E m \in Modules : Edit(m)
           \/ \E files \in SUBSET events, rebuild \in BOOLEAN : StartHmr(files, rebuild)
           \/ ComputeFails \/ Compute \/ NumberPatches \/ HmrDone \/ StartRebuild \/ Rebuild
           \/ \E d \in Clients : register_client(d)
           \/ \E d \in Clients : \E f \in page[d].ran : notify_payload_delivered(d, f)
           \/ UNCHANGED vars
  <2>1. page' = page
    BY <1>1 DEF Edit, StartHmr, ComputeFails, Compute, NumberPatches, HmrDone, StartRebuild,
       Rebuild, register_client, notify_payload_delivered, vars
  <2> QED BY <2>1
<1>2. ASSUME NEW d \in Clients, PublishPatch(d)
      PROVE  \/ page'[c].inbox = page[c].inbox
             \/ d = c /\ page'[c].inbox = Append(page[c].inbox, NewPush(c))
  <2>1. CASE d = c
    BY <1>0, <1>2, <2>1, Published DEF Pages
  <2>2. CASE d # c
    BY <1>2, <2>2, Published
  <2> QED BY <2>1, <2>2
<1>3. CASE CompileLazyEntry
  <2>1. PICK d \in Clients, k \in Chunks :
          /\ \A e \in Clients \ {d} : page'[e] = page[e]
          /\ page[d].st = "live" =>
               page'[d] = [page[d] EXCEPT !.chunks = page[d].chunks \cup {k}]
    BY <1>3, Handed
  <2> QED BY <1>0, <2>1 DEF Pages
<1>4. ASSUME NEW d \in Clients, NEW r \in Routes, StartLazy(d, r)
      PROVE  page'[c].inbox = page[c].inbox
  <2>1. page' = [page EXCEPT ![d].lazy[r] = "served"]
    BY <1>4 DEF StartLazy
  <2> QED BY <1>0, <2>1 DEF Pages
<1>5. ASSUME NEW d \in Clients, LoadPage(d)
      PROVE  page'[c].inbox = page[c].inbox
  BY <1>5, Loaded
<1>6. ASSUME NEW d \in Clients, remove_client(d)
      PROVE  page'[c].inbox = page[c].inbox
  <2>1. page'[d] = NoPage("closed") /\ \A e \in Clients \ {d} : page'[e] = page[e]
    BY <1>6, Removed
  <2>2. d # c
    BY <2>1 DEF NoPage
  <2> QED BY <2>1, <2>2
<1>7. ASSUME NEW d \in Clients, ReceivePush(d)
      PROVE  d = c \/ page'[c].inbox = page[c].inbox
  <2>1. page' = [page EXCEPT ![d] = page'[d]]
    BY <1>7, ReceivedPush
  <2> QED BY <1>0, <2>1
<1>8. ASSUME NEW d \in Clients, NEW r \in Routes, requestLazy(d, r)
      PROVE  page'[c].inbox = page[c].inbox
  BY <1>8, RequestedLazy DEF Ran
<1>9. ASSUME NEW d \in Clients, NEW k \in page[d].chunks, ReceiveChunk(d, k)
      PROVE  page'[c].inbox = page[c].inbox
  BY <1>9, ReceivedChunk DEF Took
<1> QED BY <1>1, <1>2, <1>3, <1>4, <1>5, <1>6, <1>7, <1>8, <1>9 DEF Next, ClientStep

\* An update of the task is there until it is published.
LEMMA UpdateKept ==
  ASSUME TypeInv, RecordInv, [Next]_vars, NEW c \in DOMAIN task.updates
  PROVE  \/ PublishPatch(c)
         \/ /\ c \in DOMAIN task'.updates /\ task'.changed = task.changed
            /\ task'.updates[c].carried = task.updates[c].carried
<1>0. task \in Tasks /\ task.phase \in {"number", "publish"}
  BY DEF TypeInv, RecordInv
<1>1. CASE \/ \E m \in Modules : Edit(m)
           \/ \E d \in Clients : ClientStep(d)
           \/ UNCHANGED vars
  <2>1. task' = task
    BY <1>1 DEF ClientStep, Edit, LoadPage, register_client, remove_client, ReceivePush,
       requestLazy, ReceiveChunk, notify_payload_delivered, vars
  <2> QED BY <2>1
<1>2. CASE NumberPatches
  <2>1. PICK updates \in Updates :
          /\ task' = [task EXCEPT !.phase = "publish", !.updates = updates]
          /\ DOMAIN updates = DOMAIN task.updates
          /\ \A d \in DOMAIN updates : updates[d].carried = task.updates[d].carried
    BY <1>2, NumberedPatches
  <2> QED BY <1>0, <2>1 DEF Tasks
<1>3. ASSUME NEW d \in Clients, PublishPatch(d), d # c
      PROVE  /\ c \in DOMAIN task'.updates /\ task'.changed = task.changed
             /\ task'.updates[c].carried = task.updates[c].carried
  <2>1. PICK updates \in Updates :
          /\ task' = [task EXCEPT !.updates = updates]
          /\ DOMAIN updates = DOMAIN task.updates \ {d}
          /\ \A e \in DOMAIN updates : updates[e] = task.updates[e]
    BY <1>3, Published
  <2> QED BY <1>0, <1>3, <2>1 DEF Tasks
<1>4. ~HmrDone
  <2>1. DOMAIN <<>> = {}
    BY EmptySeq
  <2>2. task.updates # <<>>
    BY <2>1
  <2> QED BY <2>2 DEF HmrDone
<1>5. /\ ~ComputeFails /\ ~Compute /\ ~StartRebuild /\ ~Rebuild /\ ~CompileLazyEntry
      /\ \A files \in SUBSET events, rebuild \in BOOLEAN : ~StartHmr(files, rebuild)
      /\ \A d \in Clients, r \in Routes : ~StartLazy(d, r)
  <2>1. ~ComputeFails /\ ~Compute
    BY <1>0 DEF ComputeFails, Compute
  <2>2. ~StartRebuild /\ ~Rebuild /\ ~CompileLazyEntry
    BY <1>0 DEF StartRebuild, Rebuild, CompileLazyEntry
  <2>3. \A files \in SUBSET events, rebuild \in BOOLEAN : ~StartHmr(files, rebuild)
    BY <1>0 DEF StartHmr
  <2>4. \A d \in Clients, r \in Routes : ~StartLazy(d, r)
    BY <1>0 DEF StartLazy
  <2> QED BY <2>1, <2>2, <2>3, <2>4
<1> QED BY <1>1, <1>2, <1>3, <1>4, <1>5 DEF Next

\* A replacement goes on being on its way until the page takes it.
LEMMA ComingKept ==
  ASSUME TypeInv, RecordInv, [Next]_vars,
         NEW c \in Clients, page[c].st = "live", page'[c].st = "live",
         NEW m, NEW stamp, Coming(c, page[c], task, m, stamp)
  PROVE  \/ Coming(c, page'[c], task', m, stamp)
         \/ /\ ReceivePush(c)
            /\ Replaces(Head(page[c].inbox).changed, Head(page[c].inbox).carried, m, stamp)
<1>0. page[c] \in Pages /\ page[c].inbox \in Seq(Pushes)
  BY DEF TypeInv, Pages
<1>1. ASSUME NEW i \in DOMAIN page[c].inbox,
             Replaces(page[c].inbox[i].changed, page[c].inbox[i].carried, m, stamp)
      PROVE  \/ Coming(c, page'[c], task', m, stamp)
             \/ /\ ReceivePush(c)
                /\ Replaces(Head(page[c].inbox).changed, Head(page[c].inbox).carried, m, stamp)
  <2>1. CASE page'[c].inbox = page[c].inbox
    BY <1>1, <2>1 DEF Coming, Replaces
  <2>2. CASE PublishPatch(c) /\ page'[c].inbox = Append(page[c].inbox, NewPush(c))
    <3>1. NewPush(c) \in Pushes
      BY <2>2, Published
    <3>2. i \in DOMAIN page'[c].inbox /\ page'[c].inbox[i] = page[c].inbox[i]
      BY <1>0, <2>2, <3>1, AppendProperties, LenProperties
    <3> QED BY <1>1, <3>2 DEF Coming, Replaces
  <2>3. CASE ReceivePush(c)
    <3>1. page'[c].inbox = Tail(page[c].inbox) /\ page[c].inbox # <<>>
      BY <2>3, PushGone
    <3>2. Len(page[c].inbox) \in Nat \ {0} /\ i \in 1 .. Len(page[c].inbox)
      BY <1>0, <3>1, EmptySeq, LenProperties
    <3>3. /\ DOMAIN Tail(page[c].inbox) = 1 .. Len(page[c].inbox) - 1
          /\ \A j \in 1 .. Len(page[c].inbox) - 1 :
               Tail(page[c].inbox)[j] = page[c].inbox[j + 1]
      BY <1>0, <3>1, HeadTailProperties, LenProperties
    <3>4. CASE i = 1
      <4>1. page[c].inbox[i] = Head(page[c].inbox)
        BY <1>0, <3>1, <3>4
      <4> QED BY <1>1, <2>3, <4>1
    <3>5. CASE i # 1
      <4>1. i - 1 \in 1 .. Len(page[c].inbox) - 1 /\ i = (i - 1) + 1
        BY <3>2, <3>5
      <4>2. i - 1 \in DOMAIN page'[c].inbox /\ page'[c].inbox[i - 1] = page[c].inbox[i]
        BY <3>1, <3>3, <4>1
      <4> QED BY <1>1, <4>2 DEF Coming, Replaces
    <3> QED BY <3>4, <3>5
  <2> QED BY <2>1, <2>2, <2>3, InboxKept
<1>2. ASSUME c \in DOMAIN task.updates,
             Replaces(task.changed, task.updates[c].carried, m, stamp)
      PROVE  Coming(c, page'[c], task', m, stamp)
  <2>1. CASE PublishPatch(c)
    <3>1. /\ NewPush(c) \in Pushes
          /\ page'[c] = [page[c] EXCEPT !.inbox = Append(page[c].inbox, NewPush(c))]
      BY <2>1, Published
    <3>2. page'[c].inbox = Append(page[c].inbox, NewPush(c))
      BY <1>0, <3>1 DEF Pages
    <3>3. \E j \in DOMAIN page'[c].inbox : page'[c].inbox[j] = NewPush(c)
      BY <1>0, <3>1, <3>2, AppendProperties, LenProperties
    <3>4. NewPush(c).changed = task.changed /\ NewPush(c).carried = task.updates[c].carried
      BY DEF NewPush
    <3> QED BY <1>2, <3>3, <3>4 DEF Coming, Replaces
  <2>2. CASE /\ c \in DOMAIN task'.updates /\ task'.changed = task.changed
             /\ task'.updates[c].carried = task.updates[c].carried
    BY <1>2, <2>2 DEF Coming, Replaces
  <2> QED BY <1>2, <2>1, <2>2, UpdateKept
<1> QED BY <1>1, <1>2 DEF Coming

\* What is current stays so, or a patch of its new code is on its way or arrives.
LEMMA CodeKept ==
  ASSUME TypeInv, SourceInv, RecordInv, [Next]_vars,
         NEW c \in Clients, page[c].st = "live", page'[c].st = "live", Served(c)',
         NEW m, NEW code, NEW stamp \in Nat, stamp <= rebuild_seq,
         Current(graph, m, code) \/ Coming(c, page[c], task, m, stamp)
  PROVE  \/ Current(graph', m, code) \/ Coming(c, page'[c], task', m, stamp)
         \/ /\ ReceivePush(c)
            /\ Replaces(Head(page[c].inbox).changed, Head(page[c].inbox).carried, m, stamp)
<1>1. CASE Coming(c, page[c], task, m, stamp)
  BY <1>1, ComingKept
<1>2. ASSUME Compute, m \in task'.changed
      PROVE  Coming(c, page'[c], task', m, stamp)
  <2>1. c \in DOMAIN task.snapshot
    BY <1>2, PatchCarries DEF Served
  <2>2. /\ c \in DOMAIN task'.updates /\ m \in DOMAIN task'.updates[c].carried
        /\ task'.updates[c].carried[m].stamp = rebuild_seq + 1
    BY <1>2, <2>1, PatchCarries
  <2>3. rebuild_seq + 1 > stamp
    BY DEF TypeInv, GraphType
  <2> QED BY <1>2, <2>2, <2>3 DEF Coming, Replaces
<1>3. CASE Current(graph, m, code)
  <2>1. GotEveryScan(c)'
    BY DEF Served, GotEveryScan
  <2> QED BY <1>2, <1>3, <2>1, CurrentKept
<1> QED BY <1>1, <1>3

-----------------------------------------------------------------------------
(* The pages, step by step. *)

\* What a page runs is not ahead of the latest rebuild.
LEMMA CacheNotAhead ==
  ASSUME TypeInv, AgeInv, StampInv, NEW c \in Clients, page[c].st = "live",
         NEW m \in DOMAIN page[c].cache
  PROVE  page[c].cache[m].stamp <= rebuild_seq /\ page[c].cache[m].stamp \in Nat
<1>0. /\ page[c].cache \in CopyMaps /\ page[c].factories \in AllCopies
      /\ latest \in [Modules -> 0 .. rebuild_seq] /\ rebuild_seq \in Nat
  BY DEF TypeInv, GraphType, Pages, AllCopies, SentTo, Copies
<1>1. m \in Modules /\ page[c].cache[m].stamp \in Nat
  BY <1>0, CopyFields
<1>2. CASE m \in DOMAIN page[c].boot /\ page[c].cache[m].stamp = page[c].boot[m]
  <2>1. page[c].boot[m] <= latest[m]
    BY <1>2 DEF AgeInv, AgeOf
  <2> QED BY <1>0, <1>1, <1>2, <2>1
<1>3. CASE /\ m \in DOMAIN page[c].factories
           /\ page[c].cache[m].stamp <= page[c].factories[m].stamp
  <2>1. page[c].factories[m].stamp <= rebuild_seq /\ page[c].factories[m].stamp \in Nat
    BY <1>0, <1>3, CopiesNotAhead
  <2> QED BY <1>0, <1>1, <1>3, <2>1
<1> QED BY <1>2, <1>3 DEF AgeInv, AgeOf

\* A page that stays open runs what it ran or what its factories have, and keeps those
\* it has or gets newer ones.
LEMMA OpenPage ==
  ASSUME TypeInv, [Next]_vars, NEW c \in Clients, page'[c].st = "live", ~LoadPage(c)
  PROVE  /\ page[c].st = "live"
         /\ \A m \in DOMAIN page'[c].cache :
              \/ m \in DOMAIN page[c].cache /\ page'[c].cache[m] = page[c].cache[m]
              \/ /\ m \in DOMAIN page'[c].factories
                 /\ page'[c].cache[m] = page'[c].factories[m]
         /\ \A m \in DOMAIN page[c].factories :
              /\ m \in DOMAIN page'[c].factories
              /\ page'[c].factories[m].stamp >= page[c].factories[m].stamp
<1>0. page[c] \in Pages /\ page[c].factories \in CopyMaps /\ ~Gone(c)
  BY DEF TypeInv, Pages, Gone, NoPage
<1>1. CASE Kept(c) \/ \E f \in Nat, carried \in CopyMaps : Received(c, f, carried)
  <2>1. SameBoot(c)
    BY <1>1 DEF Kept, Received
  <2> QED BY <1>1, <2>1, FactoriesGrow DEF SameBoot
<1>2. CASE Pushed(c) \/ \E k \in Chunks : HandedOver(c, k)
  <2>1. /\ page[c].st = "live" /\ page'[c].cache = page[c].cache
        /\ page'[c].factories = page[c].factories
    BY <1>0, <1>2 DEF Pushed, HandedOver, Pages
  <2>2. \A m \in DOMAIN page[c].factories : page[c].factories[m].stamp \in Nat
    BY <1>0, CopyFields
  <2> QED BY <2>1, <2>2
<1> QED BY <1>0, <1>1, <1>2, PageMoves DEF Moved

\* A page that loads with nothing missed runs what is in the graph.
LEMMA LoadedCurrent ==
  ASSUME TypeInv, SeqInv, NEW c \in Clients, LoadPage(c), Served(c)'
  PROVE  /\ \A m \in DOMAIN page'[c].cache : Current(graph', m, page'[c].cache[m].code)
         /\ \A f \in SentTo(c)' : DOMAIN f = {}
<1> DEFINE cache == [m \in TopLevel(output) |-> [code |-> render_module_code(output, m),
                                                 stamp |-> top_level_evaluated[m]]]
<1>1. /\ graph' = graph /\ task' = task /\ page[c].st = "none"
      /\ \A m \in TopLevel(output) : output[m] = graph[m]
  BY DEF LoadPage, Missing, Served, graphVars
<1>2. page'[c].cache = cache
  BY DEF LoadPage, NoPage, TypeInv
<1>3. TopLevel(output) \subseteq DOMAIN graph
  BY TopLevelScanned DEF TypeInv, GraphType
<1>4. \A m \in DOMAIN page'[c].cache : Current(graph', m, page'[c].cache[m].code)
  BY <1>1, <1>2, <1>3 DEF Current, render_module_code
<1>5. c \notin DOMAIN task'.updates
  BY <1>1 DEF SeqInv, SeqOf, TypeInv, TaskShape
<1>6. \A f \in Copies(c)' : DOMAIN f = {}
  <2>1. DOMAIN <<>> = {}
    BY EmptySeq
  <2>2. page'[c].factories = <<>> /\ page'[c].inbox = <<>> /\ page'[c].chunks = {}
    BY Loaded
  <2> QED BY <2>1, <2>2 DEF Copies
<1> QED BY <1>4, <1>5, <1>6 DEF SentTo

\* A patch that a page leaves alone would have replaced nothing it runs or will run.
LEMMA SkippedReplacesNothing ==
  ASSUME TypeInv, StampInv, RecordInv, NEW c \in Clients, SkipPush(c), Served(c)',
         NEW m, NEW stamp,
         Replaces(Head(page[c].inbox).changed, Head(page[c].inbox).carried, m, stamp)
  PROVE  /\ ~(m \in DOMAIN page[c].cache)
         /\ \A f \in SentTo(c) : m \in DOMAIN f => f[m].stamp # stamp
<1> DEFINE push == Head(page[c].inbox)
<1>1. /\ push.changed \cap DOMAIN page[c].cache = {} /\ ~HasOlder(c, push)
      /\ page[c].inbox # <<>>
  BY DEF SkipPush, Served, Missing
<1>2. m \in push.changed \cap DOMAIN push.carried /\ push.carried[m].stamp > stamp
  BY DEF Replaces
<1>3. push.carried \in AllCopies
  <2>1. page[c].inbox \in Seq(Pushes)
    BY DEF TypeInv, Pages
  <2>2. 1 \in DOMAIN page[c].inbox /\ page[c].inbox[1] = push
    BY <1>1, <2>1, EmptySeq, LenProperties
  <2> HIDE DEF push
  <2> QED BY <2>2 DEF AllCopies, SentTo, Copies
<1> HIDE DEF push
<1>4. ASSUME NEW f \in SentTo(c), m \in DOMAIN f, f[m].stamp = stamp
      PROVE  FALSE
  <2>1. CASE f \in Copies(c)
    BY <1>1, <1>2, <1>4, <2>1 DEF HasOlder
  <2>2. CASE c \in DOMAIN task.updates /\ f = task.updates[c].carried
    <3>1. push.carried[m].stamp <= latest[m] /\ stamp = latest[m] /\ m \in DOMAIN graph
      BY <1>2, <1>3, <1>4, <2>2 DEF StampInv, RecordInv
    <3>2. push.carried[m].stamp \in Nat /\ latest[m] \in Nat
      BY <1>2, <1>3, <3>1, CopiesNotAhead, LatestType DEF TypeInv, GraphType, IsGraph
    <3> QED BY <1>2, <3>1, <3>2
  <2> QED BY <1>4, <2>1, <2>2 DEF SentTo
<1> QED BY <1>1, <1>2, <1>4

\* What a page runs and what was sent to it goes on being current or being replaced.
LEMMA CurrentStep ==
  ASSUME TypeInv, TypeInv', SeqInv, AgeInv, SourceInv, StampInv,
         RecordInv, CurrentInv, [Next]_vars, NEW c \in Clients
  PROVE  CurrentOf(c)'
<1> DEFINE Good(m, code, stamp) ==
             Current(graph', m, code) \/ Coming(c, page'[c], task', m, stamp)
           Replaced(m, stamp) ==
             /\ ReceivePush(c)
             /\ Replaces(Head(page[c].inbox).changed, Head(page[c].inbox).carried, m, stamp)
<1> SUFFICES ASSUME page'[c].st = "live", Served(c)'
             PROVE  /\ \A m \in DOMAIN page'[c].cache :
                         Good(m, page'[c].cache[m].code, page'[c].cache[m].stamp)
                    /\ \A f \in SentTo(c)' : \A m \in DOMAIN f :
                         Good(m, f[m].code, f[m].stamp) \/ HasNewer(page'[c], m, f[m].stamp)
  BY DEF CurrentOf
<1>0. Served(c)
  BY MissedGrows DEF Served
<1>1. CASE LoadPage(c)
  BY <1>1, LoadedCurrent
<1>2. CASE ~LoadPage(c)
  <2>0. /\ page[c].st = "live" /\ page[c] \in Pages /\ page'[c] \in Pages
        /\ page[c].factories \in CopyMaps /\ page'[c].factories \in CopyMaps
        /\ \A m \in DOMAIN page[c].cache :
             \/ Current(graph, m, page[c].cache[m].code)
             \/ Coming(c, page[c], task, m, page[c].cache[m].stamp)
        /\ \A f \in SentTo(c) : \A m \in DOMAIN f :
             \/ Current(graph, m, f[m].code) \/ Coming(c, page[c], task, m, f[m].stamp)
             \/ HasNewer(page[c], m, f[m].stamp)
    <3>1. page[c].st = "live"
      BY <1>2, OpenPage
    <3>2. page[c] \in Pages /\ page'[c] \in Pages
      BY DEF TypeInv
    <3>3. CurrentOf(c)
      BY DEF CurrentInv
    <3> QED BY <1>0, <3>1, <3>2, <3>3 DEF CurrentOf, Pages
  <2> HIDE DEF Good, Replaced
  <2>1. ASSUME NEW m, NEW code, NEW stamp \in Nat, stamp <= rebuild_seq,
               Current(graph, m, code) \/ Coming(c, page[c], task, m, stamp)
        PROVE  Good(m, code, stamp) \/ Replaced(m, stamp)
    BY <2>0, <2>1, CodeKept DEF Good, Replaced
  <2>2. ASSUME NEW m, NEW stamp \in Nat, Replaced(m, stamp), ~SkipPush(c)
        PROVE  HasNewer(page'[c], m, stamp) /\ RunsFactories(page'[c], {m})
    <3> DEFINE push == Head(page[c].inbox)
    <3>1. /\ push \in Pushes
          /\ page'[c].factories = registerFactory(page[c].factories, push.carried)
          /\ RunsFactories(page'[c], push.changed)
      BY <2>2, PushRuns DEF Replaced
    <3>2. m \in push.changed \cap DOMAIN push.carried /\ push.carried[m].stamp > stamp
      BY <2>2 DEF Replaced, Replaces
    <3> HIDE DEF push
    <3>3. push.carried \in CopyMaps
      BY <3>1 DEF Pushes
    <3>4. /\ m \in DOMAIN page'[c].factories
          /\ page'[c].factories[m].stamp >= push.carried[m].stamp
      <4> DEFINE F == registerFactory(page[c].factories, push.carried)
      <4>1. /\ DOMAIN F = DOMAIN page[c].factories \cup DOMAIN push.carried
            /\ \A x \in DOMAIN push.carried : F[x].stamp >= push.carried[x].stamp
        BY <2>0, <3>3, RegisteredCopies
      <4> HIDE DEF F
      <4>2. page'[c].factories = F
        BY <3>1 DEF F
      <4> QED BY <3>2, <4>1, <4>2
    <3>5. page'[c].factories[m].stamp \in Nat /\ push.carried[m].stamp \in Nat
      BY <2>0, <3>2, <3>3, <3>4, CopyFields
    <3>6. HasNewer(page'[c], m, stamp)
      BY <3>2, <3>4, <3>5 DEF HasNewer
    <3> QED BY <3>1, <3>2, <3>6 DEF RunsFactories
  <2>3. ASSUME NEW f \in SentTo(c)', NEW m \in DOMAIN f
        PROVE  Good(m, f[m].code, f[m].stamp) \/ HasNewer(page'[c], m, f[m].stamp)
    <3>1. CASE Fresh(m, f[m])'
      BY <3>1 DEF Good, Fresh, Current, render_module_code
    <3>2. ASSUME NEW g \in SentTo(c), m \in DOMAIN g, f[m] = g[m]
          PROVE  Good(m, f[m].code, f[m].stamp) \/ HasNewer(page'[c], m, f[m].stamp)
      <4>1. g[m].stamp <= rebuild_seq /\ g[m].stamp \in Nat
        <5>1. g \in AllCopies
          BY DEF SentTo, AllCopies
        <5> QED BY <3>2, <5>1, CopiesNotAhead
      <4>2. CASE HasNewer(page[c], m, g[m].stamp)
        <5>1. /\ m \in DOMAIN page[c].factories /\ m \in DOMAIN page'[c].factories
              /\ page'[c].factories[m].stamp >= page[c].factories[m].stamp
              /\ page[c].factories[m].stamp > g[m].stamp
          BY <1>2, <4>2, OpenPage DEF HasNewer
        <5>2. page[c].factories[m].stamp \in Nat /\ page'[c].factories[m].stamp \in Nat
          BY <2>0, <5>1, CopyFields
        <5> QED BY <3>2, <4>1, <5>1, <5>2 DEF HasNewer
      <4>3. CASE Current(graph, m, g[m].code) \/ Coming(c, page[c], task, m, g[m].stamp)
        <5>1. ~(SkipPush(c) /\ Replaced(m, g[m].stamp))
          BY <3>2, SkippedReplacesNothing DEF Replaced
        <5> QED BY <2>1, <2>2, <3>2, <4>1, <4>3, <5>1
      <4> QED BY <2>0, <3>2, <4>2, <4>3
    <3> QED BY <3>1, <3>2, NextSent
  <2>4. ASSUME NEW m \in DOMAIN page'[c].factories
        PROVE  Good(m, page'[c].factories[m].code, page'[c].factories[m].stamp)
    <3>1. page'[c].factories \in SentTo(c)'
      BY DEF SentTo, Copies
    <3>2. page'[c].factories[m].stamp \in Nat
      BY <2>0, CopyFields
    <3>3. ~HasNewer(page'[c], m, page'[c].factories[m].stamp)
      BY <3>2 DEF HasNewer
    <3> QED BY <2>3, <3>1, <3>3
  <2>5. ASSUME NEW m \in DOMAIN page'[c].cache
        PROVE  Good(m, page'[c].cache[m].code, page'[c].cache[m].stamp)
    <3>1. CASE m \in DOMAIN page'[c].factories /\ page'[c].cache[m] = page'[c].factories[m]
      BY <2>4, <3>1
    <3>2. CASE m \in DOMAIN page[c].cache /\ page'[c].cache[m] = page[c].cache[m]
      <4>1. page[c].cache[m].stamp <= rebuild_seq /\ page[c].cache[m].stamp \in Nat
        BY <2>0, <3>2, CacheNotAhead
      <4>2. CASE Replaced(m, page[c].cache[m].stamp)
        <5>1. ~SkipPush(c)
          BY <3>2, <4>2, SkippedReplacesNothing DEF Replaced
        <5> QED BY <2>2, <2>5, <3>1, <4>1, <4>2, <5>1 DEF RunsFactories
      <4> QED BY <2>0, <2>1, <3>2, <4>1, <4>2
    <3> QED BY <1>2, <2>5, <3>1, <3>2, OpenPage
  <2> QED BY <2>3, <2>5
<1> QED BY <1>1, <1>2

-----------------------------------------------------------------------------
(* The theorem. *)

\* The graph is read from the disk and no page is open at first.
LEMMA InitCurrent == Init => RecordInv /\ DiskInv /\ CurrentInv
<1> SUFFICES ASSUME Init
             PROVE  RecordInv /\ DiskInv /\ CurrentInv
  OBVIOUS
<1>1. DOMAIN clients = {} /\ DOMAIN pending_payloads = {} /\ task = Idle
  BY EmptySeq DEF Init
<1>2. RecordInv
  BY <1>1, IdleType DEF RecordInv
<1>3. DiskInv
  <2>1. \A m \in DOMAIN graph : graph[m] = FirstSource[m]
    BY DEF Init, Restrict
  <2> QED BY <2>1 DEF Init, DiskInv
<1>4. CurrentInv
  <2>1. \A c \in Clients : page[c].st = "none"
    BY DEF Init, NoPage
  <2> QED BY <2>1 DEF CurrentInv, CurrentOf
<1> QED BY <1>2, <1>3, <1>4

\* A page for which nothing is on its way runs what is on disk.
LEMMA SettledIsCurrent ==
  ASSUME TypeInv, RecordInv, DiskInv, CurrentInv
  PROVE  PagesAreCurrent
<1> SUFFICES ASSUME NEW c \in Clients, Served(c), Settled(c), NEW m \in DOMAIN page[c].cache
             PROVE  /\ page[c].cache[m].code.text = disk[m].text
                    /\ page[c].cache[m].code.imports = disk[m].imports
  BY DEF PagesAreCurrent, RunsDisk, Served
<1>1. DOMAIN page[c].inbox = {}
  <2>1. DOMAIN <<>> = {}
    BY EmptySeq
  <2> QED BY <2>1 DEF Settled
<1>2. c \notin DOMAIN task.updates
  BY DEF RecordInv, Settled
<1>3. ~Coming(c, page[c], task, m, page[c].cache[m].stamp)
  BY <1>1, <1>2 DEF Coming
<1>4. Current(graph, m, page[c].cache[m].code)
  BY <1>3 DEF CurrentInv, CurrentOf, Settled
<1>5. m \in DOMAIN graph /\ graph[m] = disk[m]
  BY <1>4 DEF Current, DiskInv, Settled
<1> QED BY <1>4, <1>5 DEF Current

\* When every edit has been through the HMR stage and every push has been received, a page
\* runs the code of the files on disk: whatever the order of patches, lazy chunks, delivery
\* reports, failed scans, retries and reloads, a hot update leaves no page behind for which
\* it was computed, and a client may leave patches of modules that never ran alone, as long
\* as no older copy of them is held or on its way.  Pages that were loading while an update
\* was computed, or open while a rebuild or a lazy compile read an edit first, are exempt
\* (compute_hmr_update_for_file_changes, generate_hmr_updates, registerFactory).
THEOREM PagesRunCurrentCode == Spec => []PagesAreCurrent
<1> DEFINE Inv == /\ SeqInv /\ AgeInv /\ SourceInv /\ StampInv
                  /\ RecordInv /\ DiskInv /\ CurrentInv
<1>1. Init => Inv
  BY InitSeq, InitAge, InitStamps, InitCurrent
<1>2. TypeInv /\ TypeInv' /\ Inv /\ [Next]_vars => Inv'
  <2> SUFFICES ASSUME TypeInv, TypeInv', Inv, [Next]_vars
               PROVE  Inv'
    OBVIOUS
  <2>1. SeqInv' /\ AgeInv'
    BY NextSeq, AgeStep, EvaluatedAge DEF AgeInv
  <2>2. SourceInv' /\ StampInv'
    BY SourceStep, StampStep
  <2>3. RecordInv' /\ DiskInv'
    BY RecordStep, DiskStep
  <2>4. CurrentInv'
    BY CurrentStep DEF CurrentInv
  <2> QED BY <2>1, <2>2, <2>3, <2>4
<1>3. TypeInv /\ Inv => PagesAreCurrent
  BY SettledIsCurrent
<1> QED BY <1>1, <1>2, <1>3, TypeInvariant, PTL DEF Spec

-----------------------------------------------------------------------------
(* What a page can run from the copies it has and gets.  A stock is a set  *)
(* of maps of copies.                                                      *)

\* The maps of the stock P that offer m, and those of them whose copy of m is the newest.
Offers(P, m) == {f \in P : m \in DOMAIN f}
Newest(P, m) == {f \in Offers(P, m) : \A g \in Offers(P, m) : g[m].stamp <= f[m].stamp}

\* The graph row of m once P is registered.
Needs(cache, P, m) ==
  IF Offers(P, m) # {} THEN UNION {f[m].code.imports : f \in Newest(P, m)}
  ELSE IF m \in DOMAIN cache THEN cache[m].code.imports ELSE {}

\* The modules there is something of, and those of them whose imports are all there.
HeldIn(cache, P) == DOMAIN cache \cup UNION {DOMAIN f : f \in P}
Runnable(cache, P) ==
  UNION {Z \in SUBSET HeldIn(cache, P) : \A m \in Z : Needs(cache, P, m) \subseteq Z}

\* Stamps are bounded in the stock, and name one factory.
Consistent(P) ==
  /\ P \subseteq CopyMaps
  /\ \E n \in Nat : \A f \in P : \A m \in DOMAIN f : f[m].stamp <= n
  /\ \A f, g \in P : \A m \in DOMAIN f \cap DOMAIN g :
       f[m].stamp = g[m].stamp => f[m].code = g[m].code

\* Runnable is the largest set that is held and closed.
LEMMA RunnableIsLargest ==
  ASSUME NEW cache, NEW P
  PROVE  /\ Runnable(cache, P) \subseteq HeldIn(cache, P)
         /\ \A m \in Runnable(cache, P) : Needs(cache, P, m) \subseteq Runnable(cache, P)
         /\ \A Z \in SUBSET HeldIn(cache, P) :
              (\A m \in Z : Needs(cache, P, m) \subseteq Z) => Z \subseteq Runnable(cache, P)
BY DEF Runnable

\* Enough to show that a set is runnable in a stock.
LEMMA RunnableWith ==
  ASSUME NEW cache, NEW P, NEW Z \in SUBSET HeldIn(cache, P),
         \A m \in Z : Needs(cache, P, m) \subseteq Z \cup Runnable(cache, P)
  PROVE  Z \subseteq Runnable(cache, P)
<1> DEFINE Y == Z \cup Runnable(cache, P)
<1>1. Y \in SUBSET HeldIn(cache, P) /\ \A m \in Y : Needs(cache, P, m) \subseteq Y
  BY RunnableIsLargest
<1> HIDE DEF Y
<1>2. Y \subseteq Runnable(cache, P)
  BY <1>1, RunnableIsLargest
<1> QED BY <1>2 DEF Y

\* Stocks with the same rows run the same.
LEMMA SameRunnable ==
  ASSUME NEW cache, NEW P, NEW other, NEW Q, HeldIn(cache, P) = HeldIn(other, Q),
         \A m \in HeldIn(cache, P) : Needs(cache, P, m) = Needs(other, Q, m)
  PROVE  Runnable(cache, P) = Runnable(other, Q)
<1>1. Runnable(cache, P) \subseteq Runnable(other, Q)
  BY RunnableIsLargest
<1>2. Runnable(other, Q) \subseteq Runnable(cache, P)
  BY RunnableIsLargest
<1> QED BY <1>1, <1>2

\* A non-empty set of numbers has a least one.
LEMMA LeastNumber ==
  ASSUME NEW T \in SUBSET Nat, T # {}
  PROVE  \E n \in T : \A m \in T : ~(m < n)
<1>1. \E n \in T : \A m \in T : ~(<<m, n>> \in OpToRel(<, Nat))
  BY NatLessThanWellFounded, WFMin
<1>2. \A m, n \in Nat : m < n => <<m, n>> \in OpToRel(<, Nat)
  BY DEF OpToRel
<1> QED BY <1>1, <1>2

\* A module that is offered has a newest copy, and its row is that copy's.
LEMMA NewestRow ==
  ASSUME NEW cache, NEW P, Consistent(P), NEW m, Offers(P, m) # {}
  PROVE  \E f \in Newest(P, m) : Needs(cache, P, m) = f[m].code.imports
<1>1. PICK n \in Nat : \A f \in P : \A x \in DOMAIN f : f[x].stamp <= n
  BY DEF Consistent
<1>2. \A f \in Offers(P, m) : m \in DOMAIN f /\ f \in P /\ f[m].stamp \in Nat /\ f[m].stamp <= n
  <2>1. \A f \in P : \A x \in DOMAIN f : f[x].stamp \in Nat
    BY CopyFields DEF Consistent
  <2> QED BY <1>1, <2>1 DEF Offers
<1> DEFINE T == {n - f[m].stamp : f \in Offers(P, m)}
<1>3. T \subseteq Nat /\ T # {}
  <2>1. \A f \in Offers(P, m) : n - f[m].stamp \in Nat
    BY <1>2
  <2> QED BY <2>1
<1>4. PICK k \in T : \A j \in T : ~(j < k)
  <2> HIDE DEF T
  <2> QED BY <1>3, LeastNumber
<1>5. PICK f \in Offers(P, m) : k = n - f[m].stamp
  BY <1>4
<1>6. ASSUME NEW g \in Offers(P, m)
      PROVE  g[m].stamp <= f[m].stamp
  <2>1. ~(n - g[m].stamp < n - f[m].stamp)
    BY <1>4, <1>5
  <2> QED BY <1>2, <2>1
<1>7. f \in Newest(P, m)
  BY <1>6 DEF Newest
<1>8. ASSUME NEW g \in Newest(P, m)
      PROVE  g[m].code = f[m].code
  <2>1. g \in Offers(P, m) /\ g[m].stamp <= f[m].stamp /\ f[m].stamp <= g[m].stamp
    BY <1>7 DEF Newest
  <2>2. g[m].stamp = f[m].stamp
    BY <1>2, <2>1
  <2> QED BY <1>2, <2>1, <2>2 DEF Consistent
<1>9. Needs(cache, P, m) = UNION {g[m].code.imports : g \in Newest(P, m)}
  BY DEF Needs
<1> QED BY <1>7, <1>8, <1>9

\* The row of m is that of any copy which is at least as new as those of the stock.
LEMMA RowOfNewest ==
  ASSUME NEW cache, NEW P, Consistent(P), NEW m, NEW f \in Offers(P, m),
         \A g \in Offers(P, m) : g[m].stamp <= f[m].stamp
  PROVE  Needs(cache, P, m) = f[m].code.imports
<1>1. PICK h \in Newest(P, m) : Needs(cache, P, m) = h[m].code.imports
  BY NewestRow
<1>2. h \in Offers(P, m) /\ h[m].stamp <= f[m].stamp /\ f[m].stamp <= h[m].stamp
  BY DEF Newest
<1>3. f \in P /\ h \in P /\ m \in DOMAIN f /\ m \in DOMAIN h
      /\ f[m].stamp \in Nat /\ h[m].stamp \in Nat
  BY <1>2, CopyFields DEF Consistent, Offers
<1>4. f[m].stamp = h[m].stamp
  BY <1>2, <1>3
<1> QED BY <1>1, <1>3, <1>4 DEF Consistent

\* To register a payload is to add it to the stock.
LEMMA RegisteredStock ==
  ASSUME NEW cache, NEW F \in CopyMaps, NEW a \in CopyMaps, NEW G, G = registerFactory(F, a),
         NEW P, Consistent(P), NEW Q, Consistent(Q), G \in P, F \in Q, a \in Q,
         \A f \in P : f = G \/ f \in Q, \A f \in Q : f = F \/ f = a \/ f \in P
  PROVE  /\ HeldIn(cache, P) = HeldIn(cache, Q)
         /\ \A m : Needs(cache, P, m) = Needs(cache, Q, m)
         /\ Runnable(cache, P) = Runnable(cache, Q)
<1>1. /\ G \in CopyMaps /\ DOMAIN G = DOMAIN F \cup DOMAIN a
      /\ \A m \in DOMAIN G : \/ m \in DOMAIN F /\ G[m] = F[m]
                             \/ m \in DOMAIN a /\ G[m] = a[m]
      /\ \A m \in DOMAIN F : G[m].stamp >= F[m].stamp
      /\ \A m \in DOMAIN a : G[m].stamp >= a[m].stamp
  BY RegisteredCopies
<1>2. HeldIn(cache, P) = HeldIn(cache, Q)
  BY <1>1 DEF HeldIn
<1>3. ASSUME NEW m, Offers(P, m) # {}
      PROVE  Needs(cache, P, m) = Needs(cache, Q, m)
  <2>1. PICK f \in Newest(P, m) : Needs(cache, P, m) = f[m].code.imports
    BY <1>3, NewestRow
  <2>2. f \in Offers(P, m) /\ \A g \in Offers(P, m) : g[m].stamp <= f[m].stamp
    BY DEF Newest
  <2>3. PICK h \in Offers(Q, m) : h[m] = f[m]
    BY <1>1, <2>2 DEF Offers
  <2>4. \A g \in Q : m \in DOMAIN g => g[m].stamp \in Nat
    BY CopyFields DEF Consistent
  <2>5. ASSUME NEW g \in Offers(Q, m)
        PROVE  g[m].stamp <= h[m].stamp
    <3>1. g[m].stamp \in Nat /\ h[m].stamp \in Nat /\ g \in Q /\ m \in DOMAIN g
      BY <2>4 DEF Offers
    <3>2. CASE g \in P
      BY <2>2, <2>3, <3>1, <3>2 DEF Offers
    <3>3. CASE g \in {F, a}
      <4>1. G \in Offers(P, m) /\ G[m].stamp >= g[m].stamp /\ G[m].stamp \in Nat
        BY <1>1, <3>1, <3>3, CopyFields DEF Offers
      <4>2. G[m].stamp <= h[m].stamp
        BY <2>2, <2>3, <4>1
      <4> QED BY <3>1, <4>1, <4>2
    <3> QED BY <3>1, <3>2, <3>3
  <2>6. Needs(cache, Q, m) = h[m].code.imports
    BY <2>5, RowOfNewest
  <2> QED BY <2>1, <2>3, <2>6
<1>4. ASSUME NEW m, Offers(P, m) = {}
      PROVE  Needs(cache, P, m) = Needs(cache, Q, m)
  <2>1. Offers(Q, m) = {}
    BY <1>1, <1>4 DEF Offers
  <2> QED BY <1>4, <2>1 DEF Needs
<1>5. \A m : Needs(cache, P, m) = Needs(cache, Q, m)
  BY <1>3, <1>4
<1>6. Runnable(cache, P) = Runnable(cache, Q)
  BY <1>2, <1>5, SameRunnable
<1> QED BY <1>2, <1>5, <1>6

\* The caches have the same modules where there is no factory.
SameBeside(cache, other, F) ==
  \A m : m \notin DOMAIN F =>
    /\ m \in DOMAIN cache <=> m \in DOMAIN other
    /\ m \in DOMAIN cache => other[m] = cache[m]

\* What ran matters only for modules without a factory.
LEMMA SameStock ==
  ASSUME NEW cache, NEW other, NEW F, NEW P, F \in P, SameBeside(cache, other, F)
  PROVE  /\ HeldIn(cache, P) = HeldIn(other, P)
         /\ \A m : Needs(cache, P, m) = Needs(other, P, m)
         /\ Runnable(cache, P) = Runnable(other, P)
<1>1. HeldIn(cache, P) = HeldIn(other, P)
  BY DEF HeldIn, SameBeside
<1>2. \A m : m \in DOMAIN F => Offers(P, m) # {}
  BY DEF Offers
<1>3. \A m : Needs(cache, P, m) = Needs(other, P, m)
  BY <1>2 DEF Needs, SameBeside
<1> QED BY <1>1, <1>3, SameRunnable

\* The row of m with nothing but the factories.
LEMMA RowNeeds ==
  ASSUME NEW cache, NEW F \in CopyMaps, NEW m
  PROVE  /\ Needs(cache, {F}, m) = Row(cache, F, m)
         /\ HeldIn(cache, {F}) = DOMAIN cache \cup DOMAIN F
<1>1. HeldIn(cache, {F}) = DOMAIN cache \cup DOMAIN F
  BY DEF HeldIn
<1>2. CASE m \in DOMAIN F
  <2>1. F[m].stamp \in Nat
    BY <1>2, CopyFields
  <2>2. Offers({F}, m) = {F}
    BY <1>2 DEF Offers
  <2>3. Newest({F}, m) = {F}
    BY <2>1, <2>2 DEF Newest
  <2> QED BY <1>1, <1>2, <2>2, <2>3 DEF Needs, Row
<1>3. CASE m \notin DOMAIN F
  <2>1. Offers({F}, m) = {}
    BY <1>3 DEF Offers
  <2> QED BY <1>1, <1>3, <2>1 DEF Needs, Row
<1> QED BY <1>2, <1>3

\* initModule runs what is runnable, throws no error and leaves it runnable.
LEMMA RunnableRuns ==
  ASSUME NEW p \in Pages, NEW ms \in SUBSET Runnable(p.cache, {p.factories})
  PROVE  LET q == initModule(p, ms) IN
         /\ q.st = p.st /\ SameBeside(p.cache, q.cache, p.factories)
         /\ DOMAIN q.cache \subseteq DOMAIN p.cache \cup Runnable(p.cache, {p.factories})
<1> DEFINE cache == p.cache
           F == p.factories
           R == Runnable(cache, {F})
           step == [m \in Modules |-> Row(cache, F, m) \ DOMAIN cache]
           run == Runs(cache, F, ms)
<1>0. cache \in CopyMaps /\ F \in CopyMaps
  BY DEF Pages
<1>1. /\ DOMAIN cache \subseteq Modules /\ DOMAIN F \subseteq Modules
      /\ \A m \in DOMAIN cache : cache[m].code.imports \subseteq Modules
      /\ \A m \in DOMAIN F : F[m].code.imports \subseteq Modules
  <2>1. \A h \in Held : h.code.imports \subseteq Modules
    BY DEF Held, Codes
  <2> QED BY <1>0, <2>1, CopyFields
<1>2. /\ R \subseteq DOMAIN cache \cup DOMAIN F
      /\ \A m \in R : Row(cache, F, m) \subseteq R
  <2>1. R \subseteq HeldIn(cache, {F}) /\ \A m \in R : Needs(cache, {F}, m) \subseteq R
    BY RunnableIsLargest
  <2>2. /\ \A m : Needs(cache, {F}, m) = Row(cache, F, m)
        /\ HeldIn(cache, {F}) = DOMAIN cache \cup DOMAIN F
    BY <1>0, RowNeeds
  <2> QED BY <2>1, <2>2
<1>3. step \in [Modules -> SUBSET Modules]
  BY <1>1 DEF Row
<1>4. ms \ DOMAIN cache \in SUBSET Modules /\ ms \subseteq R /\ R \subseteq Modules
  BY <1>1, <1>2
<1> DEFINE S == ms \ DOMAIN cache
           Z == R \ DOMAIN cache
<1>5. run = Closure(S, step)
  BY DEF Runs
<1>6. S \in SUBSET Modules /\ Z \in SUBSET Modules /\ S \subseteq Z
      /\ \A m \in Z : step[m] \subseteq Z
  BY <1>2, <1>4
<1>7. run \subseteq R \ DOMAIN cache
  <2> HIDE DEF S, Z, step, run
  <2>1. run \subseteq Z
    BY <1>3, <1>5, <1>6, ClosureIsLeast
  <2> QED BY <2>1 DEF Z
<1> HIDE DEF step, R, F, cache, S, Z
<1>8. run \subseteq DOMAIN F
  BY <1>2, <1>7
<1> DEFINE new == [m \in DOMAIN cache \cup run |-> IF m \in run THEN F[m] ELSE cache[m]]
           q == initModule(p, ms)
<1>9. q = [p EXCEPT !.cache = new]
  BY <1>8 DEF initModule, F, cache
<1>10. q.st = p.st /\ q.cache = new
  <2> HIDE DEF new, q
  <2> QED BY <1>9 DEF Pages
<1>11. SameBeside(cache, new, F)
  BY <1>8 DEF SameBeside
<1>12. DOMAIN new \subseteq DOMAIN cache \cup R
  BY <1>7
<1> HIDE DEF new, q
<1> QED BY <1>10, <1>11, <1>12 DEF q, R, F, cache

-----------------------------------------------------------------------------
(* Patches arrive in order, chunks at any time.                            *)

\* The patches on their way to a page: the first i of the inbox, and the one that the task
\* is about to publish after those.
Line(c) ==
  [i \in Nat |->
     {page[c].inbox[j].carried : j \in DOMAIN page[c].inbox \cap 1 .. i}
     \cup {task.updates[d].carried :
             d \in DOMAIN task.updates \cap (IF i > Len(page[c].inbox) THEN {c} ELSE {})}]

\* The factories F with the first i patches and the chunks K.
Stock(F, line, i, K) == {F} \cup line[i] \cup {k.carried : k \in K}

\* All stocks of the factories F with patches of the line and some of the chunks.
Coherent(F, line, chunks) ==
  \A i \in Nat : \A K \in SUBSET chunks : Consistent(Stock(F, line, i, K))

Growing(line) == line[0] = {} /\ \A i, j \in Nat : i <= j => line[i] \subseteq line[j]

\* Whatever has arrived, the route of a chunk that is there is runnable, and what arrives
\* later adds nothing to a row that is not runnable with it.
RoutesRun(cache, F, line, chunks) ==
  \A i \in Nat : \A K \in SUBSET chunks : \A k \in K :
    k.route \in Runnable(cache, Stock(F, line, i, K))
RowsLast(cache, F, line, chunks) ==
  \A i, j \in Nat : \A K, L \in SUBSET chunks : i <= j /\ K \subseteq L =>
    \A m \in HeldIn(cache, Stock(F, line, i, K)) :
      Needs(cache, Stock(F, line, j, L), m)
        \subseteq Needs(cache, Stock(F, line, i, K), m) \cup Runnable(cache, Stock(F, line, j, L))
Supplied(cache, F, line, chunks) ==
  RoutesRun(cache, F, line, chunks) /\ RowsLast(cache, F, line, chunks)

\* What arrives later is held too.
LEMMA HeldGrows ==
  ASSUME NEW cache, NEW F, NEW line, Growing(line), NEW i \in Nat, NEW j \in Nat, i <= j,
         NEW L, NEW K \in SUBSET L
  PROVE  HeldIn(cache, Stock(F, line, i, K)) \subseteq HeldIn(cache, Stock(F, line, j, L))
<1>1. Stock(F, line, i, K) \subseteq Stock(F, line, j, L)
  BY DEF Stock, Growing
<1> QED BY <1>1 DEF HeldIn

\* What is runnable stays so.
LEMMA RunnableGrows ==
  ASSUME NEW cache, NEW F, NEW line, NEW chunks, Growing(line), RowsLast(cache, F, line, chunks),
         NEW i \in Nat, NEW j \in Nat, i <= j, NEW L \in SUBSET chunks, NEW K \in SUBSET L
  PROVE  Runnable(cache, Stock(F, line, i, K)) \subseteq Runnable(cache, Stock(F, line, j, L))
<1> DEFINE P == Stock(F, line, i, K)
           Q == Stock(F, line, j, L)
           R == Runnable(cache, P)
<1>1. R \subseteq HeldIn(cache, P) /\ \A m \in R : Needs(cache, P, m) \subseteq R
  BY RunnableIsLargest
<1>2. HeldIn(cache, P) \subseteq HeldIn(cache, Q)
  BY HeldGrows
<1>3. \A m \in HeldIn(cache, P) :
        Needs(cache, Q, m) \subseteq Needs(cache, P, m) \cup Runnable(cache, Q)
  BY DEF RowsLast
<1> HIDE DEF P, Q, R
<1>4. R \subseteq Runnable(cache, Q)
  BY <1>1, <1>2, <1>3, RunnableWith
<1> QED BY <1>4 DEF P, Q, R

\* The factories alone.
LEMMA FactoriesOnly ==
  ASSUME NEW F, NEW line, Growing(line)
  PROVE  Stock(F, line, 0, {}) = {F}
BY DEF Stock, Growing

\* What ran since matters only beside the factories.
LEMMA SuppliedBeside ==
  ASSUME NEW cache, NEW other, NEW F, NEW line, NEW chunks, SameBeside(cache, other, F),
         Supplied(cache, F, line, chunks)
  PROVE  Supplied(other, F, line, chunks)
<1>1. ASSUME NEW i \in Nat, NEW K \in SUBSET chunks
      PROVE  LET P == Stock(F, line, i, K) IN
             /\ HeldIn(cache, P) = HeldIn(other, P)
             /\ \A m : Needs(cache, P, m) = Needs(other, P, m)
             /\ Runnable(cache, P) = Runnable(other, P)
  <2> DEFINE P == Stock(F, line, i, K)
  <2>1. F \in P
    BY DEF Stock
  <2> HIDE DEF P
  <2>2. /\ HeldIn(cache, P) = HeldIn(other, P)
        /\ \A m : Needs(cache, P, m) = Needs(other, P, m)
        /\ Runnable(cache, P) = Runnable(other, P)
    BY <2>1, SameStock
  <2> QED BY <2>2 DEF P
<1>2. RoutesRun(other, F, line, chunks)
  BY <1>1 DEF Supplied, RoutesRun
<1>3. RowsLast(other, F, line, chunks)
  BY <1>1 DEF Supplied, RowsLast
<1> QED BY <1>2, <1>3 DEF Supplied

\* Once its first patch is registered, the others are on their way.
LEMMA SuppliedByPush ==
  ASSUME NEW cache, NEW F \in CopyMaps, NEW a \in CopyMaps, NEW line, NEW rest, NEW chunks,
         Supplied(cache, F, line, chunks),
         \A i \in Nat : line[i + 1] = {a} \cup rest[i],
         Coherent(F, line, chunks), Coherent(registerFactory(F, a), rest, chunks)
  PROVE  /\ Supplied(cache, registerFactory(F, a), rest, chunks)
         /\ Runnable(cache, Stock(registerFactory(F, a), rest, 0, {}))
              = Runnable(cache, Stock(F, line, 1, {}))
<1> DEFINE G == registerFactory(F, a)
<1>1. ASSUME NEW i \in Nat, NEW K \in SUBSET chunks
      PROVE  LET P == Stock(G, rest, i, K)
                 Q == Stock(F, line, i + 1, K)
             IN /\ HeldIn(cache, P) = HeldIn(cache, Q)
                /\ \A m : Needs(cache, P, m) = Needs(cache, Q, m)
                /\ Runnable(cache, P) = Runnable(cache, Q)
  <2> DEFINE X == rest[i] \cup {k.carried : k \in K}
             P == {G} \cup X
             Q == {F, a} \cup X
  <2>1. Stock(G, rest, i, K) = P /\ Stock(F, line, i + 1, K) = Q
    BY DEF Stock
  <2>2. Consistent(P) /\ Consistent(Q)
    <3>1. i + 1 \in Nat
      OBVIOUS
    <3> HIDE DEF P, Q
    <3> QED BY <2>1, <3>1 DEF Coherent
  <2> HIDE DEF X, P, Q, G
  <2>3. /\ HeldIn(cache, P) = HeldIn(cache, Q)
        /\ \A m : Needs(cache, P, m) = Needs(cache, Q, m)
        /\ Runnable(cache, P) = Runnable(cache, Q)
    <3>1. /\ G \in P /\ F \in Q /\ a \in Q /\ G = registerFactory(F, a)
          /\ \A f \in P : f = G \/ f \in Q
          /\ \A f \in Q : f = F \/ f = a \/ f \in P
      BY DEF P, Q, G
    <3> QED BY <2>2, <3>1, RegisteredStock
  <2> QED BY <2>1, <2>3
<1> HIDE DEF G
<1>2. RoutesRun(cache, G, rest, chunks)
  BY <1>1 DEF Supplied, RoutesRun
<1>3. ASSUME NEW i \in Nat, NEW j \in Nat, NEW K \in SUBSET chunks, NEW L \in SUBSET chunks,
             i <= j, K \subseteq L, NEW m \in HeldIn(cache, Stock(G, rest, i, K))
      PROVE  Needs(cache, Stock(G, rest, j, L), m)
               \subseteq Needs(cache, Stock(G, rest, i, K), m)
                         \cup Runnable(cache, Stock(G, rest, j, L))
  <2>1. i + 1 \in Nat /\ j + 1 \in Nat /\ i + 1 <= j + 1
    BY <1>3
  <2>2. m \in HeldIn(cache, Stock(F, line, i + 1, K))
    BY <1>1, <1>3
  <2>3. Needs(cache, Stock(F, line, j + 1, L), m)
          \subseteq Needs(cache, Stock(F, line, i + 1, K), m)
                    \cup Runnable(cache, Stock(F, line, j + 1, L))
    BY <1>3, <2>1, <2>2 DEF Supplied, RowsLast
  <2> QED BY <1>1, <2>3
<1>4. RowsLast(cache, G, rest, chunks)
  BY <1>3 DEF RowsLast
<1>5. Runnable(cache, Stock(G, rest, 0, {})) = Runnable(cache, Stock(F, line, 1, {}))
  <2>1. Runnable(cache, Stock(G, rest, 0, {})) = Runnable(cache, Stock(F, line, 0 + 1, {}))
    BY <1>1
  <2>2. 0 + 1 = 1
    OBVIOUS
  <2> QED BY <2>1, <2>2
<1> QED BY <1>2, <1>4, <1>5 DEF Supplied, G

\* Once a chunk is registered, the others are on their way.
LEMMA SuppliedByChunk ==
  ASSUME NEW cache, NEW F \in CopyMaps, NEW line, NEW chunks, NEW k \in chunks,
         k.carried \in CopyMaps, Supplied(cache, F, line, chunks), Coherent(F, line, chunks),
         NEW left, \A h : h \in left <=> h \in chunks /\ h # k,
         NEW only, \A h : h \in only <=> h = k,
         Coherent(registerFactory(F, k.carried), line, left)
  PROVE  /\ Supplied(cache, registerFactory(F, k.carried), line, left)
         /\ Runnable(cache, Stock(registerFactory(F, k.carried), line, 0, {}))
              = Runnable(cache, Stock(F, line, 0, only))
<1>0. left = chunks \ {k} /\ only = {k}
  OBVIOUS
<1> DEFINE a == k.carried
           G == registerFactory(F, a)
           With(K) == K \cup {k}
<1>1. ASSUME NEW i \in Nat, NEW K \in SUBSET (chunks \ {k})
      PROVE  LET P == Stock(G, line, i, K)
                 Q == Stock(F, line, i, With(K))
             IN /\ HeldIn(cache, P) = HeldIn(cache, Q)
                /\ \A m : Needs(cache, P, m) = Needs(cache, Q, m)
                /\ Runnable(cache, P) = Runnable(cache, Q)
  <2> DEFINE X == line[i] \cup {h.carried : h \in K}
             P == {G} \cup X
             Q == {F, a} \cup X
  <2>1. Stock(G, line, i, K) = P /\ Stock(F, line, i, With(K)) = Q
    BY DEF Stock
  <2>2. Consistent(P) /\ Consistent(Q)
    <3>1. With(K) \in SUBSET chunks /\ K \in SUBSET left
      BY <1>0, <1>1
    <3> HIDE DEF P, Q, With
    <3> QED BY <2>1, <3>1 DEF Coherent
  <2> HIDE DEF X, P, Q, G, a
  <2>3. /\ HeldIn(cache, P) = HeldIn(cache, Q)
        /\ \A m : Needs(cache, P, m) = Needs(cache, Q, m)
        /\ Runnable(cache, P) = Runnable(cache, Q)
    <3>1. /\ G \in P /\ F \in Q /\ a \in Q /\ G = registerFactory(F, a) /\ a \in CopyMaps
          /\ \A f \in P : f = G \/ f \in Q
          /\ \A f \in Q : f = F \/ f = a \/ f \in P
      BY DEF P, Q, G, a
    <3> QED BY <2>2, <3>1, RegisteredStock
  <2> QED BY <2>1, <2>3
<1>2. \A K \in SUBSET (chunks \ {k}) : With(K) \in SUBSET chunks /\ k \in With(K) /\ K \subseteq With(K)
  OBVIOUS
<1>3. \A K, L : K \subseteq L => With(K) \subseteq With(L)
  OBVIOUS
<1>4. With({}) = {k}
  OBVIOUS
<1> HIDE DEF G, With
<1>5. RoutesRun(cache, G, line, chunks \ {k})
  BY <1>1, <1>2 DEF Supplied, RoutesRun
<1>6. ASSUME NEW i \in Nat, NEW j \in Nat, NEW K \in SUBSET (chunks \ {k}),
             NEW L \in SUBSET (chunks \ {k}), i <= j, K \subseteq L,
             NEW m \in HeldIn(cache, Stock(G, line, i, K))
      PROVE  Needs(cache, Stock(G, line, j, L), m)
               \subseteq Needs(cache, Stock(G, line, i, K), m)
                         \cup Runnable(cache, Stock(G, line, j, L))
  <2>1. With(K) \subseteq With(L) /\ With(K) \in SUBSET chunks /\ With(L) \in SUBSET chunks
    BY <1>2, <1>3, <1>6
  <2>2. m \in HeldIn(cache, Stock(F, line, i, With(K)))
    BY <1>1, <1>6
  <2>3. Needs(cache, Stock(F, line, j, With(L)), m)
          \subseteq Needs(cache, Stock(F, line, i, With(K)), m)
                    \cup Runnable(cache, Stock(F, line, j, With(L)))
    BY <1>6, <2>1, <2>2 DEF Supplied, RowsLast
  <2> QED BY <1>1, <2>3
<1>7. RowsLast(cache, G, line, chunks \ {k})
  BY <1>6 DEF RowsLast
<1>8. Runnable(cache, Stock(G, line, 0, {})) = Runnable(cache, Stock(F, line, 0, {k}))
  <2>1. {} \in SUBSET (chunks \ {k}) /\ 0 \in Nat
    OBVIOUS
  <2> QED BY <1>1, <1>4, <2>1
<1> QED BY <1>0, <1>5, <1>7, <1>8 DEF Supplied, G

\* With more than n patches, the rows in the page are those of the table.
RowsAre(cache, F, line, chunks, n, table) ==
  \A i \in Nat : \A K \in SUBSET chunks : i > n =>
    \A m \in HeldIn(cache, Stock(F, line, i, K)) :
      m \in DOMAIN table /\ Needs(cache, Stock(F, line, i, K), m) = table[m]

\* A patch u comes after the n in the inbox: with all patches the rows are those of the
\* graph, before (old) and after (new), and it comes with the modules X that the imports
\* that were added lead to.
Patched(cache, F, line, next, chunks, n, u, old, new, added, X) ==
  /\ n \in Nat /\ Growing(line) /\ Supplied(cache, F, line, chunks)
  /\ \A i \in Nat : \A f : f \in next[i] <=> f \in line[i] \/ (i > n /\ f = u)
  /\ \A m \in DOMAIN old : new[m] \subseteq old[m] \cup added
  /\ RowsAre(cache, F, line, chunks, n, old) /\ RowsAre(cache, F, next, chunks, n, new)
  /\ added \subseteq X
  /\ \A m \in X : m \in DOMAIN cache \/ m \in DOMAIN F \/ m \in DOMAIN u
  /\ \A m \in X : m \in DOMAIN new => new[m] \subseteq X \/ m \in Runnable(cache, {F})

\* Then what the page needs will be there.
LEMMA SuppliedWithPatch ==
  ASSUME NEW cache, NEW F, NEW line, NEW next, NEW chunks, NEW n, NEW u, NEW old, NEW new,
         NEW added, NEW X, Patched(cache, F, line, next, chunks, n, u, old, new, added, X)
  PROVE  Supplied(cache, F, next, chunks)
<1> SUFFICES
      ASSUME n \in Nat, Growing(line), Supplied(cache, F, line, chunks),
         \A i \in Nat : \A f : f \in next[i] <=> f \in line[i] \/ (i > n /\ f = u),
         \A m \in DOMAIN old : new[m] \subseteq old[m] \cup added,
         RowsAre(cache, F, line, chunks, n, old), RowsAre(cache, F, next, chunks, n, new),
         added \subseteq X,
         \A m \in X : m \in DOMAIN cache \/ m \in DOMAIN F \/ m \in DOMAIN u,
         \A m \in X : m \in DOMAIN new => new[m] \subseteq X \/ m \in Runnable(cache, {F})
      PROVE Supplied(cache, F, next, chunks)
  BY DEF Patched
<1>0. \A i \in Nat : next[i] = IF i > n THEN line[i] \cup {u} ELSE line[i]
  <2>1. ASSUME NEW i \in Nat, i > n PROVE next[i] = line[i] \cup {u}
    BY <2>1
  <2>2. ASSUME NEW i \in Nat, ~(i > n) PROVE next[i] = line[i]
    BY <2>2
  <2> QED BY <2>1, <2>2
<1>1. ASSUME NEW i \in Nat, ~(i > n), NEW K
      PROVE  Stock(F, next, i, K) = Stock(F, line, i, K)
  <2>1. next[i] = line[i]
    BY <1>0, <1>1
  <2> QED BY <2>1 DEF Stock
<1>2. ASSUME NEW i \in Nat, i > n, NEW K \in SUBSET chunks
      PROVE  /\ HeldIn(cache, Stock(F, line, i, K)) \subseteq HeldIn(cache, Stock(F, next, i, K))
             /\ Runnable(cache, Stock(F, line, i, K)) \cup X
                  \subseteq Runnable(cache, Stock(F, next, i, K))
  <2> DEFINE P == Stock(F, line, i, K)
             Q == Stock(F, next, i, K)
             R == Runnable(cache, P)
             Z == R \cup X
  <2>1. next[i] = line[i] \cup {u}
    BY <1>0, <1>2
  <2>2. P \subseteq Q /\ F \in Q /\ u \in Q
    BY <2>1 DEF Stock
  <2>3. R \subseteq HeldIn(cache, P) /\ \A m \in R : Needs(cache, P, m) \subseteq R
    BY RunnableIsLargest
  <2>4. \A m \in HeldIn(cache, P) : Needs(cache, P, m) = old[m] /\ new[m] \subseteq old[m] \cup added
    BY <1>2 DEF RowsAre
  <2>5. \A m \in HeldIn(cache, Q) : m \in DOMAIN new /\ Needs(cache, Q, m) = new[m]
    BY <1>2 DEF RowsAre
  <2>6. Runnable(cache, {F}) \subseteq R
    <3>1. 0 <= i /\ {} \subseteq K
      BY <1>2
    <3>2. Runnable(cache, Stock(F, line, 0, {})) \subseteq R
      BY <3>1, RunnableGrows DEF Supplied
    <3> QED BY <3>2, FactoriesOnly
  <2> HIDE DEF P, Q, R
  <2>7. HeldIn(cache, P) \subseteq HeldIn(cache, Q) /\ X \subseteq HeldIn(cache, Q)
    BY <2>2 DEF HeldIn
  <2>8. Z \in SUBSET HeldIn(cache, Q)
    BY <2>3, <2>7
  <2>9. ASSUME NEW m \in R PROVE Needs(cache, Q, m) \subseteq Z
    <3>1. m \in HeldIn(cache, P) /\ m \in HeldIn(cache, Q)
      BY <2>3, <2>7
    <3>2. old[m] \subseteq R
      BY <2>3, <2>4, <3>1
    <3> QED BY <2>4, <2>5, <3>1, <3>2
  <2>10. ASSUME NEW m \in X PROVE Needs(cache, Q, m) \subseteq Z
    <3>1. CASE new[m] \subseteq X
      BY <2>5, <2>7, <3>1
    <3>2. CASE m \in R
      BY <2>9, <3>2
    <3>3. m \in DOMAIN new
      BY <2>5, <2>7
    <3> QED BY <2>6, <3>1, <3>2, <3>3
  <2>11. Z \subseteq Runnable(cache, Q)
    <3>1. \A m \in Z : Needs(cache, Q, m) \subseteq Z
      BY <2>9, <2>10
    <3> HIDE DEF Z
    <3> QED BY <2>8, <3>1, RunnableIsLargest
  <2> QED BY <2>7, <2>11 DEF P, Q, R
<1>3. ASSUME NEW i \in Nat, NEW K \in SUBSET chunks, NEW k \in K
      PROVE  k.route \in Runnable(cache, Stock(F, next, i, K))
  <2>1. k.route \in Runnable(cache, Stock(F, line, i, K))
    BY DEF Supplied, RoutesRun
  <2> QED BY <1>1, <1>2, <2>1
<1>4. ASSUME NEW i \in Nat, NEW j \in Nat, i <= j, NEW K \in SUBSET chunks,
             NEW L \in SUBSET chunks, K \subseteq L,
             NEW m \in HeldIn(cache, Stock(F, next, i, K))
      PROVE  Needs(cache, Stock(F, next, j, L), m)
               \subseteq Needs(cache, Stock(F, next, i, K), m)
                         \cup Runnable(cache, Stock(F, next, j, L))
  <2>1. m \in HeldIn(cache, Stock(F, line, i, K)) =>
          Needs(cache, Stock(F, line, j, L), m)
            \subseteq Needs(cache, Stock(F, line, i, K), m)
                      \cup Runnable(cache, Stock(F, line, j, L))
    BY <1>4 DEF Supplied, RowsLast
  <2>2. CASE ~(j > n)
    <3>1. ~(i > n)
      BY <1>4, <2>2
    <3>2. Stock(F, next, i, K) = Stock(F, line, i, K) /\ Stock(F, next, j, L) = Stock(F, line, j, L)
      BY <1>1, <2>2, <3>1
    <3> QED BY <1>4, <2>1, <3>2
  <2>3. CASE ~(i > n) /\ j > n
    <3>1. Stock(F, next, i, K) = Stock(F, line, i, K)
      BY <1>1, <2>3
    <3>2. m \in HeldIn(cache, Stock(F, line, i, K)) /\ m \in HeldIn(cache, Stock(F, line, j, L))
      BY <1>4, <3>1, HeldGrows
    <3>3. m \in HeldIn(cache, Stock(F, next, j, L))
      BY <1>2, <2>3, <3>2
    <3>4. /\ Needs(cache, Stock(F, line, j, L), m) = old[m] /\ new[m] \subseteq old[m] \cup added
          /\ Needs(cache, Stock(F, next, j, L), m) = new[m]
      BY <2>3, <3>2, <3>3 DEF RowsAre
    <3>5. Runnable(cache, Stock(F, line, j, L)) \cup X \subseteq Runnable(cache, Stock(F, next, j, L))
      BY <1>2, <2>3
    <3> QED BY <2>1, <3>1, <3>2, <3>4, <3>5
  <2>4. CASE i > n /\ j > n
    <3>1. Growing(next)
      <4>1. next[0] = {}
        <5>1. 0 \in Nat /\ ~(0 > n)
          OBVIOUS
        <5>2. next[0] = line[0]
          BY <1>0, <5>1
        <5> QED BY <5>2 DEF Growing
      <4>2. ASSUME NEW x \in Nat, NEW y \in Nat, x <= y PROVE next[x] \subseteq next[y]
        <5>1. line[x] \subseteq line[y] /\ (x > n => y > n)
          BY <4>2 DEF Growing
        <5> QED BY <1>0, <4>2, <5>1
      <4> QED BY <4>1, <4>2 DEF Growing
    <3>2. m \in HeldIn(cache, Stock(F, next, j, L))
      BY <1>4, <3>1, HeldGrows
    <3>3. /\ Needs(cache, Stock(F, next, j, L), m) = new[m]
          /\ Needs(cache, Stock(F, next, i, K), m) = new[m]
      BY <1>4, <2>4, <3>2 DEF RowsAre
    <3> QED BY <3>3
  <2> QED BY <1>4, <2>2, <2>3, <2>4
<1>5. RoutesRun(cache, F, next, chunks)
  BY <1>3 DEF RoutesRun
<1>6. RowsLast(cache, F, next, chunks)
  BY <1>4 DEF RowsLast
<1> QED BY <1>5, <1>6 DEF Supplied

\* A map that does not have m has no say in its row.
LEMMA RowWithout ==
  ASSUME NEW cache, NEW P, NEW a, NEW Q, NEW m, m \notin DOMAIN a,
         P \subseteq Q, \A f \in Q : f \in P \/ f = a
  PROVE  Needs(cache, Q, m) = Needs(cache, P, m)
<1>1. Offers(P, m) = Offers(Q, m)
  BY DEF Offers
<1>2. Newest(P, m) = Newest(Q, m)
  BY <1>1 DEF Newest
<1> QED BY <1>1, <1>2 DEF Needs

WalkStays(cache, F, line, chunks, k, W) ==
  \A i \in Nat : \A K \in SUBSET chunks : k \in K =>
    \A m \in W : \/ Needs(cache, Stock(F, line, i, K), m) \subseteq W
                 \/ m \in Runnable(cache, {F}) /\ m \notin DOMAIN k.carried

\* A chunk k comes with a walk W from its route: the rows of what it carries and of what
\* the page has of W stay in W.
Handing(cache, F, line, chunks, k, more, W) ==
  /\ Growing(line) /\ Supplied(cache, F, line, chunks)
  /\ \A h : h \in more <=> h \in chunks \/ h = k
  /\ k.route \in W /\ DOMAIN k.carried \subseteq W
  /\ \A m \in W : m \in DOMAIN cache \/ m \in DOMAIN F \/ m \in DOMAIN k.carried
  /\ WalkStays(cache, F, line, more, k, W)

\* Then what the page needs will be there.
LEMMA SuppliedWithChunk ==
  ASSUME NEW cache, NEW F, NEW line, NEW chunks, NEW k, NEW more, NEW W,
         Handing(cache, F, line, chunks, k, more, W)
  PROVE  Supplied(cache, F, line, more)
<1> SUFFICES
      ASSUME Growing(line), Supplied(cache, F, line, chunks),
             \A h : h \in more <=> h \in chunks \/ h = k,
             k.route \in W, DOMAIN k.carried \subseteq W,
             \A m \in W : m \in DOMAIN cache \/ m \in DOMAIN F \/ m \in DOMAIN k.carried,
             WalkStays(cache, F, line, more, k, W)
      PROVE  Supplied(cache, F, line, more)
  BY DEF Handing
<1>0. more = chunks \cup {k}
  OBVIOUS
<1> DEFINE a == k.carried
           Old(K) == K \ {k}
           With(K) == K \cup {k}
<1>1. ASSUME NEW i \in Nat, NEW K
      PROVE  LET P == Stock(F, line, i, Old(K))
                 Q == Stock(F, line, i, With(K))
             IN /\ P \subseteq Q /\ F \in Q /\ a \in Q /\ \A f \in Q : f \in P \/ f = a
                /\ HeldIn(cache, P) \subseteq HeldIn(cache, Q)
                /\ HeldIn(cache, Q) \subseteq HeldIn(cache, P) \cup DOMAIN a
                /\ \A m : m \notin DOMAIN a => Needs(cache, Q, m) = Needs(cache, P, m)
  <2> DEFINE P == Stock(F, line, i, Old(K))
             Q == Stock(F, line, i, With(K))
  <2>1. P \subseteq Q /\ F \in Q /\ a \in Q /\ \A f \in Q : f \in P \/ f = a
    BY DEF Stock
  <2> HIDE DEF P, Q, a
  <2>2. /\ HeldIn(cache, P) \subseteq HeldIn(cache, Q)
        /\ HeldIn(cache, Q) \subseteq HeldIn(cache, P) \cup DOMAIN a
    BY <2>1 DEF HeldIn
  <2>3. \A m : m \notin DOMAIN a => Needs(cache, Q, m) = Needs(cache, P, m)
    BY <2>1, RowWithout
  <2> QED BY <2>1, <2>2, <2>3 DEF P, Q
<1>2. \A K \in SUBSET (chunks \cup {k}) :
        /\ Old(K) \in SUBSET chunks /\ With(K) = With(Old(K))
        /\ k \in K => With(K) = K
        /\ k \notin K => Old(K) = K
  OBVIOUS
<1>3. \A K, L : K \subseteq L => Old(K) \subseteq Old(L)
  OBVIOUS
<1>4. ASSUME NEW i \in Nat, NEW K \in SUBSET (chunks \cup {k})
      PROVE  Runnable(cache, Stock(F, line, i, Old(K))) \cup W
               \subseteq Runnable(cache, Stock(F, line, i, With(K)))
  <2> DEFINE P == Stock(F, line, i, Old(K))
             Q == Stock(F, line, i, With(K))
             R == Runnable(cache, P)
             Z == R \cup W
  <2>1. R \subseteq HeldIn(cache, P) /\ \A m \in R : Needs(cache, P, m) \subseteq R
    BY RunnableIsLargest
  <2>2. Runnable(cache, {F}) \subseteq R
    <3>1. 0 <= i /\ {} \subseteq Old(K) /\ Old(K) \in SUBSET chunks
      BY <1>2
    <3> HIDE DEF Old
    <3>2. Runnable(cache, Stock(F, line, 0, {})) \subseteq R
      BY <3>1, RunnableGrows DEF Supplied
    <3> QED BY <3>2, FactoriesOnly
  <2>3. /\ HeldIn(cache, P) \subseteq HeldIn(cache, Q) /\ F \in Q /\ a \in Q
        /\ \A m : m \notin DOMAIN a => Needs(cache, Q, m) = Needs(cache, P, m)
    BY <1>1
  <2>4. \A m \in W : \/ Needs(cache, Q, m) \subseteq W
                     \/ m \in Runnable(cache, {F}) /\ m \notin DOMAIN a
    <3>1. With(K) \in SUBSET more /\ k \in With(K)
      BY <1>0
    <3> HIDE DEF Old, With
    <3> QED BY <3>1 DEF WalkStays
  <2> HIDE DEF P, Q, R, a
  <2>5. Z \in SUBSET HeldIn(cache, Q)
    <3>1. W \subseteq HeldIn(cache, Q)
      BY <2>3 DEF HeldIn, a
    <3> QED BY <2>1, <2>3, <3>1
  <2>6. ASSUME NEW m \in R, m \notin DOMAIN a PROVE Needs(cache, Q, m) \subseteq Z
    BY <2>1, <2>3, <2>6
  <2>7. ASSUME NEW m \in W PROVE Needs(cache, Q, m) \subseteq Z
    BY <2>2, <2>4, <2>6
  <2>8. \A m \in Z : Needs(cache, Q, m) \subseteq Z
    BY <2>6, <2>7 DEF a
  <2>9. Z \subseteq Runnable(cache, Q)
    <3> HIDE DEF Z
    <3> QED BY <2>5, <2>8, RunnableIsLargest
  <2> QED BY <2>9 DEF P, Q, R
<1> HIDE DEF Old, With, a
<1>5. ASSUME NEW i \in Nat, NEW K \in SUBSET (chunks \cup {k}), NEW h \in K
      PROVE  h.route \in Runnable(cache, Stock(F, line, i, K))
  <2>1. CASE k \notin K
    BY <1>2, <1>5, <2>1 DEF Supplied, RoutesRun
  <2>2. CASE k \in K /\ h = k
    BY <1>2, <1>4, <2>2
  <2>3. CASE k \in K /\ h # k
    <3>1. h \in Old(K) /\ Old(K) \in SUBSET chunks
      BY <1>2, <2>3 DEF Old
    <3>2. h.route \in Runnable(cache, Stock(F, line, i, Old(K)))
      BY <3>1 DEF Supplied, RoutesRun
    <3> QED BY <1>2, <1>4, <2>3, <3>2
  <2> QED BY <2>1, <2>2, <2>3
<1>6. ASSUME NEW i \in Nat, NEW j \in Nat, i <= j, NEW K \in SUBSET (chunks \cup {k}),
             NEW L \in SUBSET (chunks \cup {k}), K \subseteq L,
             NEW m \in HeldIn(cache, Stock(F, line, i, K))
      PROVE  Needs(cache, Stock(F, line, j, L), m)
               \subseteq Needs(cache, Stock(F, line, i, K), m)
                         \cup Runnable(cache, Stock(F, line, j, L))
  <2>0. /\ Old(K) \in SUBSET chunks /\ Old(L) \in SUBSET chunks /\ Old(K) \subseteq Old(L)
    BY <1>2, <1>3, <1>6
  <2>1. m \in HeldIn(cache, Stock(F, line, i, Old(K))) =>
          Needs(cache, Stock(F, line, j, Old(L)), m)
            \subseteq Needs(cache, Stock(F, line, i, Old(K)), m)
                      \cup Runnable(cache, Stock(F, line, j, Old(L)))
    BY <1>6, <2>0 DEF Supplied, RowsLast
  <2>2. CASE k \notin L
    <3>1. Old(L) = L /\ Old(K) = K
      BY <1>2, <1>6, <2>2
    <3> QED BY <1>6, <2>1, <3>1
  <2>3. CASE k \in L /\ m \in DOMAIN a
    <3>1. With(L) = L /\ m \in W /\ With(L) = With(Old(L))
      BY <1>2, <2>3 DEF a
    <3>2. Needs(cache, Stock(F, line, j, L), m) \subseteq W
      <4>1. L \in SUBSET more
        BY <1>0
      <4> QED BY <2>3, <3>1, <4>1 DEF a, WalkStays
    <3> QED BY <1>4, <3>1, <3>2
  <2>4. CASE k \in L /\ m \notin DOMAIN a
    <3>1. With(L) = L
      BY <1>2, <2>4
    <3>2. /\ Needs(cache, Stock(F, line, j, L), m) = Needs(cache, Stock(F, line, j, Old(L)), m)
          /\ Runnable(cache, Stock(F, line, j, Old(L))) \subseteq Runnable(cache, Stock(F, line, j, L))
      BY <1>1, <1>4, <2>4, <3>1
    <3>3. /\ m \in HeldIn(cache, Stock(F, line, i, Old(K)))
          /\ Needs(cache, Stock(F, line, i, K), m) = Needs(cache, Stock(F, line, i, Old(K)), m)
      <4>1. CASE k \in K
        <5>1. With(K) = K
          BY <1>2, <4>1
        <5> QED BY <1>1, <1>6, <2>4, <5>1
      <4>2. CASE k \notin K
        <5>1. Old(K) = K
          BY <1>2, <4>2
        <5> QED BY <1>6, <5>1
      <4> QED BY <4>1, <4>2
    <3> QED BY <2>1, <3>2, <3>3
  <2> QED BY <2>2, <2>3, <2>4
<1>7. RoutesRun(cache, F, line, more)
  BY <1>0, <1>5 DEF RoutesRun
<1>8. RowsLast(cache, F, line, more)
  BY <1>0, <1>6 DEF RowsLast
<1> QED BY <1>7, <1>8 DEF Supplied

-----------------------------------------------------------------------------
(* Why the factories a page runs with are there.                           *)

\* What counts as there for good: the modules the page booted with, for the server, and
\* the routes whose chunk has landed, for the page.
Landed(p) == {r \in Routes : p.lazy[r] = "landed"}
Keeps(p) == DOMAIN p.boot \cup Landed(p)

\* What ran in the page and what counts as there is runnable from its factories.
Ready(cache, kept, F) == DOMAIN cache \cup kept \subseteq Runnable(cache, {F})

\* The page of c missed no update and left no patch alone.
Whole(c) == missed[c] = {}

\* Such a page has what its modules need, if its hello was not late; a module can be
\* missing only in another.
FactoriesOf(c) ==
  Whole(c) /\ ~HelloWasLate(c) =>
    /\ page[c].st # "broken"
    /\ page[c].st = "live" =>
         /\ Ready(page[c].cache, Keeps(page[c]), page[c].factories)
         /\ Supplied(page[c].cache, page[c].factories, Line(c), page[c].chunks)
FactoryInv == \A c \in Clients : FactoriesOf(c)

\* The sessions a task took are those of the pages: what they say was shipped is there, and
\* what they say was evaluated is what the session says.
SnapOf(c) ==
  page[c].st = "live" /\ c \in DOMAIN task.snapshot =>
    /\ Covers(page[c].factories, task.snapshot[c].shipped)
    /\ \/ DOMAIN task.snapshot[c].evaluated = {}
       \/ c \in DOMAIN clients /\ clients[c].evaluated = task.snapshot[c].evaluated
SnapInv == \A c \in Clients : SnapOf(c)

\* Stocks are made of what was sent.
StocksSent ==
  \A c \in Clients : \A i \in Nat : \A K \in SUBSET page[c].chunks :
    /\ Stock(page[c].factories, Line(c), i, K) \subseteq SentTo(c)
    /\ GotEveryScan(c) => Consistent(Stock(page[c].factories, Line(c), i, K))

\* With all patches, the rows in a page are those of the graph.
RowsCurrent ==
  \A c \in Clients : page[c].st = "live" /\ Whole(c) =>
    \A i \in Nat : \A K \in SUBSET page[c].chunks : i > Len(page[c].inbox) =>
      \A m \in HeldIn(page[c].cache, Stock(page[c].factories, Line(c), i, K)) :
        /\ m \in DOMAIN graph
        /\ Needs(page[c].cache, Stock(page[c].factories, Line(c), i, K), m) = graph[m].imports

LEMMA LineGrows ==
  ASSUME NEW c, Len(page[c].inbox) \in Nat
  PROVE  Growing(Line(c))
<1> DEFINE n == Len(page[c].inbox)
           Last(i) == DOMAIN task.updates \cap (IF i > n THEN {c} ELSE {})
           In(i) == DOMAIN page[c].inbox \cap 1 .. i
<1>1. \A i \in Nat : Line(c)[i] = {page[c].inbox[j].carried : j \in In(i)}
                                  \cup {task.updates[d].carried : d \in Last(i)}
  BY DEF Line
<1>2. In(0) = {} /\ Last(0) = {}
  <2>1. 1 .. 0 = {} /\ ~(0 > n)
    OBVIOUS
  <2> QED BY <2>1
<1>3. ASSUME NEW i \in Nat, NEW j \in Nat, i <= j
      PROVE  In(i) \subseteq In(j) /\ Last(i) \subseteq Last(j)
  <2>1. 1 .. i \subseteq 1 .. j /\ (i > n => j > n)
    BY <1>3
  <2> QED BY <2>1
<1> HIDE DEF In, Last
<1>4. Line(c)[0] = {}
  BY <1>1, <1>2
<1>5. \A i, j \in Nat : i <= j => Line(c)[i] \subseteq Line(c)[j]
  BY <1>1, <1>3
<1> QED BY <1>4, <1>5 DEF Growing

\* Stamps name one factory in the copies sent to pages that got every scan.
LEMMA SentIsConsistent ==
  ASSUME TypeInv, StampInv, NEW P \in SUBSET SureCopies
  PROVE  Consistent(P)
<1>0. SureCopies \subseteq AllCopies
  BY DEF SureCopies, AllCopies
<1>1. P \subseteq CopyMaps
  BY <1>0, AllCopiesType
<1>2. rebuild_seq \in Nat /\ \A f \in P : \A m \in DOMAIN f : f[m].stamp <= rebuild_seq
  BY <1>0, CopiesNotAhead DEF TypeInv, GraphType
<1>3. \A f, g \in P : \A m \in DOMAIN f \cap DOMAIN g :
        f[m].stamp = g[m].stamp => f[m].code = g[m].code
  BY DEF StampInv
<1> QED BY <1>1, <1>2, <1>3 DEF Consistent

\* Every stock is made of what was sent to the page.
LEMMA StocksAreSent == TypeInv /\ StampInv => StocksSent
<1> SUFFICES ASSUME TypeInv, StampInv, NEW c \in Clients, NEW i \in Nat,
                    NEW K \in SUBSET page[c].chunks
             PROVE  /\ Stock(page[c].factories, Line(c), i, K) \subseteq SentTo(c)
                    /\ GotEveryScan(c) => Consistent(Stock(page[c].factories, Line(c), i, K))
  BY DEF StocksSent
<1> DEFINE P == Stock(page[c].factories, Line(c), i, K)
<1>1. Line(c)[i] \subseteq {page[c].inbox[j].carried : j \in DOMAIN page[c].inbox}
                           \cup {task.updates[d].carried : d \in DOMAIN task.updates \cap {c}}
  BY DEF Line
<1>2. P \subseteq SentTo(c)
  BY <1>1 DEF Stock, SentTo, Copies
<1>3. GotEveryScan(c) => SentTo(c) \subseteq SureCopies
  BY DEF SureCopies
<1> HIDE DEF P
<1>4. GotEveryScan(c) => Consistent(P)
  BY <1>2, <1>3, SentIsConsistent
<1> QED BY <1>2, <1>4 DEF P

\* A patch that is on its way is in the stock with all patches.
LEMMA ComingIsOffered ==
  ASSUME TypeInv, NEW c \in Clients, NEW i \in Nat, i > Len(page[c].inbox), NEW K,
         NEW m, NEW stamp, Coming(c, page[c], task, m, stamp)
  PROVE  \E f \in Offers(Stock(page[c].factories, Line(c), i, K), m) : f[m].stamp > stamp
<1>1. Len(page[c].inbox) \in Nat /\ DOMAIN page[c].inbox = 1 .. Len(page[c].inbox)
  <2>1. page[c].inbox \in Seq(Pushes)
    BY DEF TypeInv, Pages
  <2> QED BY <2>1, LenProperties
<1>2. DOMAIN page[c].inbox \cap 1 .. i = DOMAIN page[c].inbox
  BY <1>1
<1>3. Line(c)[i] = {page[c].inbox[j].carried : j \in DOMAIN page[c].inbox}
                   \cup {task.updates[d].carried : d \in DOMAIN task.updates \cap {c}}
  BY <1>2 DEF Line
<1> QED BY <1>3 DEF Coming, Replaces, Offers, Stock

\* The rows follow the graph.
LEMMA RowsAreCurrent == TypeInv /\ StampInv /\ CurrentInv => RowsCurrent
<1> SUFFICES ASSUME TypeInv, StampInv, CurrentInv, NEW c \in Clients, page[c].st = "live",
                    Whole(c), NEW i \in Nat, NEW K \in SUBSET page[c].chunks,
                    i > Len(page[c].inbox),
                    NEW m \in HeldIn(page[c].cache, Stock(page[c].factories, Line(c), i, K))
             PROVE  /\ m \in DOMAIN graph
                    /\ Needs(page[c].cache, Stock(page[c].factories, Line(c), i, K), m)
                         = graph[m].imports
  BY DEF RowsCurrent
<1> DEFINE cache == page[c].cache
           F == page[c].factories
           P == Stock(F, Line(c), i, K)
<1>1. P \subseteq SentTo(c) /\ Consistent(P) /\ F \in P
  BY StocksAreSent DEF StocksSent, Stock, Whole, GotEveryScan
<1>2. /\ \A x \in DOMAIN cache : \/ Current(graph, x, cache[x].code)
                                 \/ Coming(c, page[c], task, x, cache[x].stamp)
      /\ \A f \in SentTo(c) : \A x \in DOMAIN f :
           \/ Current(graph, x, f[x].code) \/ Coming(c, page[c], task, x, f[x].stamp)
           \/ HasNewer(page[c], x, f[x].stamp)
  BY DEF CurrentInv, CurrentOf, Whole, Served
<1>3. \A stamp : Coming(c, page[c], task, m, stamp) =>
                   \E f \in Offers(P, m) : f[m].stamp > stamp
  BY ComingIsOffered
<1>4. \A stamp : HasNewer(page[c], m, stamp) => \E f \in Offers(P, m) : f[m].stamp > stamp
  BY <1>1 DEF HasNewer, Offers
<1> HIDE DEF P
<1>5. CASE Offers(P, m) # {}
  <2>1. PICK f \in Newest(P, m) : Needs(cache, P, m) = f[m].code.imports
    BY <1>1, <1>5, NewestRow
  <2>2. f \in Offers(P, m) /\ \A g \in Offers(P, m) : g[m].stamp <= f[m].stamp
    BY DEF Newest
  <2>3. \A g \in Offers(P, m) : g[m].stamp \in Nat
    BY <1>1, CopyFields DEF Consistent, Offers
  <2>4. ~ \E g \in Offers(P, m) : g[m].stamp > f[m].stamp
    BY <2>2, <2>3
  <2>5. f \in SentTo(c) /\ m \in DOMAIN f
    BY <1>1, <2>2 DEF Offers
  <2>6. Current(graph, m, f[m].code)
    BY <1>2, <1>3, <1>4, <2>4, <2>5
  <2> QED BY <2>1, <2>6 DEF Current, P
<1>6. CASE Offers(P, m) = {}
  <2>1. m \in DOMAIN cache
    BY <1>6 DEF HeldIn, Offers, P
  <2>2. Current(graph, m, cache[m].code)
    BY <1>2, <1>3, <1>6, <2>1
  <2>3. Needs(cache, P, m) = cache[m].code.imports
    BY <1>6, <2>1 DEF Needs
  <2> QED BY <2>2, <2>3 DEF Current, P
<1> QED BY <1>5, <1>6

-----------------------------------------------------------------------------
(* Hellos and the sessions of a task. *)

\* What a session says was evaluated stays, and a session ends only with its page.
LEMMA SessionKept ==
  ASSUME TypeInv, [Next]_vars, NEW c \in DOMAIN clients, page'[c].st # "closed"
  PROVE  c \in DOMAIN clients' /\ clients'[c].evaluated = clients[c].evaluated
<1>0. c \in Clients /\ clients[c] \in Sessions
  BY ServerFields
<1>1. CASE UNCHANGED clients
  BY <1>1
<1>2. CASE NumberPatches
  <2>1. clients' = [d \in DOMAIN clients |->
                      IF d \in DOMAIN task.updates
                      THEN [clients[d] EXCEPT !.next_seq = @ + 1] ELSE clients[d]]
    BY <1>2 DEF NumberPatches
  <2> QED BY <1>0, <2>1 DEF Sessions
<1>3. ASSUME NEW d \in Clients, register_client(d)
      PROVE  c \in DOMAIN clients' /\ clients'[c] = clients[c]
  <2>1. d # c
    BY <1>3 DEF register_client
  <2> QED BY <1>3, <2>1, Registered
<1>4. ASSUME NEW d \in Clients, remove_client(d)
      PROVE  c \in DOMAIN clients' /\ clients'[c] = clients[c]
  <2>1. page'[d] = NoPage("closed") /\ NoPage("closed").st = "closed"
    BY <1>4, Removed DEF NoPage
  <2>2. d # c
    BY <2>1
  <2> QED BY <1>4, <2>2, Removed
<1>5. ASSUME NEW d \in Clients, NEW f, notify_payload_delivered(d, f)
      PROVE  c \in DOMAIN clients' /\ clients'[c].evaluated = clients[c].evaluated
  <2>1. clients' = clients
        \/ clients' = [clients EXCEPT ![d].shipped = MaxMerge(@, pending_payloads[f].modules)]
    BY <1>5 DEF notify_payload_delivered
  <2> QED BY <1>0, <2>1 DEF Sessions
<1>6. CASE \/ \E m \in Modules : Edit(m)
           \/ \E files \in SUBSET events, rebuild \in BOOLEAN : StartHmr(files, rebuild)
           \/ ComputeFails \/ Compute \/ HmrDone \/ StartRebuild \/ Rebuild \/ CompileLazyEntry
           \/ \E d \in Clients : PublishPatch(d) \/ LoadPage(d) \/ ReceivePush(d)
           \/ \E d \in Clients, r \in Routes : StartLazy(d, r) \/ requestLazy(d, r)
           \/ \E d \in Clients : \E k \in page[d].chunks : ReceiveChunk(d, k)
           \/ UNCHANGED vars
  <2>1. UNCHANGED clients
    BY <1>6 DEF Edit, StartHmr, ComputeFails, Compute, HmrDone, StartRebuild, Rebuild,
       CompileLazyEntry, PublishPatch, LoadPage, ReceivePush, StartLazy, requestLazy,
       ReceiveChunk, vars
  <2> QED BY <1>1, <2>1
<1> QED BY <1>2, <1>3, <1>4, <1>5, <1>6 DEF Next, ClientStep

\* A hello that was late remains so.
LEMMA LateKept ==
  ASSUME TypeInv, [Next]_vars, NEW c \in Clients, HelloWasLate(c), page'[c].st # "closed",
         page'[c].boot = page[c].boot
  PROVE  HelloWasLate(c)'
BY SessionKept DEF HelloWasLate

\* A page that missed nothing had missed nothing before.
LEMMA WholeBefore ==
  ASSUME TypeInv, [Next]_vars, NEW c \in Clients, Whole(c)'
  PROVE  Whole(c)
BY MissedGrows DEF Whole

\* The sessions that a task has, after a step.
LEMMA NextSnapshot ==
  ASSUME TypeInv, [Next]_vars, NEW c \in DOMAIN task'.snapshot
  PROVE  \/ c \in DOMAIN task.snapshot /\ task'.snapshot[c] = task.snapshot[c]
         \/ c \in DOMAIN clients /\ task'.snapshot[c] = clients[c] /\ clients' = clients
         \/ task'.snapshot[c].shipped = <<>> /\ task'.snapshot[c].evaluated = <<>>
<1>0. task \in Tasks
  BY DEF TypeInv
<1>1. CASE task'.snapshot = task.snapshot \/ DOMAIN task'.snapshot = {}
  BY <1>1
<1>2. ASSUME NEW files \in SUBSET events, NEW rebuild \in BOOLEAN, StartHmr(files, rebuild)
      PROVE  c \in DOMAIN clients /\ task'.snapshot[c] = clients[c] /\ clients' = clients
  BY <1>2, HmrStarted DEF StartHmr
<1>3. ASSUME NEW d \in Clients, NEW r \in Routes, StartLazy(d, r)
      PROVE  \/ c \in DOMAIN clients /\ task'.snapshot[c] = clients[c] /\ clients' = clients
             \/ task'.snapshot[c].shipped = <<>> /\ task'.snapshot[c].evaluated = <<>>
  <2>1. task'.snapshot = [e \in {d} |-> IF d \in DOMAIN clients THEN clients[d]
                                        ELSE [NewSession EXCEPT !.evaluated = <<>>]]
    BY <1>3 DEF StartLazy, Idle
  <2>2. clients' = clients
    BY <1>3 DEF StartLazy
  <2>3. LET s == [NewSession EXCEPT !.evaluated = <<>>] IN
        s.shipped = <<>> /\ s.evaluated = <<>>
    BY DEF NewSession
  <2> QED BY <2>1, <2>2, <2>3
<1>4. CASE \/ ComputeFails \/ HmrDone \/ Compute \/ NumberPatches
           \/ \E d \in Clients : PublishPatch(d)
  <2>1. task' = Idle \/ task'.snapshot = task.snapshot
    <3>1. CASE ComputeFails \/ HmrDone
      BY <1>0, <3>1 DEF ComputeFails, HmrDone, EndTask, Tasks
    <3>2. CASE Compute
      BY <1>0, <3>2, Computed DEF Tasks
    <3>3. CASE NumberPatches \/ \E d \in Clients : PublishPatch(d)
      BY <1>0, <3>3, NumberedPatches, Published DEF Tasks
    <3> QED BY <1>4, <3>1, <3>2, <3>3
  <2> QED BY <1>1, <2>1, IdleType
<1>5. CASE \/ \E m \in Modules : Edit(m)
           \/ \E d \in Clients : ClientStep(d)
           \/ Rebuild \/ CompileLazyEntry \/ StartRebuild
           \/ UNCHANGED vars
  <2>1. UNCHANGED task \/ task' = Idle \/ task'.snapshot = Idle.snapshot
    BY <1>5 DEF Edit, ClientStep, LoadPage, register_client, remove_client, ReceivePush,
       requestLazy, ReceiveChunk, notify_payload_delivered, Rebuild, CompileLazyEntry,
       StartRebuild, Idle, EndTask, vars
  <2> QED BY <1>1, <2>1, IdleType
<1> QED BY <1>2, <1>3, <1>4, <1>5 DEF Next

\* The sessions of a task go on being those of the pages.
LEMMA SnapStep ==
  ASSUME TypeInv, TypeInv', SeqInv, ShipInv, SnapInv, [Next]_vars, NEW c \in Clients
  PROVE  SnapOf(c)'
<1> SUFFICES ASSUME page'[c].st = "live", c \in DOMAIN task'.snapshot
             PROVE  /\ Covers(page'[c].factories, task'.snapshot[c].shipped)
                    /\ \/ DOMAIN task'.snapshot[c].evaluated = {}
                       \/ /\ c \in DOMAIN clients'
                          /\ clients'[c].evaluated = task'.snapshot[c].evaluated
  BY DEF SnapOf
<1>0. DOMAIN <<>> = {}
  BY EmptySeq
<1>1. CASE task'.snapshot[c].shipped = <<>> /\ task'.snapshot[c].evaluated = <<>>
  BY <1>0, <1>1 DEF Covers
<1>2. CASE LoadPage(c)
  <2>1. page[c].st = "none" /\ c \notin DOMAIN task.snapshot /\ task' = task
    BY <1>2 DEF LoadPage, SeqInv, SeqOf
  <2> QED BY <2>1
<1>3. CASE ~LoadPage(c) /\ \/ c \in DOMAIN task.snapshot /\ task'.snapshot[c] = task.snapshot[c]
                           \/ c \in DOMAIN clients /\ task'.snapshot[c] = clients[c] /\ clients' = clients
  <2>1. /\ page[c].st = "live"
        /\ \A m \in DOMAIN page[c].factories :
              /\ m \in DOMAIN page'[c].factories
              /\ page'[c].factories[m].stamp >= page[c].factories[m].stamp
    BY <1>3, OpenPage
  <2>2. Covers(page[c].factories, task'.snapshot[c].shipped)
    BY <1>3, <2>1 DEF SnapInv, SnapOf, ShipInv, ShipOf
  <2>3. /\ page[c].factories \in CopyMaps /\ page'[c].factories \in CopyMaps
        /\ task'.snapshot[c].shipped \in StampMaps
    <3>1. task'.snapshot[c].shipped \in StampMaps
      BY <1>3, ServerFields DEF Sessions
    <3> QED BY <3>1 DEF TypeInv, Pages
  <2>4. Covers(page'[c].factories, task'.snapshot[c].shipped)
    BY <2>1, <2>2, <2>3, CoversMore
  <2>5. CASE c \in DOMAIN task.snapshot /\ task'.snapshot[c] = task.snapshot[c]
    BY <2>1, <2>4, <2>5, SessionKept DEF SnapInv, SnapOf
  <2>6. CASE c \in DOMAIN clients /\ task'.snapshot[c] = clients[c] /\ clients' = clients
    BY <2>4, <2>6
  <2> QED BY <1>3, <2>5, <2>6
<1> QED BY <1>1, <1>2, <1>3, NextSnapshot

-----------------------------------------------------------------------------
(* What is on its way, step by step. *)

\* The inbox of a page and the patch that comes after it.
LEMMA LineOf ==
  ASSUME NEW c, NEW i \in Nat
  PROVE  /\ \A f : f \in Line(c)[i] <=>
              \/ \E j \in DOMAIN page[c].inbox : j \in 1 .. i /\ f = page[c].inbox[j].carried
              \/ i > Len(page[c].inbox) /\ c \in DOMAIN task.updates /\ f = task.updates[c].carried
         /\ \A f : f \in Line(c)'[i] <=>
              \/ \E j \in DOMAIN page'[c].inbox : j \in 1 .. i /\ f = page'[c].inbox[j].carried
              \/ i > Len(page'[c].inbox) /\ c \in DOMAIN task'.updates /\ f = task'.updates[c].carried
BY DEF Line

\* Lines with the same patches.
LEMMA SameLine ==
  ASSUME NEW c, \A i \in Nat : \A f : f \in Line(c)'[i] <=> f \in Line(c)[i]
  PROVE  Line(c)' = Line(c)
<1>1. \A i \in Nat : Line(c)'[i] = Line(c)[i]
  OBVIOUS
<1>2. Line(c) = [i \in Nat |-> Line(c)[i]] /\ Line(c)' = [i \in Nat |-> Line(c)'[i]]
  BY DEF Line
<1> QED BY <1>1, <1>2

\* The inbox is a sequence.
LEMMA InboxType ==
  ASSUME TypeInv, NEW c \in Clients
  PROVE  /\ page[c].inbox \in Seq(Pushes) /\ Len(page[c].inbox) \in Nat
         /\ DOMAIN page[c].inbox = 1 .. Len(page[c].inbox) /\ Growing(Line(c))
<1>1. page[c].inbox \in Seq(Pushes)
  BY DEF TypeInv, Pages
<1>2. Len(page[c].inbox) \in Nat /\ DOMAIN page[c].inbox = 1 .. Len(page[c].inbox)
  BY <1>1, LenProperties
<1> QED BY <1>1, <1>2, LineGrows

\* What is on its way stays so while the page takes no patch and gets no new one.
LEMMA LineKept ==
  ASSUME TypeInv, RecordInv, [Next]_vars, NEW c \in Clients,
         page[c].st = "live", page'[c].st = "live", ~ReceivePush(c),
         Compute => c \notin DOMAIN task'.updates
  PROVE  Line(c)' = Line(c)
<1>1. CASE PublishPatch(c)
  <2> DEFINE n == Len(page[c].inbox)
  <2>1. /\ NewPush(c) \in Pushes /\ c \in DOMAIN task.updates
        /\ page'[c] = [page[c] EXCEPT !.inbox = Append(page[c].inbox, NewPush(c))]
        /\ c \notin DOMAIN task'.updates
    <3>1. PICK updates \in Updates : /\ task' = [task EXCEPT !.updates = updates]
                                     /\ DOMAIN updates = DOMAIN task.updates \ {c}
      BY <1>1, Published
    <3>2. c \notin DOMAIN task'.updates
      BY <3>1 DEF TypeInv, Tasks
    <3> QED BY <1>1, <3>2, Published
  <2>2. page'[c].inbox = Append(page[c].inbox, NewPush(c))
    BY <2>1 DEF TypeInv, Pages
  <2>3. page[c].inbox \in Seq(Pushes) /\ n \in Nat /\ DOMAIN page[c].inbox = 1 .. n
    BY InboxType
  <2>4. /\ Len(page'[c].inbox) = n + 1 /\ DOMAIN page'[c].inbox = 1 .. n + 1
        /\ \A j \in 1 .. n : page'[c].inbox[j] = page[c].inbox[j]
        /\ page'[c].inbox[n + 1] = NewPush(c)
    BY <2>1, <2>2, <2>3, AppendProperties, LenProperties
  <2>5. NewPush(c).carried = task.updates[c].carried
    BY DEF NewPush
  <2> HIDE DEF n
  <2>6. ASSUME NEW i \in Nat, NEW f
        PROVE  f \in Line(c)'[i] <=> f \in Line(c)[i]
    <3>1. f \in Line(c)'[i] <=> \E j \in 1 .. n + 1 : j \in 1 .. i /\ f = page'[c].inbox[j].carried
      <4>1. f \in Line(c)'[i] <=>
              \/ \E j \in DOMAIN page'[c].inbox : j \in 1 .. i /\ f = page'[c].inbox[j].carried
              \/ i > Len(page'[c].inbox) /\ c \in DOMAIN task'.updates /\ f = task'.updates[c].carried
        BY LineOf
      <4>2. c \notin DOMAIN task'.updates /\ DOMAIN page'[c].inbox = 1 .. n + 1
        BY <2>1, <2>4
      <4> QED BY <4>1, <4>2
    <3>2. f \in Line(c)[i] <=> \/ \E j \in 1 .. n : j \in 1 .. i /\ f = page[c].inbox[j].carried
                               \/ i > n /\ f = task.updates[c].carried
      BY <2>1, <2>3, LineOf DEF n
    <3>3. \A j : j \in 1 .. n + 1 <=> j \in 1 .. n \/ j = n + 1
      BY <2>3
    <3>4. n + 1 \in 1 .. i <=> i > n
      BY <2>3
    <3> QED BY <2>4, <2>5, <3>1, <3>2, <3>3, <3>4
  <2> QED BY <2>6, SameLine
<1>2. CASE ~PublishPatch(c)
  <2>1. page'[c].inbox = page[c].inbox
    BY <1>2, InboxKept
  <2>2. c \in DOMAIN task.updates => /\ c \in DOMAIN task'.updates
                                     /\ task'.updates[c].carried = task.updates[c].carried
    BY <1>2, UpdateKept
  <2>3. c \in DOMAIN task'.updates => /\ c \in DOMAIN task.updates
                                      /\ task'.updates[c].carried = task.updates[c].carried
    BY NextUpdates
  <2>4. ASSUME NEW i \in Nat, NEW f
        PROVE  f \in Line(c)'[i] <=> f \in Line(c)[i]
    BY <2>1, <2>2, <2>3, LineOf
  <2> QED BY <2>4, SameLine
<1> QED BY <1>1, <1>2

\* The patch that the page takes was the first.
LEMMA LineAfterPush ==
  ASSUME TypeInv, NEW c \in Clients, page[c].inbox # <<>>, task' = task,
         page'[c].inbox = Tail(page[c].inbox)
  PROVE  \A i \in Nat : Line(c)[i + 1] = {Head(page[c].inbox).carried} \cup Line(c)'[i]
<1> DEFINE n == Len(page[c].inbox)
<1>1. page[c].inbox \in Seq(Pushes) /\ n \in Nat /\ DOMAIN page[c].inbox = 1 .. n
  BY InboxType
<1>2. n \in Nat \ {0}
  BY <1>1, EmptySeq
<1>3. /\ Len(page'[c].inbox) = n - 1 /\ DOMAIN page'[c].inbox = 1 .. n - 1
      /\ \A j \in 1 .. n - 1 : page'[c].inbox[j] = page[c].inbox[j + 1]
      /\ Head(page[c].inbox) = page[c].inbox[1]
  BY <1>1, HeadTailProperties, LenProperties
<1> HIDE DEF n
<1>4. ASSUME NEW i \in Nat, NEW f
      PROVE  f \in Line(c)[i + 1] <=> f \in {Head(page[c].inbox).carried} \cup Line(c)'[i]
  <2>0. i + 1 \in Nat
    OBVIOUS
  <2>1. f \in Line(c)[i + 1] <=>
          \/ \E j \in 1 .. n : j \in 1 .. i + 1 /\ f = page[c].inbox[j].carried
          \/ i + 1 > n /\ c \in DOMAIN task.updates /\ f = task.updates[c].carried
    BY <1>1, <2>0, LineOf DEF n
  <2>2. f \in Line(c)'[i] <=>
          \/ \E j \in 1 .. n - 1 : j \in 1 .. i /\ f = page'[c].inbox[j].carried
          \/ i > n - 1 /\ c \in DOMAIN task.updates /\ f = task.updates[c].carried
    <3>1. f \in Line(c)'[i] <=>
            \/ \E j \in DOMAIN page'[c].inbox : j \in 1 .. i /\ f = page'[c].inbox[j].carried
            \/ i > Len(page'[c].inbox) /\ c \in DOMAIN task'.updates /\ f = task'.updates[c].carried
      <4>1. \A x : x \in Line(c)'[i] <=>
              \/ \E j \in DOMAIN page'[c].inbox : j \in 1 .. i /\ x = page'[c].inbox[j].carried
              \/ i > Len(page'[c].inbox) /\ c \in DOMAIN task'.updates
                 /\ x = task'.updates[c].carried
        BY LineOf
      <4> QED BY <4>1
    <3>2. DOMAIN page'[c].inbox = 1 .. n - 1 /\ Len(page'[c].inbox) = n - 1
      BY <1>3
    <3> QED BY <3>1, <3>2
  <2>3. i + 1 > n <=> i > n - 1
    BY <1>2
  <2>4. ASSUME NEW j \in 1 .. n, j \in 1 .. i + 1, j # 1
        PROVE  /\ j - 1 \in 1 .. n - 1 /\ j - 1 \in 1 .. i
               /\ page[c].inbox[j] = page'[c].inbox[j - 1]
    <3>1. j - 1 \in 1 .. n - 1 /\ j - 1 \in 1 .. i /\ (j - 1) + 1 = j
      BY <1>2, <2>4
    <3> QED BY <1>3, <3>1
  <2>5. ASSUME NEW j \in 1 .. n - 1, j \in 1 .. i
        PROVE  j + 1 \in 1 .. n /\ j + 1 \in 1 .. i + 1 /\ page'[c].inbox[j] = page[c].inbox[j + 1]
    BY <1>2, <1>3, <2>5
  <2>6. 1 \in 1 .. n /\ 1 \in 1 .. i + 1
    BY <1>2
  <2> QED BY <1>3, <2>1, <2>2, <2>3, <2>4, <2>5, <2>6
<1> QED BY <1>4

\* The patch of a hot update comes after those in the inbox.
LEMMA LineWithPatch ==
  ASSUME TypeInv, NEW c \in Clients, DOMAIN task.updates = {}, c \in DOMAIN task'.updates,
         page'[c].inbox = page[c].inbox
  PROVE  \A i \in Nat : \A f :
           f \in Line(c)'[i] <=>
             f \in Line(c)[i] \/ (i > Len(page[c].inbox) /\ f = task'.updates[c].carried)
BY LineOf

\* Stocks and rows after a step.
LEMMA NextStocks == TypeInv' /\ StampInv' => StocksSent'
BY StocksAreSent, PTL

LEMMA NextRows == TypeInv' /\ StampInv' /\ CurrentInv' => RowsCurrent'
BY RowsAreCurrent, PTL

-----------------------------------------------------------------------------
(* The factories of a page, step by step. *)

\* What a page may run with is left alone.
SameHoldings(c) ==
  /\ page'[c].st = page[c].st /\ page'[c].boot = page[c].boot /\ page'[c].cache = page[c].cache
  /\ page'[c].factories = page[c].factories /\ page'[c].chunks = page[c].chunks
  /\ Landed(page'[c]) = Landed(page[c])

\* The steps of others and of the server that leave it alone.
LEMMA HoldingsKept ==
  ASSUME TypeInv, [Next]_vars, NEW c \in Clients, ~LoadPage(c), ~ReceivePush(c),
         CompileLazyEntry => page[c].st # "live" \/ c \notin DOMAIN task.snapshot
  PROVE  \/ page'[c] = NoPage("closed") \/ SameHoldings(c)
         \/ \E r \in Routes : requestLazy(c, r) /\ (isRunnableHere(page[c], r) \/ r \in Landed(page[c]))
         \/ \E k \in page[c].chunks : ReceiveChunk(c, k)
<1>0. page \in [Clients -> Pages] /\ page[c] \in Pages
  BY DEF TypeInv
<1>1. ASSUME page'[c] = page[c] PROVE SameHoldings(c)
  BY <1>1 DEF SameHoldings
<1>2. CASE \/ \E m \in Modules : Edit(m)
           \/ \E files \in SUBSET events, rebuild \in BOOLEAN : StartHmr(files, rebuild)
           \/ ComputeFails \/ Compute \/ NumberPatches \/ HmrDone \/ StartRebuild \/ Rebuild
           \/ \E d \in Clients : register_client(d)
           \/ \E d \in Clients : \E f \in page[d].ran : notify_payload_delivered(d, f)
           \/ UNCHANGED vars
  <2>1. page' = page
    BY <1>2 DEF Edit, StartHmr, ComputeFails, Compute, NumberPatches, HmrDone, StartRebuild,
       Rebuild, register_client, notify_payload_delivered, vars
  <2> QED BY <1>1, <2>1
<1>3. ASSUME NEW d \in Clients, PublishPatch(d)
      PROVE  SameHoldings(c)
  <2>1. CASE d = c /\ page[c].st = "live"
    <3>1. PICK b : page'[c] = [page[c] EXCEPT !.inbox = b]
      BY <1>3, <2>1, Published
    <3> QED BY <1>0, <3>1 DEF Pages, SameHoldings, Landed
  <2>2. CASE ~(d = c /\ page[c].st = "live")
    BY <1>1, <1>3, <2>2, Published
  <2> QED BY <2>1, <2>2
<1>4. CASE CompileLazyEntry
  <2>1. PICK d \in Clients :
          /\ DOMAIN task.snapshot = {d} /\ \A e \in Clients \ {d} : page'[e] = page[e]
          /\ page[d].st # "live" => page'[d] = page[d]
    BY <1>4, Handed
  <2> QED BY <1>1, <1>4, <2>1
<1>5. ASSUME NEW d \in Clients, NEW r \in Routes, StartLazy(d, r)
      PROVE  SameHoldings(c)
  <2>1. page' = [page EXCEPT ![d].lazy[r] = "served"] /\ page[d].lazy[r] = "sent"
    BY <1>5 DEF StartLazy
  <2> QED BY <1>0, <2>1 DEF Pages, SameHoldings, Landed
<1>6. ASSUME NEW d \in Clients, LoadPage(d)
      PROVE  SameHoldings(c)
  BY <1>1, <1>6, Loaded
<1>7. ASSUME NEW d \in Clients, remove_client(d)
      PROVE  page'[c] = NoPage("closed") \/ SameHoldings(c)
  BY <1>1, <1>7, Removed
<1>8. ASSUME NEW d \in Clients, ReceivePush(d)
      PROVE  SameHoldings(c)
  <2>1. page' = [page EXCEPT ![d] = page'[d]] /\ d # c
    BY <1>8, ReceivedPush
  <2> QED BY <1>0, <1>1, <2>1
<1>9. ASSUME NEW d \in Clients, NEW r \in Routes, requestLazy(d, r)
      PROVE  SameHoldings(c) \/ (d = c /\ (isRunnableHere(page[c], r) \/ r \in Landed(page[c])))
  <2>1. CASE d # c
    BY <1>1, <1>9, <2>1, RequestedLazy
  <2>2. CASE d = c /\ ~isRunnableHere(page[c], r) /\ page[c].lazy[r] # "landed"
    <3>1. page' = [page EXCEPT ![c] =
                     [page[c] EXCEPT !.lazyRequests = @ \cup {r},
                                     !.lazy[r] = IF @ = "none" THEN "sent" ELSE @]]
      BY <1>9, <2>2 DEF requestLazy
    <3> QED BY <1>0, <2>2, <3>1 DEF Pages, SameHoldings, Landed
  <2> QED BY <2>1, <2>2 DEF Landed
<1>10. ASSUME NEW d \in Clients, NEW k \in page[d].chunks, ReceiveChunk(d, k)
       PROVE  SameHoldings(c) \/ d = c
  BY <1>1, <1>10, ReceivedChunk
<1> QED BY <1>2, <1>3, <1>4, <1>5, <1>6, <1>7, <1>8, <1>9, <1>10 DEF Next, ClientStep

\* A page that is left alone has what it had.
LEMMA FactoryFrame ==
  ASSUME TypeInv, RecordInv, [Next]_vars, NEW c \in Clients, FactoriesOf(c),
         page'[c] = NoPage("closed") \/ SameHoldings(c),
         ~ReceivePush(c), Compute => c \notin DOMAIN task'.updates
  PROVE  FactoriesOf(c)'
<1>1. CASE page'[c] = NoPage("closed")
  <2>1. page'[c].st = "closed"
    BY <1>1 DEF NoPage
  <2> QED BY <2>1 DEF FactoriesOf
<1>2. CASE SameHoldings(c)
  <2> SUFFICES ASSUME Whole(c)', ~HelloWasLate(c)', page'[c].st \in {"live", "broken"}
               PROVE  /\ page'[c].st # "broken"
                      /\ page'[c].st = "live" =>
                           /\ Ready(page'[c].cache, Keeps(page'[c]), page'[c].factories)
                           /\ Supplied(page'[c].cache, page'[c].factories, Line(c)', page'[c].chunks)
    BY DEF FactoriesOf
  <2>1. Whole(c) /\ ~HelloWasLate(c)
    BY <1>2, WholeBefore, LateKept DEF SameHoldings
  <2>2. page[c].st = "live" /\ page'[c].st = "live"
    BY <1>2, <2>1 DEF FactoriesOf, SameHoldings
  <2>3. Line(c)' = Line(c)
    BY <2>2, LineKept
  <2> QED BY <1>2, <2>1, <2>2, <2>3 DEF FactoriesOf, SameHoldings, Keeps
<1> QED BY <1>1, <1>2

\* A page that loads has all the modules it runs.
LEMMA LoadedFactories ==
  ASSUME TypeInv, TypeInv', SeqInv, NEW c \in Clients, LoadPage(c)
  PROVE  FactoriesOf(c)'
<1> DEFINE T == TopLevel(output)
           cache == [m \in T |-> [code |-> render_module_code(output, m),
                                  stamp |-> top_level_evaluated[m]]]
           F == <<>>
<1>1. /\ page'[c].st = "live" /\ page'[c].boot = top_level_evaluated /\ page'[c].factories = F
      /\ page'[c].chunks = {} /\ page'[c].inbox = <<>>
  BY Loaded
<1>2. page'[c].cache = cache /\ task' = task
  BY DEF LoadPage, NoPage, TypeInv
<1>3. DOMAIN top_level_evaluated = T /\ IsGraph(output)
  BY DEF TypeInv, GraphType
<1>4. T \subseteq DOMAIN output
  BY <1>3, TopLevelScanned
<1>5. \A m \in T : output[m].imports \subseteq T
  <2> DEFINE step == [m \in Modules |-> static_deps(output, m)]
  <2>1. step \in [Modules -> SUBSET Modules] /\ {Entry} \in SUBSET Modules
    BY <1>3, ModulesAssumption DEF static_deps, IsGraph
  <2> HIDE DEF step
  <2>2. \A m \in Closure({Entry}, step) : step[m] \subseteq Closure({Entry}, step)
    BY <2>1, ClosureIsLeast
  <2>3. T = Closure({Entry}, step)
    BY DEF TopLevel, step
  <2>4. \A m \in T : m \in Modules /\ step[m] = output[m].imports
    BY <1>3, <1>4 DEF step, static_deps, IsGraph
  <2> QED BY <2>2, <2>3, <2>4
<1>6. F \in CopyMaps /\ DOMAIN F = {}
  BY EmptyMap DEF CopyMaps
<1>7. \A m \in T : Needs(cache, {F}, m) \subseteq T
  <2>1. \A m \in T : Row(cache, F, m) = output[m].imports
    BY <1>6 DEF Row, render_module_code
  <2> HIDE DEF T, cache, F
  <2> QED BY <1>5, <1>6, <2>1, RowNeeds
<1>8. T \subseteq HeldIn(cache, {F})
  BY DEF HeldIn
<1>9. Ready(cache, Keeps(page'[c]), F)
  <2>1. DOMAIN cache = T
    OBVIOUS
  <2> HIDE DEF T, cache, F
  <2>2. T \subseteq Runnable(cache, {F})
    BY <1>7, <1>8, RunnableIsLargest
  <2>3. Landed(page'[c]) = {}
    <3>1. page'[c].lazy = [r \in Routes |-> "none"]
      BY DEF LoadPage, NoPage, TypeInv
    <3> QED BY <3>1 DEF Landed
  <2> QED BY <1>1, <1>3, <2>1, <2>2, <2>3 DEF Ready, Keeps
<1>10. \A i \in Nat : Line(c)'[i] = {}
  <2>1. c \notin DOMAIN task'.updates
    BY <1>2 DEF SeqInv, SeqOf, TypeInv, TaskShape, LoadPage
  <2>2. DOMAIN page'[c].inbox = {}
    BY <1>1, EmptySeq
  <2>3. \A i \in Nat : \A f : f \notin Line(c)'[i]
    BY <2>1, <2>2, LineOf
  <2> QED BY <2>3
<1>11. Supplied(cache, F, Line(c)', {})
  <2>1. \A i \in Nat : \A K \in SUBSET {} : Stock(F, Line(c)', i, K) = {F}
    BY <1>10 DEF Stock
  <2> HIDE DEF cache, F
  <2> QED BY <2>1 DEF Supplied, RoutesRun, RowsLast
<1> HIDE DEF cache, F
<1> QED BY <1>1, <1>2, <1>9, <1>11 DEF FactoriesOf

\* Running modules requests no route.
LEMMA InitKeepsLazy ==
  ASSUME NEW p \in Pages, NEW ms
  PROVE  initModule(p, ms).lazy = p.lazy
BY DEF initModule, Pages

\* A patch whose page has what its modules need runs through, or asks for a reload.
LEMMA UpdateRuns ==
  ASSUME NEW p \in Pages, NEW push \in Pushes, NEW G,
         G = registerFactory(p.factories, push.carried)
  PROVE  LET q == ApplyUpdate(p, push) IN
         \/ q = NoPage("reload")
         \/ /\ q.boot = p.boot /\ q.chunks = p.chunks /\ q.factories = G /\ q.inbox = p.inbox
            /\ q.lazy = p.lazy
            /\ DOMAIN p.cache \subseteq Runnable(p.cache, {G}) =>
                 /\ q.st = p.st /\ SameBeside(p.cache, q.cache, G)
                 /\ DOMAIN q.cache \subseteq Runnable(p.cache, {G})
<1> DEFINE r == [p EXCEPT !.factories = registerFactory(@, push.carried),
                          !.ran = @ \cup {push.file}]
           update == UpdateSet(r, push.changed)
           cache == Restrict(p.cache, DOMAIN p.cache \ update)
           s == [r EXCEPT !.cache = Restrict(@, DOMAIN @ \ update),
                          !.lazyRequests = @ \ update]
           q == initModule(s, Boundaries(r, update))
<1>1. CASE NoBoundary(r, update) \/ ~(update \subseteq DOMAIN r.factories)
  <2>1. ApplyUpdate(p, push) = NoPage("reload")
    BY <1>1 DEF ApplyUpdate
  <2> QED BY <2>1
<1>2. CASE ~(NoBoundary(r, update) \/ ~(update \subseteq DOMAIN r.factories))
  <2>1. ApplyUpdate(p, push) = q
    BY <1>2 DEF ApplyUpdate
  <2>2. /\ p.factories \in CopyMaps /\ push.carried \in CopyMaps /\ push.changed \subseteq Modules
        /\ push.file \in Nat /\ p.cache \in CopyMaps
    BY DEF Pages, Pushes
  <2>3. G \in CopyMaps
    BY <2>2, RegisteredCopies
  <2>4. /\ r \in Pages /\ r.factories = G /\ r.cache = p.cache
        /\ r.st = p.st /\ r.boot = p.boot /\ r.chunks = p.chunks /\ r.inbox = p.inbox
        /\ r.lazy = p.lazy
    BY <2>2, <2>3 DEF Pages
  <2> HIDE DEF r
  <2>5. update \subseteq DOMAIN p.cache
    <3> DEFINE D == DOMAIN p.cache
               start == push.changed \cap D
               step == [m \in Modules |-> IF m \in Accepting THEN {}
                          ELSE {i \in getImporters(r, m) : <<i, m>> \notin AcceptedDeps}]
    <3>1. \A m : getImporters(r, m) \subseteq D
      BY <2>4 DEF getImporters
    <3>2. D \subseteq Modules
      BY <2>2, CopyFields
    <3>3. start \in SUBSET Modules /\ step \in [Modules -> SUBSET Modules]
      BY <2>2, <3>1, <3>2
    <3>4. start \subseteq D /\ \A m \in D : step[m] \subseteq D
      BY <3>1, <3>2
    <3>5. update = Closure(start, step)
      BY <2>4 DEF UpdateSet
    <3> HIDE DEF D, start, step, update
    <3>6. update \subseteq D
      BY <3>2, <3>3, <3>4, <3>5, ClosureIsLeast
    <3> QED BY <3>6 DEF D
  <2> HIDE DEF update
  <2>6. update \subseteq DOMAIN G
    BY <1>2, <2>4
  <2>7. /\ cache \in CopyMaps /\ DOMAIN cache = DOMAIN p.cache \ update
        /\ \A m \in DOMAIN cache : cache[m] = p.cache[m]
    <3>1. DOMAIN p.cache \ update \in SUBSET DOMAIN p.cache
      OBVIOUS
    <3> QED BY <2>2, <3>1, RestrictedMap DEF CopyMaps
  <2>8. s = [r EXCEPT !.cache = cache, !.lazyRequests = r.lazyRequests \ update]
    BY <2>4 DEF Pages
  <2> HIDE DEF cache
  <2>9. /\ s \in Pages /\ s.cache = cache /\ s.factories = G
        /\ s.st = p.st /\ s.boot = p.boot /\ s.chunks = p.chunks /\ s.inbox = p.inbox
        /\ s.lazy = p.lazy
    <3> HIDE DEF s
    <3> QED BY <2>4, <2>7, <2>8 DEF Pages
  <2> HIDE DEF s
  <2>10. SameBeside(p.cache, cache, G)
    BY <2>6, <2>7 DEF SameBeside
  <2>11. Runnable(cache, {G}) = Runnable(p.cache, {G})
    <3>1. G \in {G}
      OBVIOUS
    <3> QED BY <2>10, <3>1, SameStock
  <2> DEFINE ms == Boundaries(r, update)
  <2>12. q = initModule(s, ms)
    OBVIOUS
  <2>13. ms \subseteq update
    BY DEF Boundaries
  <2> HIDE DEF ms, q
  <2>14. Ran(s, q)
    BY <2>9, <2>12, InitModuleRuns
  <2>15. q.boot = p.boot /\ q.chunks = p.chunks /\ q.factories = G /\ q.inbox = p.inbox
         /\ q.lazy = p.lazy
    BY <2>9, <2>12, <2>14, InitKeepsLazy DEF Ran
  <2>16. ASSUME DOMAIN p.cache \subseteq Runnable(p.cache, {G})
         PROVE  /\ q.st = p.st /\ SameBeside(p.cache, q.cache, G)
                /\ DOMAIN q.cache \subseteq Runnable(p.cache, {G})
    <3>1. ms \in SUBSET Runnable(s.cache, {s.factories})
      BY <2>5, <2>9, <2>11, <2>13, <2>16
    <3>2. /\ q.st = s.st /\ SameBeside(s.cache, q.cache, s.factories)
          /\ DOMAIN q.cache \subseteq DOMAIN s.cache \cup Runnable(s.cache, {s.factories})
      BY <2>9, <2>12, <3>1, RunnableRuns
    <3>3. SameBeside(p.cache, q.cache, G)
      BY <2>9, <2>10, <3>2 DEF SameBeside
    <3>4. DOMAIN q.cache \subseteq Runnable(p.cache, {G})
      BY <2>7, <2>9, <2>11, <2>16, <3>2
    <3> QED BY <2>9, <3>2, <3>3, <3>4
  <2> QED BY <2>1, <2>15, <2>16
<1> QED BY <1>1, <1>2

\* What is there of a page after it ran modules: the same, with as much that can run.
LEMMA RanFactories ==
  ASSUME NEW cache, NEW q, NEW kept, NEW G, NEW line, NEW chunks, Supplied(cache, G, line, chunks),
         kept \subseteq Runnable(cache, {G}), DOMAIN q \subseteq Runnable(cache, {G}),
         SameBeside(cache, q, G)
  PROVE  Ready(q, kept, G) /\ Supplied(q, G, line, chunks)
<1>1. Runnable(cache, {G}) = Runnable(q, {G})
  <2>1. G \in {G}
    OBVIOUS
  <2> QED BY <2>1, SameStock
<1>2. Supplied(q, G, line, chunks)
  BY SuppliedBeside
<1> QED BY <1>1, <1>2 DEF Ready

\* A page that takes a patch has what it needs for it.
LEMMA PushedFactories ==
  ASSUME TypeInv, TypeInv', StampInv, StampInv', [Next]_vars, NEW c \in Clients,
         ReceivePush(c), FactoriesOf(c)
  PROVE  FactoriesOf(c)'
<1> SUFFICES ASSUME Whole(c)', ~HelloWasLate(c)', page'[c].st \in {"live", "broken"}
             PROVE  /\ page'[c].st # "broken"
                    /\ Ready(page'[c].cache, Keeps(page'[c]), page'[c].factories)
                    /\ Supplied(page'[c].cache, page'[c].factories, Line(c)', page'[c].chunks)
  BY DEF FactoriesOf
<1> DEFINE push == Head(page[c].inbox)
           p == [page[c] EXCEPT !.inbox = Tail(@), !.last_seq = push.seq]
           a == push.carried
           cache == page[c].cache
           F == page[c].factories
           G == registerFactory(F, a)
           chunks == page[c].chunks
           line == Line(c)
           rest == Line(c)'
<1>1. /\ page[c] \in Pages /\ page[c].st = "live" /\ page[c].inbox # <<>>
      /\ push \in Pushes /\ p \in Pages
  BY ReceivedPush DEF TypeInv
<1>2. page'[c] = ApplyUpdate(p, push)
  <2>1. PICK q : page' = [page EXCEPT ![c] = q]
                 /\ \/ q = IF push.seq # page[c].last_seq + 1 THEN NoPage("gap")
                           ELSE ApplyUpdate(p, push)
                    \/ q = NoPage("reload")
    <3>1. ~SkipPush(c)
      BY DEF SkipPush, Missing, Whole
    <3> QED BY <3>1 DEF ReceivePush, RunPush
  <2>2. page'[c] = q
    BY <2>1 DEF TypeInv
  <2>3. q # NoPage("gap") /\ q # NoPage("reload")
    BY <2>2 DEF NoPage
  <2> QED BY <2>1, <2>2, <2>3
<1>3. /\ p.factories = F /\ p.cache = cache /\ p.chunks = chunks /\ p.boot = page[c].boot
      /\ p.st = "live" /\ p.inbox = Tail(page[c].inbox) /\ p.lazy = page[c].lazy
  BY <1>1 DEF Pages
<1> HIDE DEF p
<1>4. F \in CopyMaps /\ a \in CopyMaps
  BY <1>1 DEF Pages, Pushes
<1>5. /\ page'[c].factories = G /\ page'[c].boot = page[c].boot
      /\ page'[c].inbox = Tail(page[c].inbox) /\ page'[c].chunks = chunks
      /\ Keeps(page'[c]) = Keeps(page[c])
      /\ DOMAIN cache \subseteq Runnable(cache, {G}) =>
           /\ page'[c].st = "live" /\ SameBeside(cache, page'[c].cache, G)
           /\ DOMAIN page'[c].cache \subseteq Runnable(cache, {G})
  <2>1. ApplyUpdate(p, push) # NoPage("reload")
    BY <1>2 DEF NoPage
  <2> DEFINE q == ApplyUpdate(p, push)
  <2>2. G = registerFactory(p.factories, push.carried)
    BY <1>3
  <2> HIDE DEF G
  <2>3. /\ q.boot = p.boot /\ q.chunks = p.chunks /\ q.factories = G /\ q.inbox = p.inbox
        /\ q.lazy = p.lazy
        /\ DOMAIN p.cache \subseteq Runnable(p.cache, {G}) =>
             /\ q.st = p.st /\ SameBeside(p.cache, q.cache, G)
             /\ DOMAIN q.cache \subseteq Runnable(p.cache, {G})
    <3>1. p \in Pages /\ push \in Pushes
      BY <1>1
    <3> HIDE DEF push
    <3>2. LET x == ApplyUpdate(p, push) IN
          \/ x = NoPage("reload")
          \/ /\ x.boot = p.boot /\ x.chunks = p.chunks /\ x.factories = G /\ x.inbox = p.inbox
             /\ x.lazy = p.lazy
             /\ DOMAIN p.cache \subseteq Runnable(p.cache, {G}) =>
                  /\ x.st = p.st /\ SameBeside(p.cache, x.cache, G)
                  /\ DOMAIN x.cache \subseteq Runnable(p.cache, {G})
      BY <2>2, <3>1, UpdateRuns
    <3> QED BY <2>1, <3>2
  <2> HIDE DEF q
  <2>4. page'[c] = q
    BY <1>2 DEF q
  <2> QED BY <1>3, <2>3, <2>4 DEF Keeps, Landed
<1>6. Whole(c) /\ ~HelloWasLate(c)
  BY <1>5, WholeBefore, LateKept
<1>7. Ready(cache, Keeps(page[c]), F) /\ Supplied(cache, F, line, chunks)
  BY <1>1, <1>6 DEF FactoriesOf
<1>8. \A i \in Nat : line[i + 1] = {a} \cup rest[i]
  BY <1>1, <1>5, LineAfterPush DEF ReceivePush
<1>9. Growing(line)
  BY InboxType
<1>10. rest[0] = {}
  <2>1. Len(page'[c].inbox) \in Nat
    <3>1. page'[c].inbox \in Seq(Pushes)
      BY DEF TypeInv, Pages
    <3> QED BY <3>1, LenProperties
  <2>2. 1 .. 0 = {} /\ ~(0 > Len(page'[c].inbox)) /\ 0 \in Nat
    BY <2>1
  <2>3. \A f : f \notin rest[0]
    <3> TAKE f
    <3>1. f \in rest[0] <=>
            \/ \E j \in DOMAIN page'[c].inbox : j \in 1 .. 0 /\ f = page'[c].inbox[j].carried
            \/ 0 > Len(page'[c].inbox) /\ c \in DOMAIN task'.updates /\ f = task'.updates[c].carried
      BY <2>2, LineOf
    <3> QED BY <2>2, <3>1
  <2> QED BY <2>3
<1>11. Coherent(F, line, chunks)
  BY <1>6, StocksAreSent DEF StocksSent, Coherent, Whole, GotEveryScan
<1>12. Coherent(G, rest, chunks)
  <2>1. StocksSent' /\ GotEveryScan(c)'
    BY NextStocks DEF Whole, GotEveryScan
  <2> QED BY <1>5, <2>1 DEF StocksSent, Coherent
<1> HIDE DEF cache, F, a, chunks, line, rest, push
<1>14. /\ Supplied(cache, G, rest, chunks)
       /\ Runnable(cache, Stock(G, rest, 0, {})) = Runnable(cache, Stock(F, line, 1, {}))
  BY <1>4, <1>7, <1>8, <1>11, <1>12, SuppliedByPush
<1>15. Stock(G, rest, 0, {}) = {G} /\ Stock(F, line, 0, {}) = {F}
  BY <1>9, <1>10, FactoriesOnly DEF Stock
<1>16. Runnable(cache, {F}) \subseteq Runnable(cache, {G})
  <2>1. 0 \in Nat /\ 1 \in Nat /\ 0 <= 1 /\ {} \in SUBSET chunks /\ {} \in SUBSET {}
    OBVIOUS
  <2>2. Runnable(cache, Stock(F, line, 0, {})) \subseteq Runnable(cache, Stock(F, line, 1, {}))
    BY <1>7, <1>9, <2>1, RunnableGrows DEF Supplied
  <2> QED BY <1>14, <1>15, <2>2
<1>17. DOMAIN cache \subseteq Runnable(cache, {G}) /\ Keeps(page[c]) \subseteq Runnable(cache, {G})
  BY <1>7, <1>16 DEF Ready
<1> HIDE DEF G
<1>18. /\ Ready(page'[c].cache, Keeps(page[c]), G)
       /\ Supplied(page'[c].cache, G, rest, chunks)
  BY <1>5, <1>14, <1>17, RanFactories
<1> QED BY <1>5, <1>17, <1>18 DEF rest

\* A page that takes a chunk has what its route needs.
LEMMA ChunkFactories ==
  ASSUME TypeInv, TypeInv', StampInv, StampInv', [Next]_vars, NEW c \in Clients,
         NEW k \in page[c].chunks, ReceiveChunk(c, k), FactoriesOf(c)
  PROVE  FactoriesOf(c)'
<1> SUFFICES ASSUME Whole(c)', ~HelloWasLate(c)', page'[c].st \in {"live", "broken"}
             PROVE  /\ page'[c].st # "broken"
                    /\ Ready(page'[c].cache, Keeps(page'[c]), page'[c].factories)
                    /\ Supplied(page'[c].cache, page'[c].factories, Line(c)', page'[c].chunks)
  BY DEF FactoriesOf
<1> DEFINE a == k.carried
           cache == page[c].cache
           F == page[c].factories
           G == registerFactory(F, a)
           chunks == page[c].chunks
           line == Line(c)
           p == [page[c] EXCEPT !.factories = registerFactory(@, k.carried),
                                !.ran = @ \cup {k.file}, !.lazyRequests = @ \ {k.route},
                                !.lazy[k.route] = "landed", !.chunks = @ \ {k}]
           q == initModule(p, {k.route})
<1>1. /\ page[c] \in Pages /\ page[c].st = "live" /\ k \in Chunks /\ task' = task
      /\ page'[c] = q
  BY DEF TypeInv, Pages, ReceiveChunk
<1>2. F \in CopyMaps /\ a \in CopyMaps /\ k.file \in Nat
  BY <1>1 DEF Pages, Chunks
<1>3. G \in CopyMaps
  BY <1>2, RegisteredCopies
<1>4. /\ p \in Pages /\ p.factories = G /\ p.cache = cache /\ p.chunks = chunks \ {k}
      /\ p.boot = page[c].boot /\ p.st = "live" /\ p.inbox = page[c].inbox
      /\ p.lazy = [page[c].lazy EXCEPT ![k.route] = "landed"]
  BY <1>1, <1>2, <1>3 DEF Pages, Chunks, LazyStates
<1> HIDE DEF p
<1>5. Ran(p, q)
  BY <1>4, InitModuleRuns
<1>51. q.lazy = p.lazy
  BY <1>4, InitKeepsLazy
<1> HIDE DEF q
<1>6. /\ page'[c].factories = G /\ page'[c].boot = page[c].boot
      /\ page'[c].inbox = page[c].inbox /\ page'[c].chunks = chunks \ {k}
  BY <1>1, <1>4, <1>5 DEF Ran
<1>61. Keeps(page'[c]) \subseteq Keeps(page[c]) \cup {k.route}
  <2>1. page'[c].lazy = [page[c].lazy EXCEPT ![k.route] = "landed"]
    BY <1>1, <1>4, <1>51
  <2>2. page[c].lazy \in [Routes -> LazyStates]
    BY <1>1 DEF Pages
  <2>3. Landed(page'[c]) \subseteq Landed(page[c]) \cup {k.route}
    BY <2>1, <2>2 DEF Landed
  <2> QED BY <1>6, <2>3 DEF Keeps
<1>7. Whole(c) /\ ~HelloWasLate(c)
  BY <1>6, WholeBefore, LateKept
<1>8. Ready(cache, Keeps(page[c]), F) /\ Supplied(cache, F, line, chunks)
  BY <1>1, <1>7 DEF FactoriesOf
<1>9. Line(c)' = line
  BY <1>1, <1>6 DEF Line
<1>10. Growing(line)
  BY InboxType
<1>11. Coherent(F, line, chunks)
  BY <1>7, StocksAreSent DEF StocksSent, Coherent, Whole, GotEveryScan
<1>12. Coherent(G, line, chunks \ {k})
  <2>1. StocksSent' /\ GotEveryScan(c)'
    BY NextStocks DEF Whole, GotEveryScan
  <2> QED BY <1>6, <1>9, <2>1 DEF StocksSent, Coherent
<1>13. k \in chunks
  OBVIOUS
<1> HIDE DEF cache, F, chunks, line
<1>14. /\ Supplied(cache, G, line, chunks \ {k})
       /\ Runnable(cache, Stock(G, line, 0, {})) = Runnable(cache, Stock(F, line, 0, {k}))
  <2> DEFINE left == chunks \ {k}
             only == {k}
  <2>1. /\ \A h : h \in left <=> h \in chunks /\ h # k
        /\ \A h : h \in only <=> h = k
    OBVIOUS
  <2> HIDE DEF left, only
  <2>2. /\ Supplied(cache, G, line, left)
        /\ Runnable(cache, Stock(G, line, 0, {})) = Runnable(cache, Stock(F, line, 0, only))
    <3>1. Coherent(G, line, left)
      BY <1>12 DEF left
    <3> QED BY <1>2, <1>8, <1>11, <1>13, <2>1, <3>1, SuppliedByChunk
  <2> QED BY <2>2 DEF left, only
<1>15. Stock(G, line, 0, {}) = {G} /\ Stock(F, line, 0, {}) = {F}
  BY <1>10, FactoriesOnly
<1>16. Runnable(cache, {F}) \subseteq Runnable(cache, {G}) /\ k.route \in Runnable(cache, {G})
  <2>1. 0 \in Nat /\ 0 <= 0 /\ {k} \in SUBSET chunks /\ {} \in SUBSET {k} /\ k \in {k}
    BY <1>13
  <2>2. Runnable(cache, Stock(F, line, 0, {})) \subseteq Runnable(cache, Stock(F, line, 0, {k}))
    BY <1>8, <1>10, <2>1, RunnableGrows DEF Supplied
  <2>3. k.route \in Runnable(cache, Stock(F, line, 0, {k}))
    BY <1>8, <2>1 DEF Supplied, RoutesRun
  <2> QED BY <1>14, <1>15, <2>2, <2>3
<1>17. DOMAIN cache \subseteq Runnable(cache, {G}) /\ Keeps(page'[c]) \subseteq Runnable(cache, {G})
  BY <1>8, <1>16, <1>61 DEF Ready
<1>18. /\ q.st = "live" /\ SameBeside(cache, q.cache, G)
       /\ DOMAIN q.cache \subseteq Runnable(cache, {G})
  <2>1. {k.route} \in SUBSET Runnable(p.cache, {p.factories})
    BY <1>4, <1>16 DEF cache
  <2> DEFINE x == initModule(p, {k.route})
  <2>2. /\ x.st = p.st /\ SameBeside(p.cache, x.cache, p.factories)
        /\ DOMAIN x.cache \subseteq DOMAIN p.cache \cup Runnable(p.cache, {p.factories})
    BY <1>4, <2>1, RunnableRuns
  <2>3. q = x
    BY DEF q
  <2> HIDE DEF x
  <2> QED BY <1>4, <1>17, <2>2, <2>3 DEF cache
<1> HIDE DEF G
<1>19. Ready(q.cache, Keeps(page'[c]), G) /\ Supplied(q.cache, G, line, chunks \ {k})
  BY <1>14, <1>17, <1>18, RanFactories
<1> QED BY <1>1, <1>6, <1>9, <1>18, <1>19

\* A route that is runnable here, or has landed, has what it needs.
LEMMA RouteFactories ==
  ASSUME TypeInv, [Next]_vars, NEW c \in Clients, NEW r \in Routes, requestLazy(c, r),
         isRunnableHere(page[c], r) \/ r \in Landed(page[c]), FactoriesOf(c)
  PROVE  FactoriesOf(c)'
<1> SUFFICES ASSUME Whole(c)', ~HelloWasLate(c)', page'[c].st \in {"live", "broken"}
             PROVE  /\ page'[c].st # "broken"
                    /\ Ready(page'[c].cache, Keeps(page'[c]), page'[c].factories)
                    /\ Supplied(page'[c].cache, page'[c].factories, Line(c)', page'[c].chunks)
  BY DEF FactoriesOf
<1> DEFINE p == page[c]
           cache == page[c].cache
           F == page[c].factories
           q == initModule(p, {r})
           step == [m \in Modules |-> Row(cache, F, m) \ DOMAIN cache]
           run == Runs(cache, F, {r})
<1>1. /\ p \in Pages /\ p.st = "live" /\ r \notin DOMAIN cache /\ task' = task /\ page'[c] = q
  BY DEF TypeInv, requestLazy, Landed
<1>2. F \in CopyMaps /\ cache \in CopyMaps
  BY <1>1 DEF Pages
<1>3. Ran(p, q) /\ q.lazy = p.lazy
  BY <1>1, InitModuleRuns, InitKeepsLazy
<1> HIDE DEF q
<1>4. /\ page'[c].factories = F /\ page'[c].boot = p.boot
      /\ page'[c].inbox = p.inbox /\ page'[c].chunks = p.chunks
      /\ Keeps(page'[c]) = Keeps(p)
  BY <1>1, <1>3 DEF Ran, Keeps, Landed
<1>5. Whole(c) /\ ~HelloWasLate(c)
  BY <1>4, WholeBefore, LateKept
<1>6. Ready(cache, Keeps(p), F) /\ Supplied(cache, F, Line(c), p.chunks)
  BY <1>1, <1>5 DEF FactoriesOf
<1>7. Line(c)' = Line(c)
  BY <1>1, <1>4 DEF Line
<1>8. step \in [Modules -> SUBSET Modules] /\ {r} \in SUBSET Modules
  <2>1. \A h \in Held : h.code.imports \subseteq Modules
    BY DEF Held, Codes
  <2>2. /\ \A m \in DOMAIN cache : cache[m].code.imports \subseteq Modules
        /\ \A m \in DOMAIN F : F[m].code.imports \subseteq Modules
    BY <1>2, <2>1, CopyFields
  <2> QED BY <2>2, ModulesAssumption DEF Row
<1>9. run = Closure({r}, step)
  <2>1. {r} \ DOMAIN cache = {r}
    BY <1>1
  <2> QED BY <2>1 DEF Runs
<1>10. r \in run /\ \A m \in run : Row(cache, F, m) \subseteq run \cup DOMAIN cache
  <2> HIDE DEF step, run
  <2>1. r \in run /\ run \subseteq Modules /\ \A m \in run : step[m] \subseteq run
    BY <1>8, <1>9, ClosureIsLeast
  <2> QED BY <2>1 DEF step
<1>101. run \subseteq DOMAIN F \/ r \in Landed(p)
  BY DEF isRunnableHere
<1> HIDE DEF run, step
<1>11. ASSUME run \subseteq DOMAIN F
       PROVE  run \subseteq Runnable(cache, {F})
  <2>1. run \in SUBSET HeldIn(cache, {F})
    BY <1>11 DEF HeldIn
  <2>2. DOMAIN cache \subseteq Runnable(cache, {F})
    BY <1>6 DEF Ready
  <2> HIDE DEF cache, F
  <2>3. \A m : Needs(cache, {F}, m) = Row(cache, F, m)
    BY <1>2, RowNeeds
  <2>4. \A m \in run : Needs(cache, {F}, m) \subseteq run \cup Runnable(cache, {F})
    BY <1>10, <2>2, <2>3
  <2> QED BY <2>1, <2>4, RunnableWith
<1>12. /\ q.st = "live" /\ SameBeside(cache, q.cache, F) /\ DOMAIN q.cache \subseteq Runnable(cache, {F})
  <2>1. {r} \in SUBSET Runnable(p.cache, {p.factories})
    <3>1. CASE run \subseteq DOMAIN F
      BY <1>10, <1>11, <3>1
    <3>2. CASE r \in Landed(p)
      BY <1>6, <3>2 DEF Ready, Keeps
    <3> QED BY <1>101, <3>1, <3>2
  <2> DEFINE x == initModule(p, {r})
  <2> HIDE DEF p
  <2>2. /\ x.st = p.st /\ SameBeside(p.cache, x.cache, p.factories)
        /\ DOMAIN x.cache \subseteq DOMAIN p.cache \cup Runnable(p.cache, {p.factories})
    BY <1>1, <2>1, RunnableRuns
  <2>3. q = x
    BY DEF q
  <2> HIDE DEF x
  <2> QED BY <1>1, <1>6, <2>2, <2>3 DEF p, Ready
<1>13. Keeps(p) \subseteq Runnable(cache, {F})
  BY <1>6 DEF Ready
<1> HIDE DEF cache, F
<1>14. Ready(q.cache, Keeps(p), F) /\ Supplied(q.cache, F, Line(c), p.chunks)
  <2> DEFINE other == q.cache
             kept == Keeps(p)
             line == Line(c)
             chunks == p.chunks
  <2>1. /\ Supplied(cache, F, line, chunks) /\ SameBeside(cache, other, F)
        /\ kept \subseteq Runnable(cache, {F}) /\ DOMAIN other \subseteq Runnable(cache, {F})
    BY <1>6, <1>12, <1>13
  <2> HIDE DEF other, kept, line, chunks
  <2>2. Ready(other, kept, F) /\ Supplied(other, F, line, chunks)
    BY <2>1, RanFactories
  <2> QED BY <2>2 DEF other, kept, line, chunks
<1> QED BY <1>1, <1>4, <1>7, <1>12, <1>14

-----------------------------------------------------------------------------
(* What the server sends along. *)

\* The payload u brings what the page, with this cache and these factories F, lacks to run
\* the targets: the session names what ran in the page and what it has.
Brings(u, g, lat, targets, shipped, evaluated, cache, F) ==
  /\ IsGraph(g) /\ targets \in SUBSET DOMAIN g
  /\ DOMAIN evaluated \subseteq Runnable(cache, {F}) /\ DOMAIN shipped \subseteq DOMAIN F
  /\ collect_unheld_sync_deps(g, lat, targets, shipped, evaluated) \subseteq DOMAIN u

\* The modules W that the walk from the targets reaches are in the page or in u, and what
\* they import is reached too, unless they are runnable as they are.
Walked(W, u, g, lat, targets, shipped, evaluated, cache, F) ==
  LET unheld == collect_unheld_sync_deps(g, lat, targets, shipped, evaluated)
  IN /\ targets \subseteq W /\ unheld \subseteq W
     /\ \A m \in W : m \in DOMAIN cache \/ m \in DOMAIN F \/ m \in DOMAIN u
     /\ \A m \in W :
          \/ /\ static_deps(g, m) \subseteq W
             /\ m \in unheld \/ holds_current(lat, shipped, m)
          \/ m \in Runnable(cache, {F}) /\ m \notin unheld

\* The walk of collect_unheld_sync_deps.
LEMMA WalkIsHeld ==
  ASSUME NEW g, NEW lat, NEW targets, NEW shipped, NEW evaluated, NEW cache, NEW F, NEW u,
         Brings(u, g, lat, targets, shipped, evaluated, cache, F)
  PROVE  \E W \in SUBSET Modules : Walked(W, u, g, lat, targets, shipped, evaluated, cache, F)
<1> USE DEF Brings
<1> DEFINE live(m) == holds_current(lat, evaluated, m)
           step == [m \in Modules |-> IF live(m) THEN {} ELSE static_deps(g, m)]
           W == Closure(targets, step)
           unheld == collect_unheld_sync_deps(g, lat, targets, shipped, evaluated)
<1>1. targets \in SUBSET Modules /\ step \in [Modules -> SUBSET Modules]
  BY DEF IsGraph, static_deps
<1>2. /\ targets \subseteq W /\ W \subseteq Modules
      /\ \A m \in W : step[m] \subseteq W
  <2> HIDE DEF step
  <2> QED BY <1>1, ClosureIsLeast
<1>3. unheld = {m \in W : ~live(m) /\ ~holds_current(lat, shipped, m)}
  BY DEF collect_unheld_sync_deps
<1>4. \A m : live(m) => m \in Runnable(cache, {F})
  BY DEF holds_current
<1>5. \A m : holds_current(lat, shipped, m) => m \in DOMAIN F
  BY DEF holds_current
<1>6. \A m \in W : ~live(m) => static_deps(g, m) \subseteq W
  BY <1>2
<1>7. \A m \in Runnable(cache, {F}) : m \in DOMAIN cache \/ m \in DOMAIN F
  <2>1. Runnable(cache, {F}) \subseteq HeldIn(cache, {F})
    BY RunnableIsLargest
  <2> QED BY <2>1 DEF HeldIn
<1> HIDE DEF live, W, step
<1>8. Walked(W, u, g, lat, targets, shipped, evaluated, cache, F)
  BY <1>2, <1>3, <1>4, <1>5, <1>6, <1>7 DEF Walked
<1> QED BY <1>2, <1>8

\* The session of a task says what the page has.
LEMMA SnapHolds ==
  ASSUME NEW c \in Clients, SnapOf(c), FactoriesOf(c), page[c].st = "live",
         Whole(c), ~HelloWasLate(c), c \in DOMAIN task.snapshot
  PROVE  /\ DOMAIN task.snapshot[c].evaluated \subseteq Runnable(page[c].cache, {page[c].factories})
         /\ DOMAIN task.snapshot[c].shipped \subseteq DOMAIN page[c].factories
         /\ Covers(page[c].factories, task.snapshot[c].shipped)
<1>1. Covers(page[c].factories, task.snapshot[c].shipped)
  BY DEF SnapOf
<1>2. \/ DOMAIN task.snapshot[c].evaluated = {}
      \/ task.snapshot[c].evaluated = page[c].boot
  BY DEF SnapOf, HelloWasLate
<1>3. DOMAIN page[c].boot \subseteq Runnable(page[c].cache, {page[c].factories})
  BY DEF FactoriesOf, Ready, Keeps
<1> QED BY <1>1, <1>2, <1>3 DEF Covers

\* The static imports that a hot update adds.
Added == added_static_deps(graph', task'.changed, DOMAIN graph' \ DOMAIN graph)

\* The patch of a client carries what it lacks of those.
LEMMA PatchIsWhole ==
  ASSUME TypeInv, Compute, NEW c \in DOMAIN task'.updates
  PROVE  /\ c \in DOMAIN task.snapshot /\ Added \in SUBSET DOMAIN graph'
         /\ collect_unheld_sync_deps(graph', latest', Added, task.snapshot[c].shipped,
                                     task.snapshot[c].evaluated)
              \subseteq DOMAIN task'.updates[c].carried
<1> DEFINE g == FetchModules(Refetched)
           new == DOMAIN g \ DOMAIN graph
           changed == Refetched \ Unchanged(Refetched, g)
           importer == rerendered_importers(g, changed)
           lat == Stamped(changed \cup new \cup importer)
           affected == collect_client_update_superset(g, changed) \cup new \cup importer
           added == added_static_deps(g, changed, new)
           need == [d \in DOMAIN task.snapshot |->
                      NeededBy(g, lat, affected, added, task.snapshot[d])]
           patched == {d \in DOMAIN need : need[d] # {} \/ changed # {}}
           updates == [d \in patched |-> [seq |-> 0, carried |-> Payload(g, lat, need[d])]]
<1>1. /\ graph' = g /\ latest' = lat
      /\ task' = [task EXCEPT !.phase = "number", !.changed = changed, !.updates = updates]
  BY DEF Compute
<1>2. task'.changed = changed /\ task'.updates = updates
  BY <1>1 DEF TypeInv, Tasks
<1>3. changed \subseteq DOMAIN g /\ IsGraph(g)
  <2>1. Refetched \subseteq DOMAIN graph /\ Refetched \subseteq Modules
    BY RefetchedScanned DEF Compute
  <2>2. IsGraph(g) /\ DOMAIN graph \subseteq DOMAIN g
    BY <2>1, FetchedGraph
  <2> QED BY <2>1, <2>2
<1>4. added \subseteq DOMAIN g
  <2> HIDE DEF g, changed
  <2>1. \A m \in changed \cup new : g[m].imports \subseteq DOMAIN g
    BY <1>3 DEF IsGraph
  <2> QED BY <2>1 DEF added_static_deps
<1>5. Added = added
  <2> HIDE DEF g, changed
  <2> QED BY <1>1, <1>2 DEF Added
<1> HIDE DEF g, new, changed, importer, lat, affected, added
<1>6. c \in patched /\ c \in DOMAIN task.snapshot
      /\ task'.updates[c].carried = Payload(g, lat, need[c])
  BY <1>2
<1>7. DOMAIN task'.updates[c].carried = NeededBy(g, lat, affected, added, task.snapshot[c])
  BY <1>6 DEF Payload
<1> QED BY <1>1, <1>4, <1>5, <1>6, <1>7 DEF NeededBy

\* A module imports what it did or what the hot update adds.
LEMMA ImportsAdded ==
  ASSUME TypeInv, Compute, NEW m \in DOMAIN graph
  PROVE  m \in DOMAIN graph' /\ graph'[m].imports \subseteq graph[m].imports \cup Added
<1>1. /\ task'.changed = Refetched \ Unchanged(Refetched, graph')
      /\ graph' = FetchModules(Refetched) /\ m \in DOMAIN graph'
  BY Computed DEF TypeInv, Tasks
<1>2. CASE m \in task'.changed
  <2> DEFINE new == DOMAIN graph' \ DOMAIN graph
             Of(x) == IF x \in new THEN graph'[x].imports ELSE graph'[x].imports \ graph[x].imports
  <2>1. Added = UNION {Of(x) : x \in task'.changed \cup new}
    BY DEF Added, added_static_deps
  <2>2. Of(m) = graph'[m].imports \ graph[m].imports
    OBVIOUS
  <2> HIDE DEF Of, new
  <2>3. Of(m) \subseteq Added
    BY <1>2, <2>1
  <2> QED BY <1>1, <2>2, <2>3
<1>3. CASE m \in Refetched \ task'.changed
  <2>1. render_module_code(graph, m) = render_module_code(graph', m)
    BY <1>1, <1>3 DEF Unchanged
  <2> QED BY <1>1, <2>1 DEF render_module_code
<1>4. CASE m \notin Refetched
  <2>1. Refetched \subseteq Modules
    BY RefetchedScanned DEF Compute
  <2>2. graph'[m] = graph[m]
    BY <1>1, <1>4, <2>1, FetchedGraph
  <2> QED BY <1>1, <2>2
<1> QED BY <1>2, <1>3, <1>4

\* A page for which a patch is computed will have what the patch makes it need.
LEMMA PatchFactories ==
  ASSUME TypeInv, TypeInv', StampInv, StampInv', CurrentInv, CurrentInv', RecordInv,
         [Next]_vars, Compute, NEW c \in Clients, c \in DOMAIN task'.updates,
         page[c].st = "live", SnapOf(c), FactoriesOf(c)
  PROVE  FactoriesOf(c)'
<1> SUFFICES ASSUME Whole(c)', ~HelloWasLate(c)'
             PROVE  /\ page'[c].st # "broken"
                    /\ Ready(page'[c].cache, Keeps(page'[c]), page'[c].factories)
                    /\ Supplied(page'[c].cache, page'[c].factories, Line(c)', page'[c].chunks)
  BY DEF FactoriesOf
<1> DEFINE cache == page[c].cache
           F == page[c].factories
           chunks == page[c].chunks
           line == Line(c)
           next == Line(c)'
           n == Len(page[c].inbox)
           u == task'.updates[c].carried
           s == task.snapshot[c]
           unheld == collect_unheld_sync_deps(graph', latest', Added, s.shipped, s.evaluated)
           old == [m \in DOMAIN graph |-> graph[m].imports]
           new == [m \in DOMAIN graph' |-> graph'[m].imports]
<1>1. page' = page /\ task.phase = "compute"
  BY DEF Compute
<1>2. DOMAIN task.updates = {}
  BY <1>1 DEF RecordInv
<1>3. Whole(c) /\ ~HelloWasLate(c)
  BY <1>1, WholeBefore, LateKept
<1>4. Ready(cache, Keeps(page[c]), F) /\ Supplied(cache, F, line, chunks)
  BY <1>3 DEF FactoriesOf
<1>5. Growing(line) /\ n \in Nat
  BY InboxType
<1>6. \A i \in Nat : \A f : f \in next[i] <=> f \in line[i] \/ (i > n /\ f = u)
  BY <1>1, <1>2, LineWithPatch
<1>7. c \in DOMAIN task.snapshot /\ Added \in SUBSET DOMAIN graph' /\ unheld \subseteq DOMAIN u
  BY PatchIsWhole
<1>8. DOMAIN s.evaluated \subseteq Runnable(cache, {F}) /\ DOMAIN s.shipped \subseteq DOMAIN F
  BY <1>3, <1>7, SnapHolds
<1>9. IsGraph(graph')
  BY DEF TypeInv, GraphType
<1>10. RowsAre(cache, F, line, chunks, n, old)
  BY <1>3, RowsAreCurrent DEF RowsCurrent, RowsAre
<1>11. RowsAre(cache, F, next, chunks, n, new)
  <2> SUFFICES ASSUME NEW i \in Nat, NEW K \in SUBSET chunks, i > n,
                      NEW m \in HeldIn(cache, Stock(F, next, i, K))
               PROVE  m \in DOMAIN graph' /\ Needs(cache, Stock(F, next, i, K), m)
                                               = graph'[m].imports
    BY DEF RowsAre
  <2>1. RowsCurrent'
    BY NextRows
  <2>2. /\ cache = page'[c].cache /\ F = page'[c].factories /\ chunks = page'[c].chunks
        /\ n = Len(page'[c].inbox) /\ page'[c].st = "live"
    BY <1>1
  <2> HIDE DEF cache, F, chunks, n
  <2> QED BY <2>1, <2>2 DEF RowsCurrent
<1>12. \A m \in DOMAIN old : new[m] \subseteq old[m] \cup Added
  BY ImportsAdded
<1>13. PICK X \in SUBSET Modules :
         Walked(X, u, graph', latest', Added, s.shipped, s.evaluated, cache, F)
  <2> DEFINE g == graph'
             lat == latest'
             targets == Added
             shipped == s.shipped
             evaluated == s.evaluated
  <2>1. Brings(u, g, lat, targets, shipped, evaluated, cache, F)
    BY <1>7, <1>8, <1>9 DEF Brings
  <2> HIDE DEF g, lat, targets, shipped, evaluated, cache, F, u
  <2>2. PICK W \in SUBSET Modules : Walked(W, u, g, lat, targets, shipped, evaluated, cache, F)
    BY <2>1, WalkIsHeld
  <2> QED BY <2>2 DEF g, lat, targets, shipped, evaluated
<1>14. /\ Added \subseteq X
       /\ \A m \in X : m \in DOMAIN cache \/ m \in DOMAIN F \/ m \in DOMAIN u
       /\ \A m \in X : m \in DOMAIN new => new[m] \subseteq X \/ m \in Runnable(cache, {F})
  <2>1. \A m \in DOMAIN new : static_deps(graph', m) = new[m]
    BY DEF static_deps
  <2> HIDE DEF new, s, u, cache, F
  <2> QED BY <1>13, <2>1 DEF Walked
<1>15. Supplied(cache, F, next, chunks)
  <2> DEFINE added == Added
  <2>1. Patched(cache, F, line, next, chunks, n, u, old, new, added, X)
    BY <1>4, <1>5, <1>6, <1>10, <1>11, <1>12, <1>14 DEF Patched
  <2> HIDE DEF cache, F, line, next, chunks, n, u, old, new, added
  <2> QED BY <2>1, SuppliedWithPatch
<1> QED BY <1>1, <1>4, <1>15

\* A copy with the latest stamp is the row of its module.
RowsNewest ==
  \A c \in Clients : GotEveryScan(c) => \A i \in Nat : \A K \in SUBSET page[c].chunks :
    \A f \in Stock(page[c].factories, Line(c), i, K) : \A m \in DOMAIN f :
      f[m].stamp >= latest[m] =>
        Needs(page[c].cache, Stock(page[c].factories, Line(c), i, K), m) = static_deps(graph, m)

LEMMA RowsAreNewest == TypeInv /\ StampInv => RowsNewest
<1> SUFFICES ASSUME TypeInv, StampInv, NEW c \in Clients, GotEveryScan(c), NEW i \in Nat,
                    NEW K \in SUBSET page[c].chunks,
                    NEW f \in Stock(page[c].factories, Line(c), i, K), NEW m \in DOMAIN f,
                    f[m].stamp >= latest[m]
             PROVE  Needs(page[c].cache, Stock(page[c].factories, Line(c), i, K), m)
                      = static_deps(graph, m)
  BY DEF RowsNewest
<1> DEFINE cache == page[c].cache
           P == Stock(page[c].factories, Line(c), i, K)
<1>1. P \subseteq SentTo(c) /\ Consistent(P)
  BY StocksAreSent DEF StocksSent
<1>2. P \subseteq AllCopies /\ AllCopies \subseteq CopyMaps /\ P \subseteq SureCopies
  BY <1>1, AllCopiesType DEF AllCopies, SureCopies
<1>3. f \in P
  OBVIOUS
<1> HIDE DEF P, cache
<1>4. \A g \in Offers(P, m) : g[m].stamp \in Nat /\ g[m].stamp <= latest[m]
  BY <1>2, CopyFields DEF Offers, StampInv
<1>5. f \in Offers(P, m) /\ m \in Modules
  BY <1>2, <1>3, CopyFields DEF Offers
<1>6. latest[m] \in Nat
  BY <1>5, LatestType
<1>7. f[m].stamp = latest[m] /\ \A g \in Offers(P, m) : g[m].stamp <= f[m].stamp
  BY <1>4, <1>5, <1>6
<1>8. m \in DOMAIN graph /\ f[m].code = render_module_code(graph, m)
  BY <1>2, <1>3, <1>7 DEF StampInv
<1>9. Needs(cache, P, m) = f[m].code.imports
  BY <1>1, <1>5, <1>7, RowOfNewest
<1> QED BY <1>8, <1>9 DEF render_module_code, static_deps, P, cache

LEMMA NextNewest == TypeInv' /\ StampInv' => RowsNewest'
BY RowsAreNewest, PTL

\* The chunk of a route carries what its client lacks.
LEMMA ChunkIsWhole ==
  ASSUME TypeInv, CompileLazyEntry, NEW c \in DOMAIN task.snapshot, page[c].st = "live"
  PROVE  \E r \in Routes, carried \in CopyMaps :
           /\ r \in DOMAIN graph'
           /\ DOMAIN carried = collect_unheld_sync_deps(graph', latest, {r},
                                 task.snapshot[c].shipped, task.snapshot[c].evaluated)
           /\ \A m \in DOMAIN carried : carried[m].stamp = latest[m]
           /\ page'[c] = [page[c] EXCEPT !.chunks = page[c].chunks \cup
                            {[file |-> next_hmr_patch_id, route |-> r, carried |-> carried]}]
<1>1. PICK d \in Clients, r \in Routes : DOMAIN task.snapshot = {d} /\ task.files = {r}
  BY DEF CompileLazyEntry, TypeInv, TaskShape
<1>2. (CHOOSE e \in DOMAIN task.snapshot : TRUE) = c /\ (CHOOSE m \in task.files : TRUE) = r
      /\ c \in Clients
  BY <1>1
<1> DEFINE G(m) == FetchModules(pending_rescans \cup ({m} \ DOMAIN graph))
           Lacks(e, m) == collect_unheld_sync_deps(G(m), latest, {m},
                            task.snapshot[e].shipped, task.snapshot[e].evaluated)
           Carried(e, m) == Payload(G(m), latest, Lacks(e, m))
           Body(e, m) ==
             /\ graph' = G(m)
             /\ page' = IF page[e].st # "live" THEN page
                        ELSE [page EXCEPT ![e].chunks = @ \cup
                                {[file |-> next_hmr_patch_id, route |-> m,
                                  carried |-> Carried(e, m)]}]
           g == G(r)
           lacks == Lacks(c, r)
           carried == Carried(c, r)
<1>3. /\ graph' = g
      /\ page' = [page EXCEPT ![c].chunks = @ \cup
                    {[file |-> next_hmr_patch_id, route |-> r, carried |-> carried]}]
  <2>1. Body(CHOOSE e \in DOMAIN task.snapshot : TRUE, CHOOSE m \in task.files : TRUE)
    BY DEF CompileLazyEntry
  <2> HIDE DEF Body
  <2>2. Body(c, r)
    BY <1>2, <2>1
  <2> QED BY <2>2 DEF Body
<1>4. pending_rescans \cup ({r} \ DOMAIN graph) \subseteq Modules
  BY ModulesAssumption DEF TypeInv, GraphType, IsGraph
<1>5. IsGraph(g) /\ DOMAIN graph \cup (pending_rescans \cup ({r} \ DOMAIN graph)) \subseteq DOMAIN g
  BY <1>4, FetchedGraph
<1> HIDE DEF G
<1>6. r \in DOMAIN g
  BY <1>5
<1>7. lacks \subseteq DOMAIN g
  BY <1>5, <1>6, UnheldScanned
<1>8. lacks = collect_unheld_sync_deps(graph', latest, {r}, task.snapshot[c].shipped,
                                       task.snapshot[c].evaluated)
  BY <1>3
<1> HIDE DEF Lacks
<1>9. /\ carried \in CopyMaps /\ DOMAIN carried = lacks
      /\ \A m \in DOMAIN carried : carried[m].stamp = latest[m]
  BY <1>5, <1>7, LatestType, PayloadOf
<1> HIDE DEF Carried
<1>10. page'[c] = [page[c] EXCEPT !.chunks = page[c].chunks \cup
                    {[file |-> next_hmr_patch_id, route |-> r, carried |-> carried]}]
  BY <1>2, <1>3 DEF TypeInv
<1>11. r \in DOMAIN graph' /\ DOMAIN carried =
         collect_unheld_sync_deps(graph', latest, {r}, task.snapshot[c].shipped,
                                  task.snapshot[c].evaluated)
  BY <1>3, <1>6, <1>8, <1>9
<1> HIDE DEF g, lacks, carried
<1> QED BY <1>9, <1>10, <1>11

\* A page that is handed a chunk will have what the chunk makes it need.
LEMMA HandedFactories ==
  ASSUME TypeInv, TypeInv', StampInv, StampInv', RecordInv, [Next]_vars, CompileLazyEntry,
         NEW c \in Clients, c \in DOMAIN task.snapshot, page[c].st = "live",
         SnapOf(c), FactoriesOf(c)
  PROVE  FactoriesOf(c)'
<1> SUFFICES ASSUME Whole(c)', ~HelloWasLate(c)'
             PROVE  /\ page'[c].st # "broken"
                    /\ Ready(page'[c].cache, Keeps(page'[c]), page'[c].factories)
                    /\ Supplied(page'[c].cache, page'[c].factories, Line(c)', page'[c].chunks)
  BY DEF FactoriesOf
<1> DEFINE cache == page[c].cache
           F == page[c].factories
           chunks == page[c].chunks
           more == page'[c].chunks
           line == Line(c)
           s == task.snapshot[c]
<1>1. task.phase = "lazy" /\ task' = Idle /\ latest' = latest
  BY DEF CompileLazyEntry, stampVars
<1>2. PICK r \in Routes, carried \in CopyMaps :
        /\ r \in DOMAIN graph'
        /\ DOMAIN carried = collect_unheld_sync_deps(graph', latest, {r}, s.shipped, s.evaluated)
        /\ \A m \in DOMAIN carried : carried[m].stamp = latest[m]
        /\ page'[c] = [page[c] EXCEPT !.chunks = page[c].chunks \cup
                         {[file |-> next_hmr_patch_id, route |-> r, carried |-> carried]}]
  BY ChunkIsWhole
<1> DEFINE k == [file |-> next_hmr_patch_id, route |-> r, carried |-> carried]
<1>3. page[c] \in Pages
  BY DEF TypeInv
<1>4. /\ page'[c].st = page[c].st /\ page'[c].cache = cache /\ page'[c].boot = page[c].boot
      /\ page'[c].factories = F /\ page'[c].inbox = page[c].inbox
      /\ page'[c].chunks = chunks \cup {k} /\ Keeps(page'[c]) = Keeps(page[c])
  BY <1>2, <1>3 DEF Pages, Keeps, Landed
<1>5. Whole(c) /\ ~HelloWasLate(c)
  BY <1>4, WholeBefore, LateKept
<1>6. Ready(cache, Keeps(page[c]), F) /\ Supplied(cache, F, line, chunks)
  BY <1>5 DEF FactoriesOf
<1>7. Growing(line)
  BY InboxType
<1>8. Line(c)' = line
  <2>1. DOMAIN task.updates = {} /\ DOMAIN task'.updates = {}
    BY <1>1, IdleType DEF RecordInv
  <2>2. \A i \in Nat : \A f : f \in Line(c)'[i] <=> f \in Line(c)[i]
    BY <1>4, <2>1, LineOf
  <2> QED BY <2>2, SameLine
<1>9. /\ DOMAIN s.evaluated \subseteq Runnable(cache, {F}) /\ DOMAIN s.shipped \subseteq DOMAIN F
      /\ Covers(F, s.shipped)
  BY <1>5, SnapHolds
<1>10. PICK W \in SUBSET Modules :
         Walked(W, carried, graph', latest, {r}, s.shipped, s.evaluated, cache, F)
  <2> DEFINE g == graph'
             lat == latest
             targets == {r}
             shipped == s.shipped
             evaluated == s.evaluated
  <2>1. IsGraph(graph')
    BY DEF TypeInv, GraphType
  <2>2. Brings(carried, g, lat, targets, shipped, evaluated, cache, F)
    BY <1>2, <1>9, <2>1 DEF Brings
  <2> HIDE DEF g, lat, targets, shipped, evaluated, cache, F
  <2>3. PICK W \in SUBSET Modules :
          Walked(W, carried, g, lat, targets, shipped, evaluated, cache, F)
    BY <2>2, WalkIsHeld
  <2> QED BY <2>3 DEF g, lat, targets, shipped, evaluated
<1>11. /\ r \in W /\ DOMAIN carried \subseteq W
       /\ \A m \in W : m \in DOMAIN cache \/ m \in DOMAIN F \/ m \in DOMAIN carried
       /\ \A m \in W : \/ /\ static_deps(graph', m) \subseteq W
                          /\ m \in DOMAIN carried \/ holds_current(latest, s.shipped, m)
                       \/ m \in Runnable(cache, {F}) /\ m \notin DOMAIN carried
  BY <1>2, <1>10 DEF Walked
<1>12. \A m : holds_current(latest, s.shipped, m) => m \in DOMAIN F /\ F[m].stamp >= latest[m]
  <2> SUFFICES ASSUME NEW m, m \in DOMAIN s.shipped, ~(latest[m] > s.shipped[m])
               PROVE  m \in DOMAIN F /\ F[m].stamp >= latest[m]
    BY DEF holds_current, is_stale
  <2>1. s \in Sessions
    BY ServerFields DEF TypeInv
  <2>2. m \in Modules /\ s.shipped[m] \in Nat
    <3>1. s.shipped \in StampMaps
      BY <2>1 DEF Sessions
    <3> QED BY <3>1, MapFields DEF StampMaps
  <2>3. latest[m] \in Nat
    BY <2>2, LatestType
  <2>4. m \in DOMAIN F /\ F[m].stamp >= s.shipped[m]
    BY <1>9 DEF Covers
  <2>5. F[m].stamp \in Nat
    BY <1>3, <2>4, CopyFields DEF Pages
  <2> QED BY <2>2, <2>3, <2>4, <2>5
<1>13. \A m \in DOMAIN carried : carried[m].stamp >= latest[m]
  <2>1. \A m \in DOMAIN carried : latest[m] \in Nat
    BY <1>2, CopyFields, LatestType
  <2>2. \A m \in DOMAIN carried : carried[m].stamp = latest[m]
    BY <1>2
  <2> QED BY <2>1, <2>2
<1>14. WalkStays(cache, F, line, more, k, W)
  <2> SUFFICES ASSUME NEW i \in Nat, NEW K \in SUBSET more, k \in K, NEW m \in W
               PROVE  \/ Needs(cache, Stock(F, line, i, K), m) \subseteq W
                      \/ m \in Runnable(cache, {F}) /\ m \notin DOMAIN k.carried
    BY DEF WalkStays
  <2> DEFINE P == Stock(F, line, i, K)
  <2>1. F \in P /\ carried \in P
    BY DEF Stock
  <2>2. \A f \in P : \A x \in DOMAIN f :
          f[x].stamp >= latest[x] => Needs(cache, P, x) = static_deps(graph', x)
    <3> DEFINE Q == Stock(page'[c].factories, Line(c)', i, K)
    <3>1. RowsNewest'
      BY NextNewest
    <3>2. \A f \in Q : \A x \in DOMAIN f :
            f[x].stamp >= latest'[x] => Needs(page'[c].cache, Q, x) = static_deps(graph', x)
      BY <3>1 DEF RowsNewest, Whole, GotEveryScan
    <3>3. Q = P /\ page'[c].cache = cache
      BY <1>4, <1>8
    <3> HIDE DEF Q, P, cache
    <3> QED BY <1>1, <3>2, <3>3
  <2> HIDE DEF P, F, cache
  <2>3. m \in DOMAIN carried \/ holds_current(latest, s.shipped, m) =>
          Needs(cache, P, m) = static_deps(graph', m)
    BY <1>12, <1>13, <2>1, <2>2
  <2> QED BY <1>11, <2>3 DEF P
<1>15. Supplied(cache, F, line, more)
  <2>1. /\ \A h : h \in more <=> h \in chunks \/ h = k
        /\ k.route = r /\ k.carried = carried
    BY <1>4
  <2> HIDE DEF cache, F, line, chunks, more, k
  <2>2. Handing(cache, F, line, chunks, k, more, W)
    BY <1>6, <1>7, <1>11, <1>14, <2>1 DEF Handing
  <2> QED BY <2>2, SuppliedWithChunk
<1> QED BY <1>4, <1>6, <1>8, <1>15

\* Every step leaves the pages with what they need.
LEMMA FactoryStep ==
  ASSUME TypeInv, TypeInv', SeqInv, StampInv, StampInv', CurrentInv, CurrentInv',
         RecordInv, SnapInv, FactoryInv, [Next]_vars, NEW c \in Clients
  PROVE  FactoriesOf(c)'
<1>0. SnapOf(c) /\ FactoriesOf(c)
  BY DEF SnapInv, FactoryInv
<1>1. CASE LoadPage(c)
  BY <1>0, <1>1, LoadedFactories
<1>2. CASE ReceivePush(c)
  BY <1>0, <1>2, PushedFactories
<1>3. CASE CompileLazyEntry /\ page[c].st = "live" /\ c \in DOMAIN task.snapshot
  BY <1>0, <1>3, HandedFactories
<1>4. CASE Compute /\ c \in DOMAIN task'.updates
  <2>1. CASE page[c].st = "live"
    BY <1>0, <1>4, <2>1, PatchFactories
  <2>2. CASE page[c].st # "live"
    <3>1. page' = page
      BY <1>4 DEF Compute
    <3> SUFFICES ASSUME Whole(c)', ~HelloWasLate(c)'
                 PROVE  page'[c].st # "broken"
      BY <2>2, <3>1 DEF FactoriesOf
    <3>2. page[c].st = "broken" => Whole(c) /\ ~HelloWasLate(c)
      BY <3>1, WholeBefore, LateKept
    <3> QED BY <1>0, <3>1, <3>2 DEF FactoriesOf
  <2> QED BY <2>1, <2>2
<1>5. CASE /\ ~LoadPage(c) /\ ~ReceivePush(c)
           /\ ~(CompileLazyEntry /\ page[c].st = "live" /\ c \in DOMAIN task.snapshot)
           /\ ~(Compute /\ c \in DOMAIN task'.updates)
  <2>1. CASE page'[c] = NoPage("closed") \/ SameHoldings(c)
    BY <1>0, <1>5, <2>1, FactoryFrame
  <2>2. ASSUME NEW r \in Routes, requestLazy(c, r),
               isRunnableHere(page[c], r) \/ r \in Landed(page[c])
        PROVE  FactoriesOf(c)'
    BY <1>0, <2>2, RouteFactories
  <2>3. ASSUME NEW k \in page[c].chunks, ReceiveChunk(c, k)
        PROVE  FactoriesOf(c)'
    BY <1>0, <2>3, ChunkFactories
  <2> QED BY <1>5, <2>1, <2>2, <2>3, HoldingsKept
<1> QED BY <1>1, <1>2, <1>3, <1>4, <1>5

\* No page is open at first.
LEMMA InitFactories == Init => PayloadInv /\ ShipInv /\ SnapInv /\ FactoryInv
<1> SUFFICES ASSUME Init, NEW c \in Clients
             PROVE  RecordedOf(c) /\ ShipOf(c) /\ SnapOf(c) /\ FactoriesOf(c)
  BY DEF PayloadInv, ShipInv, SnapInv, FactoryInv
<1>1. /\ page[c].st = "none" /\ page[c].ran = {} /\ page[c].chunks = {}
      /\ page[c].inbox = <<>>
  BY DEF Init, NoPage
<1>2. DOMAIN page[c].inbox = {}
  BY <1>1, EmptySeq
<1>3. RecordedOf(c) /\ ShipOf(c)
  BY <1>1, <1>2 DEF RecordedOf, ShipOf
<1>4. SnapOf(c) /\ FactoriesOf(c)
  BY <1>1 DEF SnapOf, FactoriesOf
<1> QED BY <1>3, <1>4

\* A module that is run in a page has all the factories its run needs: neither a lazy
\* route, nor an update, nor the modules that an update makes necessary throw
\* MissingFactoryError, whatever the order of patches, lazy chunks, delivery reports and
\* evictions.  Exempt are pages whose hello was late, that missed an update, because they
\* were loading or because another scan read the edit first, or that left a patch alone
\* (initModule, requestLazy, collect_unheld_sync_deps, added_static_deps, holds_current).
THEOREM FactoriesAreThere == Spec => []NoMissingFactory
<1> DEFINE Inv == /\ SeqInv /\ AgeInv /\ PayloadInv /\ ShipInv /\ SourceInv /\ StampInv
                  /\ RecordInv /\ CurrentInv /\ SnapInv /\ FactoryInv
<1>1. Init => Inv
  BY InitSeq, InitAge, InitStamps, InitCurrent, InitFactories
<1>2. TypeInv /\ TypeInv' /\ Inv /\ [Next]_vars => Inv'
  <2> SUFFICES ASSUME TypeInv, TypeInv', Inv, [Next]_vars
               PROVE  Inv'
    OBVIOUS
  <2>1. SeqInv' /\ AgeInv'
    BY NextSeq, AgeStep, EvaluatedAge DEF AgeInv
  <2>2. PayloadInv' /\ ShipInv'
    BY RecordedStep, ShipStep DEF PayloadInv, ShipInv
  <2>3. SourceInv' /\ StampInv'
    BY SourceStep, StampStep
  <2>4. RecordInv'
    BY RecordStep
  <2>5. CurrentInv'
    BY CurrentStep DEF CurrentInv
  <2>6. SnapInv'
    BY SnapStep DEF SnapInv
  <2>7. FactoryInv'
    BY <2>3, <2>5, FactoryStep DEF FactoryInv
  <2> QED BY <2>1, <2>2, <2>3, <2>4, <2>5, <2>6, <2>7
<1>3. Inv => NoMissingFactory
  BY DEF FactoryInv, FactoriesOf, NoMissingFactory, Whole
<1> QED BY <1>1, <1>2, <1>3, TypeInvariant, PTL DEF Spec

=============================================================================
