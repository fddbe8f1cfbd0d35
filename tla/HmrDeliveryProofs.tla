--------------------------- MODULE HmrDeliveryProofs ---------------------------
(***************************************************************************)
(* Proofs about HmrDelivery.tla: what the dev server and a page know of    *)
(* each other, whatever order patches, lazy chunks, reports, reloads and   *)
(* disconnects come in.                                                    *)
(***************************************************************************)
EXTENDS HmrDelivery, TLAPS, SequenceTheorems

-----------------------------------------------------------------------------
(* The type invariant, with the shape of every record. *)

\* Maps from some elements of D to elements of R.
Maps(D, R) == UNION {[S -> R] : S \in SUBSET D}

StampMaps == Maps(Modules, Nat)
Held == [code : Codes, stamp : Nat]
CopyMaps  == Maps(Modules, Held)
Sessions  == [shipped : StampMaps, evaluated : StampMaps, next_seq : Nat]
SessionMaps == Maps(Clients, Sessions)
Update    == [seq : Nat, carried : CopyMaps]
Updates   == Maps(Clients, Update)
Pushes    == [seq : Nat, changed : SUBSET Modules, file : Nat, carried : CopyMaps]
Chunks    == [file : Nat, route : Routes, carried : CopyMaps]
PageStates == {"none", "live", "gap", "reload", "broken", "closed"}
LazyStates == {"none", "sent", "served", "landed"}
Pages == [st : PageStates, boot : StampMaps, cache : CopyMaps, factories : CopyMaps,
          last_seq : Nat, inbox : Seq(Pushes), lazyRequests : SUBSET Modules,
          lazy : [Routes -> LazyStates], chunks : SUBSET Chunks, ran : SUBSET Nat]
Phases == {"idle", "compute", "number", "publish", "rebuild", "lazy"}
Tasks == [phase : Phases, files : SUBSET Modules, rebuild : BOOLEAN, hmr_errored : BOOLEAN,
          snapshot : SessionMaps, changed : SUBSET Modules, updates : Updates]
Payloads == [client_id : Clients, modules : StampMaps]

\* A module graph that has the sources of all its imports.
IsGraph(g) ==
  /\ DOMAIN g \subseteq Modules /\ Entry \in DOMAIN g
  /\ \A m \in DOMAIN g : g[m] \in Sources /\ g[m].imports \subseteq DOMAIN g

\* What the task that holds the bundler lock works on.
TaskShape ==
  /\ task.phase # "lazy" => task.files \subseteq DOMAIN graph
  /\ task.phase = "lazy" =>
       /\ \E r \in Routes : task.files = {r}
       /\ \E c \in Clients : DOMAIN task.snapshot = {c}
  /\ DOMAIN task.updates \subseteq DOMAIN task.snapshot

\* Modules that were sent to a page, or are recorded for one, have been scanned.
Scanned ==
  /\ \A c \in DOMAIN clients : DOMAIN clients[c].shipped \subseteq DOMAIN graph
  /\ \A c \in DOMAIN task.snapshot : DOMAIN task.snapshot[c].shipped \subseteq DOMAIN graph
  /\ \A c \in DOMAIN task.updates : DOMAIN task.updates[c].carried \subseteq DOMAIN graph
  /\ \A f \in DOMAIN pending_payloads : DOMAIN pending_payloads[f].modules \subseteq DOMAIN graph

\* Sources, graphs and stamps.
GraphType ==
  /\ disk \in [Modules -> Sources]
  /\ edits \in 0 .. MaxEdits /\ events \subseteq DOMAIN graph
  /\ IsGraph(graph)
  /\ pending_rescans \subseteq DOMAIN graph
  /\ IsGraph(output) /\ DOMAIN output \subseteq DOMAIN graph
  /\ top_level_evaluated \in [TopLevel(output) -> Nat]
  /\ stale \in BOOLEAN /\ last_task_errored \in BOOLEAN
  /\ rebuild_seq \in Nat /\ latest \in [Modules -> 0 .. rebuild_seq]

\* Sessions and pending payloads.
SessionType ==
  /\ clients \in SessionMaps
  /\ next_hmr_patch_id \in Nat
  /\ DOMAIN pending_payloads \subseteq 0 .. next_hmr_patch_id - 1
  /\ pending_payloads \in [DOMAIN pending_payloads -> Payloads]
  /\ missed \in [Clients -> SUBSET Reasons]

TypeInv ==
  /\ GraphType
  /\ SessionType
  /\ task \in Tasks /\ TaskShape
  /\ page \in [Clients -> Pages]
  /\ Scanned

-----------------------------------------------------------------------------
(* Sequence numbers. *)

\* The phases of a hot update.
Updating == {"compute", "number", "publish"}

\* The patches that are on their way to the page c.
Queued(c) == Len(page[c].inbox)

\* The task has taken a number for c and not yet published the patch.
Numbered(c) == task.phase = "publish" /\ c \in DOMAIN task.updates

\* A page that has not loaded yet is unknown to the server, and a page an update is
\* computed for is registered; the numbers in the inbox follow the one the page has
\* seen, and the server's next number follows those.
SeqOf(c) ==
  /\ page[c].st = "none" =>
       /\ page[c] = NoPage("none")
       /\ c \notin DOMAIN clients /\ c \notin DOMAIN task.snapshot
  /\ page[c].st # "gap"
  /\ page[c].st = "live" =>
       /\ task.phase \in Updating /\ c \in DOMAIN task.snapshot => c \in DOMAIN clients
       /\ c \notin DOMAIN clients => page[c].last_seq = 0 /\ page[c].inbox = <<>>
       /\ \A i \in DOMAIN page[c].inbox : page[c].inbox[i].seq = page[c].last_seq + i
       /\ c \in DOMAIN clients /\ ~Numbered(c) =>
            clients[c].next_seq = page[c].last_seq + Queued(c)
       /\ c \in DOMAIN clients /\ Numbered(c) =>
            /\ clients[c].next_seq = page[c].last_seq + Queued(c) + 1
            /\ task.updates[c].seq = clients[c].next_seq
SeqInv == \A c \in Clients : SeqOf(c)

-----------------------------------------------------------------------------
(* Ship maps. *)

\* What is on its way to a page, or ran there, has a file of its own, and the pending
\* entry of a file says what the file carries.
RecordedOf(c) ==
  /\ \A f \in page[c].ran : f < next_hmr_patch_id
  /\ \A i \in DOMAIN page[c].inbox :
       /\ page[c].inbox[i].file < next_hmr_patch_id
       /\ page[c].inbox[i].file \in DOMAIN pending_payloads =>
            pending_payloads[page[c].inbox[i].file].modules = Stamps(page[c].inbox[i].carried)
  /\ \A k \in page[c].chunks :
       /\ k.file < next_hmr_patch_id
       /\ k.file \in DOMAIN pending_payloads =>
            pending_payloads[k.file].modules = Stamps(k.carried)
PayloadInv == \A c \in Clients : RecordedOf(c)

\* The factories have copies that are at least as new as the stamps say.
Covers(factories, stamps) ==
  \A m \in DOMAIN stamps : m \in DOMAIN factories /\ factories[m].stamp >= stamps[m]

\* The page has what a payload that ran carried, and what its session says.
ShipOf(c) ==
  page[c].st = "live" =>
    /\ \A f \in page[c].ran \cap DOMAIN pending_payloads :
         Covers(page[c].factories, pending_payloads[f].modules)
    /\ c \in DOMAIN clients => Covers(page[c].factories, clients[c].shipped)
ShipInv == \A c \in Clients : ShipOf(c)

-----------------------------------------------------------------------------
(* Ages of the copies in a page. *)

\* No copy in the map f is older than what the page booted with.
NotBefore(boot, f) == \A m \in DOMAIN boot \cap DOMAIN f : f[m].stamp >= boot[m]

\* What a page runs came with its entry chunk or is at most as new as its factory.
AgeOf(c) ==
  page[c].st = "live" =>
    /\ \A m \in DOMAIN page[c].boot : page[c].boot[m] <= latest[m]
    /\ \A f \in Copies(c) : NotBefore(page[c].boot, f)
    /\ c \in DOMAIN task.updates => NotBefore(page[c].boot, task.updates[c].carried)
    /\ \A m \in DOMAIN page[c].cache :
         \/ m \in DOMAIN page[c].boot /\ page[c].cache[m].stamp = page[c].boot[m]
         \/ /\ m \in DOMAIN page[c].factories
            /\ page[c].cache[m].stamp <= page[c].factories[m].stamp
AgeInv ==
  /\ \A m \in DOMAIN top_level_evaluated : top_level_evaluated[m] <= latest[m]
  /\ \A c \in Clients : AgeOf(c)

-----------------------------------------------------------------------------
(* Stamps. *)

\* What the server has sent to a page or is about to send; all of it, and what is for
\* pages that were not open when a scan without an update read an edit.
SentTo(c) == Copies(c) \cup {task.updates[d].carried : d \in DOMAIN task.updates \cap {c}}
AllCopies == UNION {SentTo(c) : c \in Clients}
SureCopies == UNION {SentTo(c) : c \in {d \in Clients : GotEveryScan(d)}}

\* Copies are not ahead of the graph; a sure copy whose stamp is the latest is the module
\* as it is in the graph.
StampInv ==
  /\ \A f \in AllCopies : \A m \in DOMAIN f : m \in DOMAIN graph /\ f[m].stamp <= latest[m]
  /\ \A f \in SureCopies : \A m \in DOMAIN f :
       f[m].stamp = latest[m] => f[m].code = render_module_code(graph, m)
  /\ \A f, g \in SureCopies : \A m \in DOMAIN f \cap DOMAIN g :
       f[m].stamp = g[m].stamp => f[m].code = g[m].code

\* The text names the source.
SourceInv ==
  /\ \A m \in Modules : disk[m].text <= edits
  /\ \A m \in DOMAIN graph : graph[m].text <= disk[m].text
                             /\ (graph[m].text = disk[m].text => graph[m] = disk[m])

-----------------------------------------------------------------------------
(* Maps and closures. *)

\* What membership says of a map.
LEMMA MapFields ==
  ASSUME NEW D, NEW R, NEW f \in Maps(D, R)
  PROVE  /\ DOMAIN f \subseteq D /\ f \in [DOMAIN f -> R]
         /\ \A x \in DOMAIN f : f[x] \in R
BY DEF Maps

\* Functions on a part of D are maps.
LEMMA FunctionIsMap ==
  ASSUME NEW D, NEW R, NEW S \in SUBSET D, NEW f \in [S -> R]
  PROVE  f \in Maps(D, R)
BY DEF Maps

\* So is the empty one.
LEMMA EmptyMap ==
  ASSUME NEW D, NEW R
  PROVE  <<>> \in Maps(D, R) /\ DOMAIN <<>> = {}
<1>1. DOMAIN <<>> = {}
  BY EmptySeq
<1>2. <<>> \in [{} -> R]
  BY EmptySeq
<1> QED BY <1>1, <1>2, FunctionIsMap

\* A map keeps its values on a part of its domain.
LEMMA RestrictedMap ==
  ASSUME NEW D, NEW R, NEW f \in Maps(D, R), NEW S \in SUBSET DOMAIN f
  PROVE  /\ Restrict(f, S) \in Maps(D, R) /\ DOMAIN Restrict(f, S) = S
         /\ \A x \in S : Restrict(f, S)[x] = f[x]
<1>1. Restrict(f, S) \in [S -> R]
  BY MapFields DEF Restrict
<1>2. S \subseteq D
  BY MapFields
<1> QED BY <1>1, <1>2, FunctionIsMap DEF Restrict

\* Closure(start, step) is the least set with start that step does not leave.
LEMMA ClosureIsLeast ==
  ASSUME NEW start \in SUBSET Modules, NEW step \in [Modules -> SUBSET Modules]
  PROVE  /\ start \subseteq Closure(start, step) /\ Closure(start, step) \subseteq Modules
         /\ \A x \in Closure(start, step) : step[x] \subseteq Closure(start, step)
         /\ \A X \in SUBSET Modules :
              start \subseteq X /\ (\A x \in X : step[x] \subseteq X) =>
                Closure(start, step) \subseteq X
<1>1. Closure(start, step) \subseteq Modules /\ start \subseteq Closure(start, step)
  BY DEF Closure
<1>2. ASSUME NEW x \in Closure(start, step), NEW y \in step[x]
      PROVE  y \in Closure(start, step)
  <2>1. x \in Modules /\ y \in Modules
    BY <1>1, <1>2
  <2>2. ASSUME NEW X \in SUBSET Modules, start \subseteq X, \A z \in X : step[z] \subseteq X
        PROVE  y \in X
    BY <1>2, <2>2 DEF Closure
  <2> QED BY <2>1, <2>2 DEF Closure
<1>3. ASSUME NEW X \in SUBSET Modules, start \subseteq X, \A x \in X : step[x] \subseteq X
      PROVE  Closure(start, step) \subseteq X
  BY <1>3 DEF Closure
<1> QED BY <1>1, <1>2, <1>3

-----------------------------------------------------------------------------
(* Scans and payloads. *)

\* A partial scan leaves a graph with all its imports: what it was to read and what
\* is new comes from the disk, all else stays.
LEMMA FetchedGraph ==
  ASSUME TypeInv, NEW ms \in SUBSET Modules
  PROVE  LET g == FetchModules(ms) IN
         /\ IsGraph(g) /\ DOMAIN graph \cup ms \subseteq DOMAIN g
         /\ \A m \in DOMAIN g :
              g[m] = IF m \in DOMAIN graph \ ms THEN graph[m] ELSE disk[m]
<1> DEFINE unread(m) == m \in ms \/ m \notin DOMAIN graph
           step == [m \in Modules |-> {d \in disk[m].imports : unread(d)}]
           read == Closure(ms, step)
           scanned == ms \cup {m \in read : unread(m)}
           g == FetchModules(ms)
<1>1. \A m \in Modules : disk[m] \in Sources /\ disk[m].imports \subseteq Modules
  BY DEF TypeInv, GraphType, Sources
<1>2. step \in [Modules -> SUBSET Modules]
  BY <1>1
<1>3. ms \subseteq read /\ read \subseteq Modules /\ \A x \in read : step[x] \subseteq read
  <2> HIDE DEF step
  <2> QED BY <1>2, ClosureIsLeast
<1>4. g = [m \in DOMAIN graph \cup scanned |-> IF m \in scanned THEN disk[m] ELSE graph[m]]
  BY DEF FetchModules
<1> HIDE DEF g, read
<1>5. scanned \subseteq Modules /\ \A m \in scanned : m \in read /\ unread(m)
  BY <1>3
<1>6. \A m \in DOMAIN graph : m \in scanned <=> m \in ms
  BY <1>3
<1>7. DOMAIN g = DOMAIN graph \cup scanned
      /\ \A m \in DOMAIN g : g[m] = IF m \in scanned THEN disk[m] ELSE graph[m]
  BY <1>4
<1>8. ASSUME NEW m \in DOMAIN g
      PROVE  g[m] \in Sources /\ g[m].imports \subseteq DOMAIN g
  <2>1. CASE m \in scanned
    <3>1. g[m] = disk[m] /\ m \in Modules
      BY <1>5, <1>7, <2>1
    <3>2. ASSUME NEW d \in disk[m].imports PROVE d \in DOMAIN g
      <4>1. CASE unread(d)
        <5>1. d \in step[m]
          BY <3>1, <3>2, <4>1
        <5> QED BY <1>3, <1>5, <1>7, <2>1, <4>1, <5>1
      <4> QED BY <1>7, <4>1
    <3> QED BY <1>1, <3>1, <3>2
  <2>2. CASE m \notin scanned
    BY <1>7, <2>2 DEF TypeInv, GraphType, IsGraph
  <2> QED BY <2>1, <2>2
<1>9. IsGraph(g)
  BY <1>5, <1>7, <1>8 DEF IsGraph, TypeInv, GraphType
<1> QED BY <1>6, <1>7, <1>9 DEF g

\* A rendered module is a factory.
LEMMA RenderedCode ==
  ASSUME NEW g, IsGraph(g), NEW m \in DOMAIN g
  PROVE  render_module_code(g, m) \in Codes
<1>1. g[m] \in Sources
  BY DEF IsGraph
<1>2. {d \in g[m].imports : importee_interop(g, d)} \subseteq Modules
  BY <1>1 DEF Sources
<1> QED BY <1>1, <1>2 DEF Sources, Codes, render_module_code

\* A payload has the modules it is made for, with the latest stamps.
LEMMA PayloadOf ==
  ASSUME NEW g, IsGraph(g), NEW lat \in [Modules -> Nat], NEW ms \in SUBSET DOMAIN g
  PROVE  /\ Payload(g, lat, ms) \in CopyMaps /\ DOMAIN Payload(g, lat, ms) = ms
         /\ \A m \in ms : /\ Payload(g, lat, ms)[m].stamp = lat[m]
                          /\ Payload(g, lat, ms)[m].code = render_module_code(g, m)
<1>1. ms \subseteq Modules
  BY DEF IsGraph
<1>2. Payload(g, lat, ms) \in [ms -> Held]
  BY <1>1, RenderedCode DEF Payload, Held
<1> QED BY <1>1, <1>2, FunctionIsMap DEF Payload, CopyMaps

\* The pending entry keeps the modules and their stamps.
LEMMA StampsOf ==
  ASSUME NEW carried \in CopyMaps
  PROVE  /\ Stamps(carried) \in StampMaps /\ DOMAIN Stamps(carried) = DOMAIN carried
         /\ \A m \in DOMAIN carried : Stamps(carried)[m] = carried[m].stamp
<1>1. DOMAIN carried \subseteq Modules /\ \A m \in DOMAIN carried : carried[m] \in Held
  BY MapFields DEF CopyMaps
<1>2. Stamps(carried) \in [DOMAIN carried -> Nat]
  BY <1>1 DEF Stamps, Held
<1> QED BY <1>1, <1>2, FunctionIsMap DEF Stamps, StampMaps

\* The modules of the entry chunk are in the graph.
LEMMA TopLevelScanned ==
  ASSUME NEW g, IsGraph(g)
  PROVE  TopLevel(g) \subseteq DOMAIN g
<1> DEFINE step == [m \in Modules |-> static_deps(g, m)]
<1>1. \A m \in DOMAIN g : g[m].imports \subseteq DOMAIN g /\ DOMAIN g \subseteq Modules
  BY DEF IsGraph
<1>2. step \in [Modules -> SUBSET Modules]
      /\ \A m \in DOMAIN g : step[m] \subseteq DOMAIN g
  BY <1>1 DEF static_deps
<1>3. {Entry} \subseteq DOMAIN g /\ DOMAIN g \subseteq Modules
  BY DEF IsGraph
<1> HIDE DEF step
<1>4. Closure({Entry}, step) \subseteq DOMAIN g
  BY <1>2, <1>3, ClosureIsLeast
<1> QED BY <1>4 DEF TopLevel, step

\* A walk along imports stays in the graph.
LEMMA UnheldScanned ==
  ASSUME NEW g, IsGraph(g), NEW lat, NEW targets \in SUBSET DOMAIN g, NEW shipped,
         NEW evaluated
  PROVE  collect_unheld_sync_deps(g, lat, targets, shipped, evaluated) \subseteq DOMAIN g
<1> DEFINE step == [m \in Modules |->
             IF holds_current(lat, evaluated, m) THEN {} ELSE static_deps(g, m)]
<1>1. \A m \in DOMAIN g : g[m].imports \subseteq DOMAIN g /\ DOMAIN g \subseteq Modules
  BY DEF IsGraph
<1>2. step \in [Modules -> SUBSET Modules]
      /\ \A m \in DOMAIN g : step[m] \subseteq DOMAIN g
  BY <1>1 DEF static_deps
<1>3. targets \subseteq Modules /\ DOMAIN g \subseteq Modules
  BY DEF IsGraph
<1>4. collect_unheld_sync_deps(g, lat, targets, shipped, evaluated)
        \subseteq Closure(targets, step)
  BY DEF collect_unheld_sync_deps
<1> HIDE DEF step
<1>5. Closure(targets, step) \subseteq DOMAIN g
  BY <1>2, <1>3, ClosureIsLeast
<1> QED BY <1>4, <1>5

\* A walk along importers stays in the graph.
LEMMA SupersetScanned ==
  ASSUME NEW g, IsGraph(g), NEW changed \in SUBSET DOMAIN g
  PROVE  collect_client_update_superset(g, changed) \subseteq DOMAIN g
<1> DEFINE step == [m \in Modules |->
             IF m \in Accepting THEN {}
             ELSE {p \in importers(g, m) : <<p, m>> \notin AcceptedDeps}]
<1>1. DOMAIN g \subseteq Modules /\ Entry \in DOMAIN g
  BY DEF IsGraph
<1>2. \A m : importers(g, m) \subseteq DOMAIN g
  BY <1>1 DEF importers
<1>3. step \in [Modules -> SUBSET Modules]
      /\ \A m \in DOMAIN g : step[m] \subseteq DOMAIN g
  BY <1>1, <1>2
<1>4. changed \subseteq Modules
  BY <1>1
<1> HIDE DEF step
<1>5. Closure(changed, step) \subseteq DOMAIN g
  BY <1>1, <1>3, <1>4, ClosureIsLeast
<1> QED BY <1>5 DEF collect_client_update_superset, step

-----------------------------------------------------------------------------
(* What the runtime does with its page. *)

\* A page that is not there has nothing.
LEMMA NoPageType ==
  ASSUME NEW st \in PageStates
  PROVE  NoPage(st) \in Pages /\ NoPage(st).st = st
<1>1. <<>> \in StampMaps /\ <<>> \in CopyMaps /\ <<>> \in Seq(Pushes)
  BY EmptyMap, EmptySeq DEF StampMaps, CopyMaps
<1> QED BY <1>1 DEF NoPage, Pages, LazyStates

\* What is known of a map of copies.
LEMMA CopyFields ==
  ASSUME NEW f \in CopyMaps
  PROVE  /\ DOMAIN f \subseteq Modules /\ f \in [DOMAIN f -> Held]
         /\ \A m \in DOMAIN f : f[m] \in Held /\ f[m].stamp \in Nat
<1>1. /\ DOMAIN f \subseteq Modules /\ f \in [DOMAIN f -> Held]
      /\ \A m \in DOMAIN f : f[m] \in Held
  BY MapFields DEF CopyMaps
<1>2. \A h \in Held : h.stamp \in Nat
  BY DEF Held
<1> QED BY <1>1, <1>2

\* The newest copy of a module stays.
LEMMA RegisteredCopies ==
  ASSUME NEW factories \in CopyMaps, NEW carried \in CopyMaps
  PROVE  LET F == registerFactory(factories, carried) IN
         /\ F \in CopyMaps /\ DOMAIN F = DOMAIN factories \cup DOMAIN carried
         /\ \A m \in DOMAIN F :
              \/ m \in DOMAIN factories /\ F[m] = factories[m]
              \/ m \in DOMAIN carried /\ F[m] = carried[m]
         /\ \A m \in DOMAIN factories : F[m].stamp >= factories[m].stamp
         /\ \A m \in DOMAIN carried : F[m].stamp >= carried[m].stamp
<1> DEFINE F == registerFactory(factories, carried)
<1>1. /\ DOMAIN factories \subseteq Modules /\ DOMAIN carried \subseteq Modules
      /\ \A m \in DOMAIN factories : factories[m] \in Held /\ factories[m].stamp \in Nat
      /\ \A m \in DOMAIN carried : carried[m] \in Held /\ carried[m].stamp \in Nat
  BY CopyFields
<1>2. /\ DOMAIN F = DOMAIN factories \cup DOMAIN carried
      /\ \A m \in DOMAIN F :
           F[m] = IF m \notin DOMAIN carried THEN factories[m]
                  ELSE IF m \in DOMAIN factories /\ carried[m].stamp < factories[m].stamp
                       THEN factories[m] ELSE carried[m]
  BY DEF registerFactory
<1>3. F \in [DOMAIN factories \cup DOMAIN carried -> Held]
  <2>1. \A m \in DOMAIN F : F[m] \in Held
    <3> HIDE DEF F
    <3> QED BY <1>1, <1>2
  <2>2. F = [m \in DOMAIN factories \cup DOMAIN carried |-> F[m]]
    BY DEF registerFactory
  <2> HIDE DEF F
  <2> QED BY <1>2, <2>1, <2>2
<1>4. F \in CopyMaps
  BY <1>1, <1>3, FunctionIsMap DEF CopyMaps
<1> HIDE DEF F
<1>5. \A m \in DOMAIN factories : F[m].stamp >= factories[m].stamp
  BY <1>1, <1>2
<1>6. \A m \in DOMAIN carried : F[m].stamp >= carried[m].stamp
  BY <1>1, <1>2
<1> QED BY <1>2, <1>4, <1>5, <1>6 DEF F

\* The page q is p except that it may have run modules, or failed to.
Ran(p, q) ==
  /\ q \in Pages /\ q.st \in {p.st, "broken"}
  /\ q.boot = p.boot /\ q.factories = p.factories /\ q.last_seq = p.last_seq
  /\ q.inbox = p.inbox /\ q.chunks = p.chunks /\ q.ran = p.ran
  /\ \A m \in DOMAIN q.cache :
       \/ m \in DOMAIN p.cache /\ q.cache[m] = p.cache[m]
       \/ m \in DOMAIN p.factories /\ q.cache[m] = p.factories[m]

\* initModule runs modules from their factories.
LEMMA InitModuleRuns ==
  ASSUME NEW p \in Pages, NEW ms
  PROVE  Ran(p, initModule(p, ms))
<1> DEFINE run == Runs(p.cache, p.factories, ms)
           cache == [m \in DOMAIN p.cache \cup run |->
                       IF m \in run THEN p.factories[m] ELSE p.cache[m]]
<1>1. /\ DOMAIN p.cache \subseteq Modules
      /\ \A m \in DOMAIN p.cache : p.cache[m] \in Held
      /\ \A m \in DOMAIN p.factories : p.factories[m] \in Held
  BY MapFields DEF Pages, CopyMaps
<1>2. run \subseteq Modules
  BY DEF Runs, Closure
<1>3. CASE run \subseteq DOMAIN p.factories
  <2>1. initModule(p, ms) = [p EXCEPT !.cache = cache]
    BY <1>3 DEF initModule
  <2>2. cache \in CopyMaps
    <3>1. cache \in [DOMAIN p.cache \cup run -> Held]
      BY <1>1, <1>3
    <3> HIDE DEF cache
    <3> QED BY <1>1, <1>2, <3>1, FunctionIsMap DEF CopyMaps
  <2>3. \A m \in DOMAIN cache :
          \/ m \in DOMAIN p.cache /\ cache[m] = p.cache[m]
          \/ m \in DOMAIN p.factories /\ cache[m] = p.factories[m]
    BY <1>3
  <2> HIDE DEF cache
  <2> QED BY <2>1, <2>2, <2>3 DEF Ran, Pages
<1>4. CASE ~(run \subseteq DOMAIN p.factories)
  <2>1. initModule(p, ms) = [p EXCEPT !.st = "broken"]
    BY <1>4 DEF initModule
  <2> QED BY <2>1 DEF Ran, Pages, PageStates
<1> QED BY <1>3, <1>4

\* A page that ran or registered something: the page q came from p by the payload of
\* the file f.
Took(p, q, f, carried) ==
  /\ q \in Pages /\ q.st \in {p.st, "broken"}
  /\ q.boot = p.boot /\ q.last_seq = p.last_seq
  /\ q.factories = registerFactory(p.factories, carried)
  /\ q.inbox = p.inbox /\ q.chunks \subseteq p.chunks /\ q.ran = p.ran \cup {f}
  /\ \A m \in DOMAIN q.cache :
       \/ m \in DOMAIN p.cache /\ q.cache[m] = p.cache[m]
       \/ m \in DOMAIN q.factories /\ q.cache[m] = q.factories[m]

\* What the page q runs of these modules comes from its factories.
RunsFactories(q, ms) ==
  \A m \in DOMAIN q.cache \cap ms : m \in DOMAIN q.factories /\ q.cache[m] = q.factories[m]

\* A patch is taken and the changed modules run anew, or the page asks for a reload.
LEMMA AppliedUpdate ==
  ASSUME NEW p \in Pages, NEW push \in Pushes
  PROVE  \/ ApplyUpdate(p, push) = NoPage("reload")
         \/ /\ Took(p, ApplyUpdate(p, push), push.file, push.carried)
            /\ RunsFactories(ApplyUpdate(p, push), push.changed)
<1> DEFINE q == [p EXCEPT !.factories = registerFactory(@, push.carried),
                          !.ran = @ \cup {push.file}]
           update == UpdateSet(q, push.changed)
           kept == DOMAIN q.cache \ update
           s == [q EXCEPT !.cache = Restrict(@, DOMAIN @ \ update),
                          !.lazyRequests = @ \ update]
<1>1. q \in Pages /\ q.st = p.st /\ q.boot = p.boot /\ q.last_seq = p.last_seq
      /\ q.factories = registerFactory(p.factories, push.carried)
      /\ q.inbox = p.inbox /\ q.chunks = p.chunks /\ q.ran = p.ran \cup {push.file}
      /\ q.cache = p.cache
  BY RegisteredCopies DEF Pages, Pushes
<1> HIDE DEF q, update
<1>2. /\ Restrict(q.cache, kept) \in CopyMaps /\ DOMAIN Restrict(q.cache, kept) = kept
      /\ \A m \in kept : Restrict(q.cache, kept)[m] = q.cache[m]
  BY <1>1, RestrictedMap DEF Pages, CopyMaps
<1>3. s = [q EXCEPT !.cache = Restrict(q.cache, kept),
                    !.lazyRequests = q.lazyRequests \ update]
  BY <1>1 DEF Pages
<1>4. /\ s \in Pages /\ s.st = p.st /\ s.boot = p.boot /\ s.last_seq = p.last_seq
      /\ s.factories = q.factories /\ s.inbox = p.inbox /\ s.chunks = p.chunks
      /\ s.ran = p.ran \cup {push.file}
      /\ \A m \in DOMAIN s.cache : m \in DOMAIN p.cache /\ s.cache[m] = p.cache[m]
      /\ DOMAIN s.cache = kept
  BY <1>1, <1>2, <1>3 DEF Pages
<1> HIDE DEF s
<1>5. \/ ApplyUpdate(p, push) = NoPage("reload")
      \/ ApplyUpdate(p, push) = initModule(s, Boundaries(q, update))
  BY DEF ApplyUpdate, q, update, s
<1>6. Ran(s, initModule(s, Boundaries(q, update)))
  BY <1>4, InitModuleRuns
<1>7. Took(p, initModule(s, Boundaries(q, update)), push.file, push.carried)
  BY <1>1, <1>4, <1>6 DEF Took, Ran
<1>8. push.changed \cap DOMAIN q.cache \subseteq update
  <2> DEFINE step == [m \in Modules |-> IF m \in Accepting THEN {}
                        ELSE {i \in getImporters(q, m) : <<i, m>> \notin AcceptedDeps}]
  <2>1. DOMAIN q.cache \subseteq Modules
    BY <1>1, CopyFields DEF Pages
  <2>2. \A m \in Modules : getImporters(q, m) \subseteq Modules
    BY <2>1 DEF getImporters
  <2>3. step \in [Modules -> SUBSET Modules]
    BY <2>2
  <2>4. push.changed \cap DOMAIN q.cache \in SUBSET Modules
    BY <2>1
  <2>5. update = Closure(push.changed \cap DOMAIN q.cache, step)
    BY DEF update, UpdateSet
  <2> HIDE DEF step
  <2> QED BY <2>3, <2>4, <2>5, ClosureIsLeast
<1>9. RunsFactories(initModule(s, Boundaries(q, update)), push.changed)
  BY <1>1, <1>4, <1>6, <1>8 DEF RunsFactories, Ran
<1> QED BY <1>5, <1>7, <1>9

\* So is a lazy chunk.
LEMMA ReceivedChunk ==
  ASSUME TypeInv, NEW c \in Clients, NEW k, ReceiveChunk(c, k)
  PROVE  /\ page[c].st = "live" /\ k \in page[c].chunks
         /\ Took(page[c], page'[c], k.file, k.carried)
         /\ \A d \in Clients \ {c} : page'[d] = page[d]
<1> DEFINE p == page[c]
           s == [p EXCEPT !.factories = registerFactory(@, k.carried),
                          !.ran = @ \cup {k.file}, !.lazyRequests = @ \ {k.route},
                          !.lazy[k.route] = "landed", !.chunks = @ \ {k}]
<1>1. page \in [Clients -> Pages] /\ p \in Pages /\ k \in p.chunks /\ k \in Chunks
  BY DEF TypeInv, ReceiveChunk, Pages
<1>2. /\ s \in Pages /\ s.st = p.st /\ s.boot = p.boot /\ s.last_seq = p.last_seq
      /\ s.factories = registerFactory(p.factories, k.carried)
      /\ s.inbox = p.inbox /\ s.chunks = p.chunks \ {k} /\ s.ran = p.ran \cup {k.file}
      /\ s.cache = p.cache
  BY <1>1, RegisteredCopies DEF Pages, Chunks, LazyStates
<1>3. page' = [page EXCEPT ![c] = initModule(s, {k.route})]
  BY DEF ReceiveChunk
<1> HIDE DEF s
<1>4. Ran(s, initModule(s, {k.route}))
  BY <1>2, InitModuleRuns
<1>5. page'[c] = initModule(s, {k.route}) /\ \A d \in Clients \ {c} : page'[d] = page[d]
  BY <1>1, <1>3
<1>6. Took(p, page'[c], k.file, k.carried)
  BY <1>2, <1>4, <1>5 DEF Took, Ran
<1> QED BY <1>1, <1>5, <1>6 DEF ReceiveChunk

\* A push is skipped, taken, or makes the page ask for a reload.
LEMMA ReceivedPush ==
  ASSUME TypeInv, NEW c \in Clients, ReceivePush(c)
  PROVE  LET push == Head(page[c].inbox)
             p == [page[c] EXCEPT !.inbox = Tail(@), !.last_seq = push.seq]
         IN /\ page[c].st = "live" /\ page[c].inbox # <<>>
            /\ push \in Pushes /\ p \in Pages
            /\ page' = [page EXCEPT ![c] = page'[c]]
            /\ \/ /\ push.seq # page[c].last_seq + 1
                  /\ page'[c] = NoPage("gap")
               \/ /\ push.seq = page[c].last_seq + 1
                  /\ \/ SkipPush(c) /\ page'[c] = p
                     \/ Took(p, page'[c], push.file, push.carried)
               \/ page'[c] = NoPage("reload")
<1> DEFINE push == Head(page[c].inbox)
           p == [page[c] EXCEPT !.inbox = Tail(@), !.last_seq = push.seq]
<1>1. /\ page \in [Clients -> Pages] /\ page[c] \in Pages /\ page[c].inbox \in Seq(Pushes)
      /\ page[c].inbox # <<>> /\ page[c].st = "live"
  BY DEF TypeInv, Pages, ReceivePush, RunPush, SkipPush
<1>2. push \in Pushes /\ Tail(page[c].inbox) \in Seq(Pushes)
  BY <1>1, HeadTailProperties
<1>3. p \in Pages
  BY <1>1, <1>2 DEF Pages, Pushes
<1>4. PICK q : page' = [page EXCEPT ![c] = q]
               /\ \/ q = IF push.seq # page[c].last_seq + 1 THEN NoPage("gap")
                         ELSE ApplyUpdate(p, push)
                  \/ q = NoPage("reload")
                  \/ push.seq = page[c].last_seq + 1 /\ SkipPush(c) /\ q = p
  <2>1. CASE RunPush(c)
    BY <2>1 DEF RunPush
  <2>2. CASE SkipPush(c)
    <3>1. /\ page' = [page EXCEPT ![c].inbox = Tail(@), ![c].last_seq = push.seq]
          /\ push.seq = page[c].last_seq + 1
      BY <2>2 DEF SkipPush
    <3>2. page' = [page EXCEPT ![c] = p]
      BY <1>1, <3>1
    <3> QED BY <2>2, <3>1, <3>2
  <2> QED BY <2>1, <2>2 DEF ReceivePush
<1>5. page'[c] = q
  BY <1>1, <1>4
<1> HIDE DEF p, push
<1>6. ApplyUpdate(p, push) = NoPage("reload")
        \/ Took(p, ApplyUpdate(p, push), push.file, push.carried)
  BY <1>2, <1>3, AppliedUpdate
<1> QED BY <1>1, <1>2, <1>3, <1>4, <1>5, <1>6 DEF p, push

\* A request for a route runs it, or is sent.
LEMMA RequestedLazy ==
  ASSUME TypeInv, NEW c \in Clients, NEW r \in Routes, requestLazy(c, r)
  PROVE  /\ page[c].st = "live" /\ Ran(page[c], page'[c])
         /\ \A d \in Clients \ {c} : page'[d] = page[d]
         /\ page' = [page EXCEPT ![c] = page'[c]]
<1>1. page \in [Clients -> Pages] /\ page[c] \in Pages
  BY DEF TypeInv
<1>2. PICK q : /\ page' = [page EXCEPT ![c] = q]
               /\ \/ q = initModule(page[c], {r})
                  \/ q = [page[c] EXCEPT !.lazyRequests = @ \cup {r},
                                          !.lazy[r] = IF @ = "none" THEN "sent" ELSE @]
  BY DEF requestLazy
<1>3. page'[c] = q /\ \A d \in Clients \ {c} : page'[d] = page[d]
  BY <1>1, <1>2
<1>4. Ran(page[c], [page[c] EXCEPT !.lazyRequests = @ \cup {r},
                                   !.lazy[r] = IF @ = "none" THEN "sent" ELSE @])
  BY <1>1, ModulesAssumption DEF Ran, Pages, LazyStates
<1> QED BY <1>1, <1>2, <1>3, <1>4, InitModuleRuns DEF requestLazy

-----------------------------------------------------------------------------
(* What the server's steps do, in the terms of the type invariant. *)

\* A new pending payload is added, and at most older ones go.
LEMMA InsertedPayload ==
  ASSUME NEW P, NEW pp \in [P -> Payloads], NEW f, NEW c \in Clients,
         NEW modules \in StampMaps
  PROVE  LET q == insert_pending_payload(pp, f, c, modules) IN
         /\ DOMAIN q \subseteq P \cup {f} /\ q \in [DOMAIN q -> Payloads]
         /\ \A g \in DOMAIN q : q[g] = IF g = f THEN [client_id |-> c, modules |-> modules]
                                       ELSE pp[g]
<1> DEFINE entry == [client_id |-> c, modules |-> modules]
           added == [g \in DOMAIN pp \cup {f} |-> IF g = f THEN entry ELSE pp[g]]
           q == insert_pending_payload(pp, f, c, modules)
<1>1. PICK S \in SUBSET DOMAIN added : q = Restrict(added, S)
  BY DEF insert_pending_payload
<1>2. entry \in Payloads
  BY DEF Payloads
<1>3. added \in [P \cup {f} -> Payloads]
  <2> HIDE DEF entry
  <2> QED BY <1>2
<1>4. \A g \in P \cup {f} : added[g] = IF g = f THEN entry ELSE pp[g]
  OBVIOUS
<1>5. q = [g \in S |-> added[g]]
  BY <1>1 DEF Restrict
<1> HIDE DEF q, added
<1>6. S \subseteq P \cup {f} /\ DOMAIN q = S /\ q \in [S -> Payloads]
      /\ \A g \in S : q[g] = added[g]
  BY <1>3, <1>5
<1>7. \A g \in DOMAIN q : q[g] = IF g = f THEN entry ELSE pp[g]
  BY <1>4, <1>6
<1> QED BY <1>6, <1>7 DEF q

\* What the modules to fetch are.
LEMMA RefetchedScanned ==
  ASSUME TypeInv, task.phase # "lazy"
  PROVE  Refetched \subseteq DOMAIN graph /\ Refetched \subseteq Modules
BY DEF TypeInv, GraphType, TaskShape, Refetched, IsGraph

\* The update carries its modules as they are in the graph, with their latest stamps.
Rendered(carried, g, lat) ==
  \E need \in SUBSET DOMAIN g : carried = Payload(g, lat, need)

\* What a client's patch carries is in the graph.
LEMMA NeededScanned ==
  ASSUME NEW g, IsGraph(g), NEW lat, NEW affected \in SUBSET DOMAIN g,
         NEW added \in SUBSET DOMAIN g, NEW client, DOMAIN client.shipped \subseteq DOMAIN g
  PROVE  NeededBy(g, lat, affected, added, client) \subseteq DOMAIN g
BY UnheldScanned DEF NeededBy

\* compute_hmr_update_for_file_changes scans, stamps and renders.
LEMMA Computed ==
  ASSUME TypeInv, Compute
  PROVE  /\ task.phase = "compute"
         /\ graph' = FetchModules(Refetched) /\ IsGraph(graph')
         /\ DOMAIN graph \subseteq DOMAIN graph'
         /\ rebuild_seq' = rebuild_seq + 1
         /\ \E changed \in SUBSET Modules :
              /\ changed = Refetched \ Unchanged(Refetched, graph')
              /\ latest' = Stamped(changed \cup (DOMAIN graph' \ DOMAIN graph)
                                     \cup rerendered_importers(graph', changed))
              /\ \E updates \in Updates :
                   /\ task' = [task EXCEPT !.phase = "number", !.changed = changed,
                                           !.updates = updates]
                   /\ DOMAIN updates \subseteq DOMAIN task.snapshot
                   /\ \A c \in DOMAIN updates : Rendered(updates[c].carried, graph', latest')
         /\ latest' \in [Modules -> 0 .. rebuild_seq']
         /\ \A m \in Modules : latest'[m] >= latest[m]
<1> DEFINE g == FetchModules(Refetched)
           new == DOMAIN g \ DOMAIN graph
           changed == Refetched \ Unchanged(Refetched, g)
           importer == rerendered_importers(g, changed)
           lat == Stamped(changed \cup new \cup importer)
           affected == collect_client_update_superset(g, changed) \cup new \cup importer
           added == added_static_deps(g, changed, new)
           need == [c \in DOMAIN task.snapshot |->
                      NeededBy(g, lat, affected, added, task.snapshot[c])]
           patched == {c \in DOMAIN need : need[c] # {} \/ changed # {}}
           updates == [c \in patched |-> [seq |-> 0, carried |-> Payload(g, lat, need[c])]]
<1>1. /\ task.phase = "compute"
      /\ graph' = g /\ rebuild_seq' = rebuild_seq + 1 /\ latest' = lat
      /\ task' = [task EXCEPT !.phase = "number", !.changed = changed, !.updates = updates]
  BY DEF Compute
<1>2. Refetched \subseteq DOMAIN graph /\ Refetched \subseteq Modules
  BY <1>1, RefetchedScanned
<1>3. IsGraph(g) /\ DOMAIN graph \subseteq DOMAIN g /\ DOMAIN g \subseteq Modules
  BY <1>2, FetchedGraph DEF IsGraph
<1> HIDE DEF g
<1>4. changed \subseteq DOMAIN g /\ new \subseteq DOMAIN g /\ importer \subseteq DOMAIN g
      /\ changed \subseteq Modules
  BY <1>2, <1>3 DEF rerendered_importers
<1>5. affected \subseteq DOMAIN g
  <2>1. collect_client_update_superset(g, changed) \subseteq DOMAIN g
    BY <1>3, <1>4, SupersetScanned
  <2> QED BY <1>4, <2>1
<1>6. added \subseteq DOMAIN g
  <2>1. \A m \in changed \cup new : g[m].imports \subseteq DOMAIN g
    BY <1>3, <1>4 DEF IsGraph
  <2> QED BY <2>1 DEF added_static_deps
<1>7. lat \in [Modules -> 0 .. rebuild_seq + 1] /\ \A m \in Modules : lat[m] >= latest[m]
  <2>1. rebuild_seq \in Nat /\ latest \in [Modules -> 0 .. rebuild_seq]
    BY DEF TypeInv, GraphType
  <2> HIDE DEF changed, new, importer
  <2>2. \A m \in Modules : lat[m] = IF m \in changed \cup new \cup importer
                                    THEN rebuild_seq + 1 ELSE latest[m]
    BY DEF Stamped
  <2>3. \A m \in Modules : lat[m] \in 0 .. rebuild_seq + 1 /\ lat[m] >= latest[m]
    <3> HIDE DEF lat
    <3> QED BY <2>1, <2>2
  <2> QED BY <2>3 DEF Stamped
<1> HIDE DEF affected, added, lat, changed, new, importer
<1>8. \A c \in DOMAIN task.snapshot : need[c] \subseteq DOMAIN g
  <2>1. \A c \in DOMAIN task.snapshot : DOMAIN task.snapshot[c].shipped \subseteq DOMAIN g
    BY <1>3 DEF TypeInv, Scanned
  <2> QED BY <1>3, <1>5, <1>6, <2>1, NeededScanned
<1>9. DOMAIN need = DOMAIN task.snapshot
  OBVIOUS
<1> HIDE DEF need
<1>10. patched \subseteq DOMAIN task.snapshot /\ DOMAIN task.snapshot \subseteq Clients
  <2>1. task.snapshot \in SessionMaps
    BY DEF TypeInv, Tasks
  <2> QED BY <1>9, <2>1, MapFields DEF SessionMaps
<1>11. lat \in [Modules -> Nat]
  <2>1. rebuild_seq + 1 \in Nat /\ 0 .. rebuild_seq + 1 \subseteq Nat
    BY DEF TypeInv, GraphType
  <2> QED BY <1>7, <2>1
<1>12. \A c \in patched : Payload(g, lat, need[c]) \in CopyMaps
  BY <1>3, <1>8, <1>10, <1>11, PayloadOf
<1> HIDE DEF patched
<1>13. updates \in Updates /\ DOMAIN updates = patched
       /\ \A c \in patched : updates[c].carried = Payload(g, lat, need[c])
  <2>1. updates \in [patched -> Update]
    BY <1>12 DEF Update
  <2>2. patched \subseteq Clients
    BY <1>10
  <2>3. DOMAIN updates = patched
        /\ \A c \in patched : updates[c].carried = Payload(g, lat, need[c])
    OBVIOUS
  <2> HIDE DEF updates
  <2>4. updates \in Updates
    BY <2>1, <2>2, FunctionIsMap DEF Updates
  <2> QED BY <2>3, <2>4
<1> HIDE DEF updates
<1>14. \A c \in DOMAIN updates : Rendered(updates[c].carried, g, lat)
  BY <1>8, <1>10, <1>13 DEF Rendered
<1>15. changed = Refetched \ Unchanged(Refetched, graph')
       /\ latest' = Stamped(changed \cup (DOMAIN graph' \ DOMAIN graph)
                              \cup rerendered_importers(graph', changed))
  BY <1>1 DEF changed, lat, new, importer
<1> QED BY <1>1, <1>3, <1>4, <1>7, <1>10, <1>13, <1>14, <1>15 DEF g

\* compile_lazy_entry scans what is missing and renders what the client lacks.
LEMMA Compiled ==
  ASSUME TypeInv, CompileLazyEntry
  PROVE  /\ task.phase = "lazy" /\ task' = Idle /\ IsGraph(graph')
         /\ DOMAIN graph \subseteq DOMAIN graph'
         /\ \E c \in Clients, r \in Routes, carried \in CopyMaps :
              /\ DOMAIN task.snapshot = {c} /\ task.files = {r}
              /\ graph' = FetchModules(pending_rescans \cup ({r} \ DOMAIN graph))
              /\ Rendered(carried, graph', latest)
              /\ pending_payloads' = insert_pending_payload(pending_payloads,
                                       next_hmr_patch_id, c, Stamps(carried))
              /\ page' = IF page[c].st # "live" THEN page
                         ELSE [page EXCEPT ![c].chunks = @ \cup
                                 {[file |-> next_hmr_patch_id, route |-> r,
                                   carried |-> carried]}]
<1>1. PICK c \in Clients, r \in Routes : DOMAIN task.snapshot = {c} /\ task.files = {r}
  BY DEF CompileLazyEntry, TypeInv, TaskShape
<1>2. (CHOOSE d \in DOMAIN task.snapshot : TRUE) = c /\ (CHOOSE m \in task.files : TRUE) = r
  BY <1>1
<1> DEFINE G(m) == FetchModules(pending_rescans \cup ({m} \ DOMAIN graph))
           Needs(d, m) == collect_unheld_sync_deps(G(m), latest, {m},
                            task.snapshot[d].shipped, task.snapshot[d].evaluated)
           Carried(d, m) == Payload(G(m), latest, Needs(d, m))
           Body(d, m) ==
             /\ graph' = G(m)
             /\ pending_payloads' = insert_pending_payload(pending_payloads,
                                      next_hmr_patch_id, d, Stamps(Carried(d, m)))
             /\ page' = IF page[d].st # "live" THEN page
                        ELSE [page EXCEPT ![d].chunks = @ \cup
                                {[file |-> next_hmr_patch_id, route |-> m,
                                  carried |-> Carried(d, m)]}]
           g == G(r)
           need == Needs(c, r)
           carried == Carried(c, r)
<1>3. /\ task.phase = "lazy" /\ task' = Idle /\ graph' = g
      /\ pending_payloads' = insert_pending_payload(pending_payloads,
                               next_hmr_patch_id, c, Stamps(carried))
      /\ page' = IF page[c].st # "live" THEN page
                 ELSE [page EXCEPT ![c].chunks = @ \cup
                         {[file |-> next_hmr_patch_id, route |-> r, carried |-> carried]}]
  <2>1. task.phase = "lazy" /\ task' = Idle
        /\ Body(CHOOSE d \in DOMAIN task.snapshot : TRUE, CHOOSE m \in task.files : TRUE)
    BY DEF CompileLazyEntry
  <2> HIDE DEF Body
  <2>2. Body(c, r)
    BY <1>2, <2>1
  <2> QED BY <2>1, <2>2 DEF Body
<1>4. pending_rescans \cup ({r} \ DOMAIN graph) \subseteq Modules
  BY ModulesAssumption DEF TypeInv, GraphType, IsGraph
<1>5. /\ IsGraph(g) /\ DOMAIN graph \cup (pending_rescans \cup ({r} \ DOMAIN graph))
                         \subseteq DOMAIN g
  BY <1>4, FetchedGraph
<1> HIDE DEF G
<1>6. r \in DOMAIN g /\ DOMAIN graph \subseteq DOMAIN g
  BY <1>5
<1>7. need \subseteq DOMAIN g
  BY <1>5, <1>6, UnheldScanned
<1>8. latest \in [Modules -> Nat]
  <2>1. rebuild_seq \in Nat /\ latest \in [Modules -> 0 .. rebuild_seq]
        /\ 0 .. rebuild_seq \subseteq Nat
    BY DEF TypeInv, GraphType
  <2> QED BY <2>1
<1> HIDE DEF Needs
<1>9. carried \in CopyMaps
  BY <1>5, <1>7, <1>8, PayloadOf
<1>10. Rendered(carried, g, latest)
  BY <1>7 DEF Rendered
<1> HIDE DEF Carried
<1> QED BY <1>1, <1>3, <1>5, <1>6, <1>9, <1>10 DEF G

-----------------------------------------------------------------------------
(* Type correctness, one part of the invariant at a time. *)

\* The first graph holds what the entry and the routes compiled earlier import.
LEMMA FirstGraph ==
  ASSUME NEW fetched \in SUBSET Routes
  PROVE  LET g == Restrict(FirstSource, Closure(fetched \cup {Entry}, FirstImports)) IN
         IsGraph(g) /\ TopLevel(g) = TopLevel(FirstSource)
<1> DEFINE D == Closure(fetched \cup {Entry}, FirstImports)
           g == Restrict(FirstSource, D)
           S1 == [m \in Modules |-> static_deps(g, m)]
           S2 == [m \in Modules |-> static_deps(FirstSource, m)]
<1>1. FirstImports \in [Modules -> SUBSET Modules] /\ fetched \cup {Entry} \subseteq Modules
  BY ModulesAssumption
<1>2. /\ D \subseteq Modules /\ Entry \in D
      /\ \A m \in D : FirstImports[m] \subseteq D
  BY <1>1, ClosureIsLeast
<1> HIDE DEF D
<1>3. DOMAIN g = D /\ \A m \in D : g[m] = FirstSource[m]
  BY <1>2 DEF Restrict
<1>4. \A m \in Modules : /\ FirstSource[m] \in Sources
                         /\ FirstSource[m].imports = FirstImports[m]
  BY <1>1, BoundsAssumption DEF FirstSource, Sources
<1>5. IsGraph(g)
  <2> HIDE DEF g
  <2> QED BY <1>2, <1>3, <1>4 DEF IsGraph
<1>6. \A m \in D : S1[m] = S2[m] /\ S2[m] \subseteq D
  <2>1. DOMAIN FirstSource = Modules
    BY DEF FirstSource
  <2> HIDE DEF g
  <2> QED BY <1>2, <1>3, <1>4, <2>1 DEF static_deps
<1>7. S1 \in [Modules -> SUBSET Modules] /\ S2 \in [Modules -> SUBSET Modules]
  <2>1. DOMAIN FirstSource = Modules
    BY DEF FirstSource
  <2> HIDE DEF g
  <2> QED BY <1>1, <1>2, <1>3, <1>4, <2>1 DEF static_deps
<1> DEFINE C1 == Closure({Entry}, S1)
           C2 == Closure({Entry}, S2)
<1> HIDE DEF S1, S2
<1>8. {Entry} \subseteq Modules /\ {Entry} \subseteq D
  BY <1>2
<1>9. /\ {Entry} \subseteq C1 /\ C1 \subseteq D /\ \A x \in C1 : S1[x] \subseteq C1
      /\ {Entry} \subseteq C2 /\ C2 \subseteq D /\ \A x \in C2 : S2[x] \subseteq C2
  BY <1>2, <1>6, <1>7, <1>8, ClosureIsLeast
<1>10. C1 \subseteq C2
  <2>1. \A x \in C2 : S1[x] \subseteq C2
    BY <1>6, <1>9
  <2> QED BY <1>2, <1>7, <1>8, <1>9, <2>1, ClosureIsLeast
<1>11. C2 \subseteq C1
  <2>1. \A x \in C1 : S2[x] \subseteq C1
    BY <1>6, <1>9
  <2>2. C1 \subseteq Modules
    BY <1>2, <1>9
  <2> HIDE DEF C1
  <2> QED BY <1>7, <1>8, <1>9, <2>1, <2>2, ClosureIsLeast
<1>12. TopLevel(g) = C1 /\ TopLevel(FirstSource) = C2
  BY DEF TopLevel, S1, S2
<1> QED BY <1>5, <1>10, <1>11, <1>12 DEF D

\* The first state has its types.
LEMMA InitType == Init => TypeInv
<1> SUFFICES ASSUME Init PROVE TypeInv
  OBVIOUS
<1>0. PICK fetched \in SUBSET Routes :
        graph = Restrict(FirstSource, Closure(fetched \cup {Entry}, FirstImports))
  BY DEF Init
<1>1. IsGraph(graph) /\ TopLevel(graph) = TopLevel(FirstSource)
  BY <1>0, FirstGraph
<1>2. disk \in [Modules -> Sources]
  BY ModulesAssumption, BoundsAssumption DEF Init, FirstSource, Sources
<1>3. GraphType
  <2>1. top_level_evaluated \in [TopLevel(output) -> Nat]
    BY <1>1 DEF Init
  <2>2. edits \in 0 .. MaxEdits /\ rebuild_seq \in Nat
        /\ latest \in [Modules -> 0 .. rebuild_seq]
    BY BoundsAssumption DEF Init
  <2> QED BY <1>1, <1>2, <2>1, <2>2 DEF Init, GraphType
<1>4. /\ DOMAIN clients = {} /\ DOMAIN pending_payloads = {}
      /\ clients \in SessionMaps /\ pending_payloads \in [{} -> Payloads]
  BY EmptyMap, EmptySeq DEF Init, SessionMaps
<1>5. SessionType
  BY <1>4 DEF Init, SessionType
<1>6. task \in Tasks /\ TaskShape /\ DOMAIN task.snapshot = {} /\ DOMAIN task.updates = {}
  BY EmptyMap DEF Init, Idle, Tasks, TaskShape, SessionMaps, Updates, Phases
<1>7. page \in [Clients -> Pages]
  BY NoPageType DEF Init, PageStates
<1> QED BY <1>3, <1>4, <1>5, <1>6, <1>7 DEF TypeInv, Scanned

\* Steps that leave the sources, the graph, the output and the stamps alone.
GraphSame ==
  UNCHANGED <<diskVars, graphVars, outputVars, stampVars, last_task_errored>>

\* The steps that do so.
LEMMA GraphSameSteps ==
  ASSUME \/ NumberPatches \/ StartRebuild \/ UNCHANGED vars
         \/ \E c \in Clients : PublishPatch(c) \/ ClientStep(c)
         \/ \E c \in Clients, r \in Routes : StartLazy(c, r)
  PROVE  GraphSame
BY DEF GraphSame, NumberPatches, StartRebuild, PublishPatch, ClientStep, StartLazy, LoadPage,
       register_client, remove_client, ReceivePush, requestLazy, ReceiveChunk,
       notify_payload_delivered, vars

\* A rebuild leaves a graph, and the output is made from it.
LEMMA RebuildGraphs ==
  ASSUME TypeInv, Rebuild
  PROVE  /\ task.phase = "rebuild" /\ IsGraph(graph') /\ DOMAIN graph \subseteq DOMAIN graph'
         /\ GraphType'
<1>1. /\ task.phase = "rebuild" /\ task \in Tasks /\ task.files \subseteq DOMAIN graph
      /\ UNCHANGED <<disk, edits, events, rebuild_seq, latest>>
  BY DEF Rebuild, TypeInv, TaskShape, diskVars, stampVars
<1>2. CASE "rebuild" \in Failures /\ UNCHANGED <<graph, output, top_level_evaluated>>
           /\ pending_rescans' = pending_rescans \cup task.files
           /\ stale' = TRUE /\ EndTask(TRUE)
  BY <1>1, <1>2 DEF TypeInv, GraphType, EndTask
<1>3. CASE /\ graph' = FetchModules(task.files \cup pending_rescans)
           /\ pending_rescans' = {} /\ output' = graph'
           /\ top_level_evaluated' = compute_top_level_evaluated_modules(graph')
           /\ stale' = task.hmr_errored
           /\ EndTask(task.hmr_errored)
  <2>1. task.files \cup pending_rescans \subseteq Modules
    BY <1>1 DEF TypeInv, GraphType, IsGraph
  <2>2. IsGraph(graph') /\ DOMAIN graph \subseteq DOMAIN graph'
    BY <1>3, <2>1, FetchedGraph
  <2>3. TopLevel(graph') \subseteq Modules
    BY <2>2, TopLevelScanned DEF IsGraph
  <2>4. latest \in [Modules -> 0 .. rebuild_seq] /\ rebuild_seq \in Nat
        /\ 0 .. rebuild_seq \subseteq Nat
    BY DEF TypeInv, GraphType
  <2>5. top_level_evaluated' \in [TopLevel(output') -> Nat]
    BY <1>3, <2>3, <2>4 DEF compute_top_level_evaluated_modules
  <2>6. stale' \in BOOLEAN /\ last_task_errored' \in BOOLEAN
    BY <1>1, <1>3 DEF Tasks, EndTask
  <2> QED BY <1>1, <1>3, <2>2, <2>5, <2>6 DEF TypeInv, GraphType
<1> QED BY <1>1, <1>2, <1>3 DEF Rebuild

\* Sources, graphs and stamps keep their types, and no module leaves the graph.
LEMMA NextGraphType ==
  ASSUME TypeInv, [Next]_vars
  PROVE  GraphType' /\ DOMAIN graph \subseteq DOMAIN graph'
<1> USE DEF TypeInv
<1>1. CASE \E m \in Modules : Edit(m)
  <2>1. PICK m \in Modules : Edit(m)
    BY <1>1
  <2>2. disk' \in [Modules -> Sources]
    <3>1. CASE disk' = disk
      BY <3>1 DEF GraphType
    <3>2. ASSUME NEW s \in Shapes[m],
                 disk' = [disk EXCEPT ![m] = [text |-> edits + 1, imports |-> s.imports,
                                              cjs |-> s.cjs]]
          PROVE  disk' \in [Modules -> Sources]
      <4>1. s \in [imports : SUBSET Modules, cjs : BOOLEAN]
        BY ModulesAssumption
      <4>2. edits + 1 \in 0 .. MaxEdits
        BY <2>1, BoundsAssumption DEF Edit, GraphType
      <4> QED BY <3>2, <4>1, <4>2 DEF GraphType, Sources
    <3> QED BY <2>1, <3>1, <3>2 DEF Edit
  <2>3. edits' \in 0 .. MaxEdits /\ events' \subseteq DOMAIN graph
    BY <2>1, BoundsAssumption DEF Edit, GraphType
  <2> QED BY <2>1, <2>2, <2>3 DEF Edit, GraphType, graphVars, outputVars, stampVars
<1>2. CASE \E files \in SUBSET events, rebuild \in BOOLEAN : StartHmr(files, rebuild)
  BY <1>2 DEF StartHmr, GraphType, graphVars, outputVars, stampVars
<1>3. CASE ComputeFails \/ HmrDone
  <2>1. task.files \subseteq DOMAIN graph
    BY <1>3 DEF ComputeFails, HmrDone, TaskShape
  <2>2. pending_rescans' \subseteq DOMAIN graph
    BY <1>3, <2>1 DEF ComputeFails, HmrDone, graphVars, GraphType
  <2> QED BY <1>3, <2>2 DEF ComputeFails, HmrDone, EndTask, GraphType, diskVars, graphVars,
          outputVars, stampVars
<1>4. CASE Compute
  <2>1. UNCHANGED <<disk, edits, events, output, stale, top_level_evaluated, last_task_errored>>
        /\ pending_rescans' = {}
    BY <1>4 DEF Compute, diskVars, outputVars
  <2>2. /\ IsGraph(graph') /\ DOMAIN graph \subseteq DOMAIN graph'
        /\ rebuild_seq' = rebuild_seq + 1
        /\ latest' \in [Modules -> 0 .. rebuild_seq']
    BY <1>4, Computed
  <2> QED BY <2>1, <2>2 DEF GraphType
<1>5. CASE Rebuild
  BY <1>5, RebuildGraphs
<1>6. CASE CompileLazyEntry
  <2>1. UNCHANGED <<disk, edits, events, output, top_level_evaluated, last_task_errored,
                    rebuild_seq, latest>>
        /\ pending_rescans' = {} /\ stale' = TRUE
    BY <1>6 DEF CompileLazyEntry, diskVars, stampVars
  <2>2. IsGraph(graph') /\ DOMAIN graph \subseteq DOMAIN graph'
    BY <1>6, Compiled
  <2> QED BY <2>1, <2>2 DEF GraphType
<1>7. CASE GraphSame
  BY <1>7 DEF GraphSame, GraphType, diskVars, graphVars, outputVars, stampVars
<1> QED BY <1>1, <1>2, <1>3, <1>4, <1>5, <1>6, <1>7, GraphSameSteps DEF Next

\* What is known of a map of sessions.
LEMMA SessionFields ==
  ASSUME NEW f \in SessionMaps
  PROVE  /\ DOMAIN f \subseteq Clients /\ f \in [DOMAIN f -> Sessions]
         /\ \A c \in DOMAIN f : f[c] \in Sessions
BY MapFields DEF SessionMaps

\* What is known of a map of updates.
LEMMA UpdateFields ==
  ASSUME NEW f \in Updates
  PROVE  /\ DOMAIN f \subseteq Clients
         /\ \A c \in DOMAIN f : f[c] \in Update
BY MapFields DEF Updates

\* What is known of a session and of the maps of sessions and updates.
LEMMA ServerFields ==
  ASSUME TypeInv
  PROVE  /\ DOMAIN clients \subseteq Clients
         /\ \A c \in DOMAIN clients : clients[c] \in Sessions
         /\ DOMAIN task.snapshot \subseteq Clients
         /\ \A c \in DOMAIN task.snapshot : task.snapshot[c] \in Sessions
         /\ DOMAIN task.updates \subseteq Clients
         /\ \A c \in DOMAIN task.updates :
              /\ task.updates[c] \in Update
              /\ task.updates[c].seq \in Nat /\ task.updates[c].carried \in CopyMaps
<1>1. clients \in SessionMaps /\ task.snapshot \in SessionMaps /\ task.updates \in Updates
  BY DEF TypeInv, SessionType, Tasks
<1>2. /\ DOMAIN clients \subseteq Clients
      /\ \A c \in DOMAIN clients : clients[c] \in Sessions
  BY <1>1, SessionFields
<1>3. /\ DOMAIN task.snapshot \subseteq Clients
      /\ \A c \in DOMAIN task.snapshot : task.snapshot[c] \in Sessions
  BY <1>1, SessionFields
<1>4. /\ DOMAIN task.updates \subseteq Clients
      /\ \A c \in DOMAIN task.updates : task.updates[c] \in Update
  BY <1>1, UpdateFields
<1>5. \A u \in Update : u.seq \in Nat /\ u.carried \in CopyMaps
  BY DEF Update
<1> QED BY <1>2, <1>3, <1>4, <1>5

\* A session begins with what the entry chunk evaluated.
LEMMA NewSessionType ==
  ASSUME TypeInv
  PROVE  NewSession \in Sessions /\ top_level_evaluated \in StampMaps
<1>1. TopLevel(output) \subseteq Modules
  BY TopLevelScanned DEF TypeInv, GraphType, IsGraph
<1>2. top_level_evaluated \in StampMaps
  BY <1>1, FunctionIsMap DEF TypeInv, GraphType, StampMaps
<1> QED BY <1>2, EmptyMap DEF NewSession, Sessions, StampMaps

\* A hello adds a session.
LEMMA Registered ==
  ASSUME TypeInv, NEW c \in Clients, register_client(c)
  PROVE  /\ clients' \in SessionMaps /\ DOMAIN clients' = DOMAIN clients \cup {c}
         /\ clients'[c] = NewSession
         /\ \A d \in DOMAIN clients : d # c => clients'[d] = clients[d]
<1> DEFINE q == [d \in DOMAIN clients \cup {c} |-> IF d = c THEN NewSession ELSE clients[d]]
<1>1. q \in [DOMAIN clients \cup {c} -> Sessions]
  <2>1. NewSession \in Sessions /\ \A d \in DOMAIN clients : clients[d] \in Sessions
    BY ServerFields, NewSessionType
  <2> QED BY <2>1
<1>2. clients' = q
  BY DEF register_client
<1>3. DOMAIN clients \cup {c} \subseteq Clients
  BY ServerFields
<1>4. clients' \in SessionMaps
  <2> HIDE DEF q
  <2> QED BY <1>1, <1>2, <1>3, FunctionIsMap DEF SessionMaps
<1> QED BY <1>2, <1>4

\* A disconnect takes away the session, its pending payloads and the page.
LEMMA Removed ==
  ASSUME TypeInv, NEW c \in Clients, remove_client(c)
  PROVE  /\ clients' \in SessionMaps /\ DOMAIN clients' = DOMAIN clients \ {c}
         /\ \A d \in DOMAIN clients' : clients'[d] = clients[d]
         /\ DOMAIN pending_payloads' \subseteq DOMAIN pending_payloads
         /\ \A f \in DOMAIN pending_payloads' : pending_payloads'[f] = pending_payloads[f]
         /\ pending_payloads' \in [DOMAIN pending_payloads' -> Payloads]
         /\ page' \in [Clients -> Pages] /\ page'[c] = NoPage("closed")
         /\ \A d \in Clients \ {c} : page'[d] = page[d]
<1>1. clients' = Restrict(clients, DOMAIN clients \ {c})
      /\ page' = [page EXCEPT ![c] = NoPage("closed")]
  BY DEF remove_client
<1>2. clients \in SessionMaps /\ page \in [Clients -> Pages]
  BY DEF TypeInv, SessionType
<1>3. /\ clients' \in SessionMaps /\ DOMAIN clients' = DOMAIN clients \ {c}
      /\ \A d \in DOMAIN clients' : clients'[d] = clients[d]
  BY <1>1, <1>2, RestrictedMap DEF SessionMaps
<1>4. NoPage("closed") \in Pages
  BY NoPageType DEF PageStates
<1>5. PICK S \in SUBSET DOMAIN pending_payloads : pending_payloads' = Restrict(pending_payloads, S)
  BY DEF remove_client
<1>6. pending_payloads \in [DOMAIN pending_payloads -> Payloads]
  BY DEF TypeInv, SessionType
<1>7. /\ DOMAIN pending_payloads' \subseteq DOMAIN pending_payloads
      /\ \A f \in DOMAIN pending_payloads' : pending_payloads'[f] = pending_payloads[f]
      /\ pending_payloads' \in [DOMAIN pending_payloads' -> Payloads]
  BY <1>5, <1>6 DEF Restrict
<1> QED BY <1>1, <1>2, <1>3, <1>4, <1>7

\* Stamps of a ship map only grow.
LEMMA MergedStamps ==
  ASSUME NEW a \in StampMaps, NEW b \in StampMaps
  PROVE  /\ MaxMerge(a, b) \in StampMaps /\ DOMAIN MaxMerge(a, b) = DOMAIN a \cup DOMAIN b
         /\ \A m \in DOMAIN MaxMerge(a, b) :
              \/ m \in DOMAIN a /\ MaxMerge(a, b)[m] = a[m]
              \/ m \in DOMAIN b /\ MaxMerge(a, b)[m] = b[m]
<1>1. /\ DOMAIN a \subseteq Modules /\ DOMAIN b \subseteq Modules
      /\ \A m \in DOMAIN a : a[m] \in Nat
      /\ \A m \in DOMAIN b : b[m] \in Nat
  BY MapFields DEF StampMaps
<1>2. DOMAIN MaxMerge(a, b) = DOMAIN a \cup DOMAIN b
      /\ \A m \in DOMAIN MaxMerge(a, b) :
           \/ m \in DOMAIN a /\ MaxMerge(a, b)[m] = a[m]
           \/ m \in DOMAIN b /\ MaxMerge(a, b)[m] = b[m]
  BY DEF MaxMerge
<1>3. MaxMerge(a, b) \in [DOMAIN a \cup DOMAIN b -> Nat]
  <2>1. \A m \in DOMAIN a \cup DOMAIN b : MaxMerge(a, b)[m] \in Nat
    BY <1>1, <1>2
  <2>2. MaxMerge(a, b) = [m \in DOMAIN a \cup DOMAIN b |-> MaxMerge(a, b)[m]]
    BY DEF MaxMerge
  <2> QED BY <2>1, <2>2
<1> QED BY <1>1, <1>2, <1>3, FunctionIsMap DEF StampMaps

\* A report takes the pending payload and merges it into the ship map.
LEMMA Notified ==
  ASSUME TypeInv, NEW c \in Clients, NEW f, notify_payload_delivered(c, f)
  PROVE  /\ f \in page[c].ran /\ f \in DOMAIN pending_payloads
         /\ DOMAIN pending_payloads' = DOMAIN pending_payloads \ {f}
         /\ \A g \in DOMAIN pending_payloads' : pending_payloads'[g] = pending_payloads[g]
         /\ pending_payloads' \in [DOMAIN pending_payloads' -> Payloads]
         /\ clients' \in SessionMaps /\ DOMAIN clients' = DOMAIN clients
         /\ \A d \in DOMAIN clients :
              /\ d # c => clients'[d] = clients[d]
              /\ clients'[d].next_seq = clients[d].next_seq
         /\ c \in DOMAIN clients =>
              clients'[c].shipped = MaxMerge(clients[c].shipped, pending_payloads[f].modules)
<1>1. /\ f \in page[c].ran /\ f \in DOMAIN pending_payloads
      /\ pending_payloads' = Restrict(pending_payloads, DOMAIN pending_payloads \ {f})
  BY DEF notify_payload_delivered
<1>2. /\ pending_payloads \in [DOMAIN pending_payloads -> Payloads]
      /\ pending_payloads[f].modules \in StampMaps
  BY <1>1 DEF TypeInv, SessionType, Payloads
<1>3. /\ DOMAIN pending_payloads' = DOMAIN pending_payloads \ {f}
      /\ \A g \in DOMAIN pending_payloads' : pending_payloads'[g] = pending_payloads[g]
      /\ pending_payloads' \in [DOMAIN pending_payloads' -> Payloads]
  BY <1>1, <1>2 DEF Restrict
<1>4. clients \in SessionMaps /\ clients \in [DOMAIN clients -> Sessions]
      /\ DOMAIN clients \subseteq Clients
  BY MapFields DEF TypeInv, SessionType, SessionMaps
<1>5. CASE c \notin DOMAIN clients
  BY <1>1, <1>3, <1>4, <1>5 DEF notify_payload_delivered
<1>6. CASE c \in DOMAIN clients
  <2> DEFINE merged == MaxMerge(clients[c].shipped, pending_payloads[f].modules)
  <2>1. clients[c] \in Sessions /\ merged \in StampMaps
    BY <1>2, <1>4, <1>6, MergedStamps DEF Sessions
  <2>2. clients' = [clients EXCEPT ![c] = [clients[c] EXCEPT !.shipped = merged]]
    BY <1>4, <1>6 DEF notify_payload_delivered
  <2> HIDE DEF merged
  <2>3. [clients[c] EXCEPT !.shipped = merged] \in Sessions
        /\ [clients[c] EXCEPT !.shipped = merged].shipped = merged
        /\ [clients[c] EXCEPT !.shipped = merged].next_seq = clients[c].next_seq
    BY <2>1 DEF Sessions
  <2>4. /\ DOMAIN clients' = DOMAIN clients
        /\ clients'[c] = [clients[c] EXCEPT !.shipped = merged]
        /\ \A d \in DOMAIN clients : d # c => clients'[d] = clients[d]
        /\ clients' \in [DOMAIN clients -> Sessions]
    BY <1>4, <1>6, <2>2, <2>3
  <2>5. clients' \in SessionMaps
    BY <1>4, <2>4, FunctionIsMap DEF SessionMaps
  <2> QED BY <1>1, <1>3, <2>3, <2>4, <2>5 DEF merged
<1> QED BY <1>5, <1>6

\* Every patch of a connected client takes the next number.
LEMMA NumberedPatches ==
  ASSUME TypeInv, NumberPatches
  PROVE  /\ task.phase = "number"
         /\ clients' \in SessionMaps /\ DOMAIN clients' = DOMAIN clients
         /\ \A c \in DOMAIN clients :
              /\ clients'[c].shipped = clients[c].shipped
              /\ clients'[c].next_seq =
                   IF c \in DOMAIN task.updates THEN clients[c].next_seq + 1
                   ELSE clients[c].next_seq
         /\ \E updates \in Updates :
              /\ task' = [task EXCEPT !.phase = "publish", !.updates = updates]
              /\ DOMAIN updates = DOMAIN task.updates
              /\ \A c \in DOMAIN updates :
                   /\ updates[c].carried = task.updates[c].carried
                   /\ c \in DOMAIN clients => updates[c].seq = clients[c].next_seq + 1
<1> DEFINE session(c) == IF c \in DOMAIN task.updates
                         THEN [clients[c] EXCEPT !.next_seq = @ + 1] ELSE clients[c]
           update(c) == [task.updates[c] EXCEPT
                           !.seq = IF c \in DOMAIN clients THEN clients[c].next_seq + 1 ELSE 0]
           updates == [c \in DOMAIN task.updates |-> update(c)]
           sessions == [c \in DOMAIN clients |-> session(c)]
<1>1. /\ task.phase = "number" /\ clients' = sessions
      /\ task' = [task EXCEPT !.phase = "publish", !.updates = updates]
  BY DEF NumberPatches
<1>2. \A c \in DOMAIN clients :
        /\ session(c) \in Sessions /\ session(c).shipped = clients[c].shipped
        /\ session(c).next_seq = IF c \in DOMAIN task.updates THEN clients[c].next_seq + 1
                                 ELSE clients[c].next_seq
  BY ServerFields DEF Sessions
<1>3. \A c \in DOMAIN task.updates :
        /\ update(c) \in Update
        /\ update(c).carried = task.updates[c].carried
        /\ c \in DOMAIN clients => update(c).seq = clients[c].next_seq + 1
  BY ServerFields DEF Sessions, Update
<1> HIDE DEF session, update
<1>4. sessions \in SessionMaps
  <2>1. sessions \in [DOMAIN clients -> Sessions]
    BY <1>2
  <2> HIDE DEF sessions
  <2> QED BY <2>1, ServerFields, FunctionIsMap DEF SessionMaps
<1>5. updates \in Updates
  <2>1. updates \in [DOMAIN task.updates -> Update]
    BY <1>3
  <2> HIDE DEF updates
  <2> QED BY <2>1, ServerFields, FunctionIsMap DEF Updates
<1>6. /\ DOMAIN updates = DOMAIN task.updates
      /\ \A c \in DOMAIN updates : updates[c] = update(c)
      /\ DOMAIN sessions = DOMAIN clients
      /\ \A c \in DOMAIN clients : sessions[c] = session(c)
  OBVIOUS
<1> HIDE DEF updates, sessions
<1> QED BY <1>1, <1>2, <1>3, <1>4, <1>5, <1>6

\* The push that a patch becomes.
NewPush(c) ==
  [seq |-> task.updates[c].seq, changed |-> task.changed, file |-> next_hmr_patch_id,
   carried |-> task.updates[c].carried]

\* A new pending payload gets the next file, and no other entry changes.
NewPending(modules) ==
  /\ DOMAIN pending_payloads' \subseteq DOMAIN pending_payloads \cup {next_hmr_patch_id}
  /\ pending_payloads' \in [DOMAIN pending_payloads' -> Payloads]
  /\ \A f \in DOMAIN pending_payloads' :
       /\ f = next_hmr_patch_id => pending_payloads'[f].modules = modules
       /\ f # next_hmr_patch_id => f \in DOMAIN pending_payloads
                                   /\ pending_payloads'[f] = pending_payloads[f]

\* insert_pending_payload does that.
LEMMA PendingAdded ==
  ASSUME TypeInv, NEW c \in Clients, NEW modules \in StampMaps,
         pending_payloads' = insert_pending_payload(pending_payloads, next_hmr_patch_id, c,
                                                    modules)
  PROVE  NewPending(modules)
<1>1. pending_payloads \in [DOMAIN pending_payloads -> Payloads]
  BY DEF TypeInv, SessionType
<1>2. /\ DOMAIN pending_payloads' \subseteq DOMAIN pending_payloads \cup {next_hmr_patch_id}
      /\ pending_payloads' \in [DOMAIN pending_payloads' -> Payloads]
      /\ \A g \in DOMAIN pending_payloads' :
           pending_payloads'[g] = IF g = next_hmr_patch_id
                                  THEN [client_id |-> c, modules |-> modules]
                                  ELSE pending_payloads[g]
  BY <1>1, InsertedPayload
<1> QED BY <1>2 DEF NewPending

\* A patch is recorded and handed over.
LEMMA Published ==
  ASSUME TypeInv, NEW c \in Clients, PublishPatch(c)
  PROVE  /\ task.phase = "publish" /\ c \in DOMAIN task.updates
         /\ \E updates \in Updates :
              /\ task' = [task EXCEPT !.updates = updates]
              /\ DOMAIN updates = DOMAIN task.updates \ {c}
              /\ \A d \in DOMAIN updates : updates[d] = task.updates[d]
         /\ NewPending(Stamps(task.updates[c].carried))
         /\ next_hmr_patch_id' = next_hmr_patch_id + 1
         /\ NewPush(c) \in Pushes /\ page' \in [Clients -> Pages]
         /\ \A d \in Clients \ {c} : page'[d] = page[d]
         /\ page[c].st # "live" => page'[c] = page[c]
         /\ page[c].st = "live" =>
              page'[c] = [page[c] EXCEPT !.inbox = Append(page[c].inbox, NewPush(c))]
<1>1. /\ task.phase = "publish" /\ c \in DOMAIN task.updates
      /\ task' = [task EXCEPT !.updates = Restrict(task.updates, DOMAIN task.updates \ {c})]
      /\ next_hmr_patch_id' = next_hmr_patch_id + 1
      /\ pending_payloads' = insert_pending_payload(pending_payloads, next_hmr_patch_id, c,
                                                    Stamps(task.updates[c].carried))
      /\ page' = IF page[c].st # "live" THEN page
                 ELSE [page EXCEPT ![c].inbox = Append(@, NewPush(c))]
  BY DEF PublishPatch, NewPush, TypeInv, Tasks
<1>2. task.updates[c].carried \in CopyMaps /\ task.updates[c].seq \in Nat
      /\ task.updates \in Updates
  BY <1>1, ServerFields DEF TypeInv, Tasks
<1>3. NewPending(Stamps(task.updates[c].carried))
  BY <1>1, <1>2, StampsOf, PendingAdded
<1>4. NewPush(c) \in Pushes
  BY <1>2 DEF NewPush, Pushes, TypeInv, SessionType, Tasks
<1>5. page \in [Clients -> Pages] /\ page[c] \in Pages /\ page[c].inbox \in Seq(Pushes)
  BY DEF TypeInv, Pages
<1>6. Append(page[c].inbox, NewPush(c)) \in Seq(Pushes)
  BY <1>4, <1>5, AppendProperties
<1>7. [page[c] EXCEPT !.inbox = Append(page[c].inbox, NewPush(c))] \in Pages
  BY <1>5, <1>6 DEF Pages
<1>8. /\ page' \in [Clients -> Pages]
      /\ \A d \in Clients \ {c} : page'[d] = page[d]
      /\ page[c].st # "live" => page'[c] = page[c]
      /\ page[c].st = "live" =>
           page'[c] = [page[c] EXCEPT !.inbox = Append(page[c].inbox, NewPush(c))]
  BY <1>1, <1>5, <1>7
<1>9. \E updates \in Updates :
        /\ task' = [task EXCEPT !.updates = updates]
        /\ DOMAIN updates = DOMAIN task.updates \ {c}
        /\ \A d \in DOMAIN updates : updates[d] = task.updates[d]
  <2> DEFINE updates == Restrict(task.updates, DOMAIN task.updates \ {c})
  <2>1. /\ updates \in Maps(Clients, Update) /\ DOMAIN updates = DOMAIN task.updates \ {c}
        /\ \A d \in DOMAIN task.updates \ {c} : updates[d] = task.updates[d]
    <3>1. task.updates \in Maps(Clients, Update)
      BY <1>2 DEF Updates
    <3> QED BY <3>1, RestrictedMap
  <2> QED BY <1>1, <2>1 DEF Updates
<1> QED BY <1>1, <1>3, <1>4, <1>8, <1>9

\* A lazy chunk is recorded and handed over.
LEMMA Handed ==
  ASSUME TypeInv, CompileLazyEntry
  PROVE  \E c \in Clients, k \in Chunks :
           /\ DOMAIN task.snapshot = {c} /\ k.file = next_hmr_patch_id
           /\ Rendered(k.carried, graph', latest)
           /\ NewPending(Stamps(k.carried))
           /\ next_hmr_patch_id' = next_hmr_patch_id + 1
           /\ page' \in [Clients -> Pages]
           /\ \A d \in Clients \ {c} : page'[d] = page[d]
           /\ page[c].st # "live" => page'[c] = page[c]
           /\ page[c].st = "live" =>
                page'[c] = [page[c] EXCEPT !.chunks = page[c].chunks \cup {k}]
<1>1. PICK c \in Clients, r \in Routes, carried \in CopyMaps :
        /\ DOMAIN task.snapshot = {c} /\ Rendered(carried, graph', latest)
        /\ pending_payloads' = insert_pending_payload(pending_payloads,
                                 next_hmr_patch_id, c, Stamps(carried))
        /\ page' = IF page[c].st # "live" THEN page
                   ELSE [page EXCEPT ![c].chunks = @ \cup
                           {[file |-> next_hmr_patch_id, route |-> r, carried |-> carried]}]
  BY Compiled
<1> DEFINE k == [file |-> next_hmr_patch_id, route |-> r, carried |-> carried]
<1>2. k \in Chunks /\ k.file = next_hmr_patch_id /\ k.carried = carried
  BY DEF Chunks, TypeInv, SessionType
<1>3. NewPending(Stamps(carried))
  BY <1>1, StampsOf, PendingAdded
<1>4. page \in [Clients -> Pages] /\ page[c] \in Pages
  BY DEF TypeInv
<1>5. page' = IF page[c].st # "live" THEN page ELSE [page EXCEPT ![c].chunks = @ \cup {k}]
  BY <1>1
<1> HIDE DEF k
<1>6. [page[c] EXCEPT !.chunks = page[c].chunks \cup {k}] \in Pages
  BY <1>2, <1>4 DEF Pages
<1>7. /\ page' \in [Clients -> Pages]
      /\ \A d \in Clients \ {c} : page'[d] = page[d]
      /\ page[c].st # "live" => page'[c] = page[c]
      /\ page[c].st = "live" =>
           page'[c] = [page[c] EXCEPT !.chunks = page[c].chunks \cup {k}]
  BY <1>4, <1>5, <1>6
<1>8. next_hmr_patch_id' = next_hmr_patch_id + 1
  BY DEF CompileLazyEntry
<1> QED BY <1>1, <1>2, <1>3, <1>7, <1>8

\* An entry chunk runs what the output holds.
LEMMA Loaded ==
  ASSUME TypeInv, NEW c \in Clients, LoadPage(c)
  PROVE  /\ page[c].st = "none" /\ page' \in [Clients -> Pages]
         /\ \A d \in Clients \ {c} : page'[d] = page[d]
         /\ page'[c].st = "live" /\ page'[c].boot = top_level_evaluated
         /\ page'[c].factories = <<>> /\ page'[c].last_seq = 0 /\ page'[c].inbox = <<>>
         /\ page'[c].chunks = {} /\ page'[c].ran = {}
         /\ DOMAIN page'[c].cache = DOMAIN page'[c].boot
         /\ \A m \in DOMAIN page'[c].boot : page'[c].cache[m].stamp = page'[c].boot[m]
<1> DEFINE cache == [m \in TopLevel(output) |->
                       [code |-> render_module_code(output, m),
                        stamp |-> top_level_evaluated[m]]]
           q == [NoPage("live") EXCEPT !.boot = top_level_evaluated, !.cache = cache]
<1>1. page[c].st = "none" /\ page' = [page EXCEPT ![c] = q]
  BY DEF LoadPage
<1>2. /\ IsGraph(output) /\ top_level_evaluated \in [TopLevel(output) -> Nat]
      /\ TopLevel(output) \subseteq DOMAIN output /\ TopLevel(output) \subseteq Modules
  BY TopLevelScanned DEF TypeInv, GraphType, IsGraph
<1>3. cache \in CopyMaps
  <2>1. \A m \in TopLevel(output) : render_module_code(output, m) \in Codes
    BY <1>2, RenderedCode
  <2>2. cache \in [TopLevel(output) -> Held]
    BY <1>2, <2>1 DEF Held
  <2> HIDE DEF cache
  <2> QED BY <1>2, <2>2, FunctionIsMap DEF CopyMaps
<1>4. DOMAIN cache = DOMAIN top_level_evaluated
      /\ \A m \in DOMAIN top_level_evaluated : cache[m].stamp = top_level_evaluated[m]
  BY <1>2
<1> HIDE DEF cache
<1>5. NoPage("live") \in Pages /\ top_level_evaluated \in StampMaps
  BY NoPageType, NewSessionType DEF PageStates
<1>6. /\ q \in Pages /\ q.boot = top_level_evaluated /\ q.cache = cache /\ q.st = "live"
      /\ q.factories = <<>> /\ q.last_seq = 0 /\ q.inbox = <<>> /\ q.chunks = {}
      /\ q.ran = {}
  <2>1. q \in Pages /\ q.boot = top_level_evaluated /\ q.cache = cache
    BY <1>3, <1>5 DEF Pages
  <2>2. /\ q.st = "live" /\ q.factories = <<>> /\ q.last_seq = 0 /\ q.inbox = <<>>
        /\ q.chunks = {} /\ q.ran = {}
    BY DEF NoPage
  <2> QED BY <2>1, <2>2
<1> HIDE DEF q
<1>7. page \in [Clients -> Pages]
  BY DEF TypeInv
<1>8. page' \in [Clients -> Pages] /\ page'[c] = q
      /\ \A d \in Clients \ {c} : page'[d] = page[d]
  BY <1>1, <1>6, <1>7
<1> QED BY <1>1, <1>4, <1>6, <1>7, <1>8

\* No task has nobody to update.
LEMMA IdleType ==
  /\ Idle \in Tasks /\ Idle.phase = "idle"
  /\ DOMAIN Idle.snapshot = {} /\ DOMAIN Idle.updates = {}
BY EmptyMap DEF Idle, Tasks, SessionMaps, Updates, Phases

\* A hot update starts with the sessions of the moment.
LEMMA HmrStarted ==
  ASSUME TypeInv, NEW files \in SUBSET events, NEW rebuild \in BOOLEAN, StartHmr(files, rebuild)
  PROVE  /\ task' \in Tasks /\ task'.phase = "compute" /\ task'.files = files
         /\ task'.snapshot = clients /\ DOMAIN task'.updates = {}
<1>1. task' = [Idle EXCEPT !.phase = "compute", !.files = files, !.rebuild = rebuild,
                           !.snapshot = clients]
  BY DEF StartHmr
<1>2. files \subseteq Modules /\ clients \in SessionMaps
  BY DEF TypeInv, GraphType, IsGraph, SessionType
<1>3. <<>> \in Updates /\ DOMAIN <<>> = {}
  BY EmptyMap DEF Updates
<1> QED BY <1>1, <1>2, <1>3 DEF Idle, Tasks, Phases

\* A lazy compile starts with the session of its client, if there is one.
LEMMA LazyStarted ==
  ASSUME TypeInv, NEW c \in Clients, NEW r \in Routes, StartLazy(c, r)
  PROVE  /\ task' \in Tasks /\ task'.phase = "lazy" /\ task'.files = {r}
         /\ DOMAIN task'.snapshot = {c} /\ DOMAIN task'.updates = {}
         /\ \/ c \in DOMAIN clients /\ task'.snapshot[c] = clients[c]
            \/ task'.snapshot[c].shipped = <<>>
         /\ page[c].lazy[r] = "sent" /\ page' \in [Clients -> Pages]
         /\ \E l \in [Routes -> LazyStates] :
              page' = [page EXCEPT ![c] = [page[c] EXCEPT !.lazy = l]]
<1> DEFINE s == IF c \in DOMAIN clients THEN clients[c] ELSE [NewSession EXCEPT !.evaluated = <<>>]
           snap == [d \in {c} |-> s]
<1>1. /\ task' = [Idle EXCEPT !.phase = "lazy", !.files = {r}, !.snapshot = snap]
      /\ page[c].lazy[r] = "sent"
  BY DEF StartLazy
<1>2. s \in Sessions /\ (c \in DOMAIN clients => s = clients[c])
      /\ (c \notin DOMAIN clients => s.shipped = <<>>)
  <2>1. <<>> \in StampMaps /\ NewSession \in Sessions /\ NewSession.shipped = <<>>
    BY EmptyMap, NewSessionType DEF StampMaps, NewSession
  <2> QED BY <2>1, ServerFields DEF Sessions
<1> HIDE DEF s
<1>3. snap \in SessionMaps /\ DOMAIN snap = {c} /\ snap[c] = s
  <2>1. snap \in [{c} -> Sessions] /\ {c} \subseteq Clients
    BY <1>2
  <2>2. DOMAIN snap = {c} /\ snap[c] = s
    OBVIOUS
  <2> HIDE DEF snap
  <2> QED BY <2>1, <2>2, FunctionIsMap DEF SessionMaps
<1> HIDE DEF snap
<1>4. <<>> \in Updates /\ DOMAIN <<>> = {} /\ {r} \subseteq Modules
  BY EmptyMap, ModulesAssumption DEF Updates
<1>5. task' \in Tasks /\ task'.phase = "lazy" /\ task'.files = {r} /\ task'.snapshot = snap
      /\ DOMAIN task'.updates = {}
  BY <1>1, <1>3, <1>4 DEF Idle, Tasks, Phases
<1>6. page \in [Clients -> Pages] /\ page[c] \in Pages
      /\ page[c].lazy \in [Routes -> LazyStates]
  BY DEF TypeInv, Pages
<1> DEFINE l == [page[c].lazy EXCEPT ![r] = "served"]
<1>7. l \in [Routes -> LazyStates]
  BY <1>6 DEF LazyStates
<1>8. page' = [page EXCEPT ![c] = [page[c] EXCEPT !.lazy = l]]
  BY <1>6 DEF StartLazy, Pages
<1> HIDE DEF l
<1>9. page' \in [Clients -> Pages]
  BY <1>6, <1>7, <1>8 DEF Pages
<1> QED BY <1>1, <1>2, <1>3, <1>5, <1>7, <1>8, <1>9

\* What a page missed is never forgotten.
LEMMA MissedGrows ==
  ASSUME TypeInv, [Next]_vars
  PROVE  /\ missed' \in [Clients -> SUBSET Reasons]
         /\ \A c \in Clients : missed[c] \subseteq missed'[c]
<1> DEFINE Q == /\ missed' \in [Clients -> SUBSET Reasons]
                /\ \A c \in Clients : missed[c] \subseteq missed'[c]
<1>0. missed \in [Clients -> SUBSET Reasons]
  BY DEF TypeInv, SessionType
<1>1. CASE missed' = missed
  BY <1>0, <1>1
<1>2. ASSUME NEW cs, NEW reasons \in SUBSET Reasons, missed' = Missing(cs, reasons)
      PROVE  Q
  BY <1>0, <1>2 DEF Missing
<1>3. ASSUME NEW ms, NEW g, missed' = FirstReadBy(ms, g)
      PROVE  Q
  <2> DEFINE reasons ==
        (IF \E m \in ms \cap DOMAIN graph : g[m] # graph[m] THEN {"scan"} ELSE {})
        \cup (IF \E m \in pending_rescans : g[m] # graph[m] THEN {"rescan"} ELSE {})
  <2>1. reasons \in SUBSET Reasons
    BY DEF Reasons
  <2>2. missed' = [c \in Clients |->
          missed[c] \cup (IF c \in Opened THEN reasons ELSE {})
          \cup (IF c \in Opened \ DOMAIN clients /\ reasons # {} THEN {"late"} ELSE {})]
    BY <1>3 DEF FirstReadBy
  <2>3. {"late"} \in SUBSET Reasons
    BY DEF Reasons
  <2> HIDE DEF reasons
  <2> QED BY <1>0, <2>1, <2>2, <2>3
<1>4. CASE Compute
  <2>1. {"late"} \in SUBSET Reasons
    BY DEF Reasons
  <2> QED BY <1>2, <1>4, <2>1 DEF Compute
<1>5. CASE Rebuild
  BY <1>1, <1>3, <1>5 DEF Rebuild
<1>6. CASE CompileLazyEntry
  BY <1>3, <1>6 DEF CompileLazyEntry
<1>7. ASSUME NEW c \in Clients, ClientStep(c)
      PROVE  Q
  <2>1. {"late"} \in SUBSET Reasons /\ {"skip"} \in SUBSET Reasons
        /\ {"skip", "older"} \in SUBSET Reasons
    BY DEF Reasons
  <2>2. CASE LoadPage(c)
    BY <1>1, <1>2, <2>1, <2>2 DEF LoadPage
  <2>3. CASE ReceivePush(c)
    <3>1. CASE RunPush(c)
      BY <1>1, <3>1 DEF RunPush
    <3>2. CASE SkipPush(c)
      BY <1>2, <2>1, <3>2 DEF SkipPush
    <3> QED BY <2>3, <3>1, <3>2 DEF ReceivePush
  <2>4. CASE \/ register_client(c) \/ remove_client(c)
             \/ (\E r \in Routes : requestLazy(c, r))
             \/ (\E k \in page[c].chunks : ReceiveChunk(c, k))
             \/ \E f \in page[c].ran : notify_payload_delivered(c, f)
    BY <1>1, <2>4 DEF register_client, remove_client, requestLazy, ReceiveChunk,
                      notify_payload_delivered
  <2> QED BY <1>7, <2>2, <2>3, <2>4 DEF ClientStep
<1>8. CASE \/ \E m \in Modules : Edit(m)
           \/ \E files \in SUBSET events, rebuild \in BOOLEAN : StartHmr(files, rebuild)
           \/ ComputeFails \/ NumberPatches \/ HmrDone \/ StartRebuild
           \/ (\E c \in Clients : PublishPatch(c))
           \/ \E c \in Clients, r \in Routes : StartLazy(c, r)
           \/ UNCHANGED vars
  BY <1>1, <1>8 DEF Edit, StartHmr, ComputeFails, NumberPatches, PublishPatch, HmrDone,
                    StartRebuild, StartLazy, vars
<1> QED BY <1>4, <1>5, <1>6, <1>7, <1>8 DEF Next

\* Sessions and pending payloads keep their types.
LEMMA NextSessionType ==
  ASSUME TypeInv, [Next]_vars
  PROVE  SessionType'
<1> DEFINE Same == UNCHANGED <<clients, pending_payloads, next_hmr_patch_id>>
<1>0. SessionType /\ missed' \in [Clients -> SUBSET Reasons]
  BY MissedGrows DEF TypeInv
<1>1. CASE Same
  BY <1>0, <1>1 DEF SessionType
<1>2. CASE Compute
  BY <1>0, <1>2, Computed DEF Compute, SessionType
<1>3. CASE NumberPatches
  BY <1>0, <1>3, NumberedPatches DEF NumberPatches, SessionType
<1>4. ASSUME NEW modules, NewPending(modules), next_hmr_patch_id' = next_hmr_patch_id + 1,
             UNCHANGED clients
      PROVE  SessionType'
  <2>1. DOMAIN pending_payloads' \subseteq 0 .. next_hmr_patch_id' - 1
        /\ next_hmr_patch_id' \in Nat
    BY <1>0, <1>4 DEF SessionType, NewPending
  <2> QED BY <1>0, <1>4, <2>1 DEF SessionType, NewPending
<1>5. CASE \E c \in Clients : PublishPatch(c)
  BY <1>4, <1>5, Published DEF PublishPatch
<1>6. CASE CompileLazyEntry
  <2>1. UNCHANGED clients
    BY <1>6 DEF CompileLazyEntry
  <2>2. PICK k \in Chunks : NewPending(Stamps(k.carried))
                            /\ next_hmr_patch_id' = next_hmr_patch_id + 1
    BY <1>6, Handed
  <2> QED BY <1>4, <2>1, <2>2
<1>7. ASSUME NEW c \in Clients, ClientStep(c) PROVE SessionType'
  <2>1. CASE LoadPage(c)
    BY <1>1, <2>1 DEF LoadPage
  <2>2. CASE register_client(c)
    BY <1>0, <2>2, Registered DEF register_client, SessionType
  <2>3. CASE remove_client(c)
    BY <1>0, <2>3, Removed DEF remove_client, SessionType
  <2>4. CASE ReceivePush(c) \/ (\E r \in Routes : requestLazy(c, r))
             \/ \E k \in page[c].chunks : ReceiveChunk(c, k)
    BY <1>1, <2>4 DEF ReceivePush, requestLazy, ReceiveChunk
  <2>5. CASE \E f \in page[c].ran : notify_payload_delivered(c, f)
    BY <1>0, <2>5, Notified DEF notify_payload_delivered, SessionType
  <2> QED BY <1>7, <2>1, <2>2, <2>3, <2>4, <2>5 DEF ClientStep
<1>8. CASE \/ \E m \in Modules : Edit(m)
           \/ \E files \in SUBSET events, rebuild \in BOOLEAN : StartHmr(files, rebuild)
           \/ ComputeFails \/ HmrDone \/ StartRebuild \/ Rebuild
           \/ \E c \in Clients, r \in Routes : StartLazy(c, r)
           \/ UNCHANGED vars
  BY <1>1, <1>8 DEF Edit, StartHmr, ComputeFails, HmrDone, StartRebuild, Rebuild, StartLazy, vars
<1> QED BY <1>2, <1>3, <1>5, <1>6, <1>7, <1>8 DEF Next

\* Stamps are numbers.
LEMMA LatestType ==
  ASSUME TypeInv
  PROVE  latest \in [Modules -> Nat]
<1>1. rebuild_seq \in Nat /\ latest \in [Modules -> 0 .. rebuild_seq]
      /\ 0 .. rebuild_seq \subseteq Nat
  BY DEF TypeInv, GraphType
<1> QED BY <1>1

\* The task keeps its type and shape.
LEMMA NextTaskType ==
  ASSUME TypeInv, [Next]_vars
  PROVE  task' \in Tasks /\ TaskShape'
<1>0. task \in Tasks /\ TaskShape
  BY DEF TypeInv
<1>1. DOMAIN graph \subseteq DOMAIN graph'
  BY NextGraphType
<1>2. CASE UNCHANGED task
  BY <1>0, <1>1, <1>2 DEF TaskShape
<1>3. CASE task' = Idle
  BY <1>3, EmptyMap DEF Idle, Tasks, TaskShape, SessionMaps, Updates, Phases
<1>4. CASE \E files \in SUBSET events, rebuild \in BOOLEAN : StartHmr(files, rebuild)
  <2>1. /\ task' \in Tasks /\ task'.phase = "compute" /\ task'.files \subseteq events
        /\ DOMAIN task'.updates = {}
    BY <1>4, HmrStarted
  <2>2. events \subseteq DOMAIN graph
    BY DEF TypeInv, GraphType
  <2> QED BY <1>1, <2>1, <2>2 DEF TaskShape
<1>5. CASE ComputeFails \/ HmrDone
  <2>1. CASE task' = Idle
    BY <1>3, <2>1
  <2>2. CASE \/ task' = [task EXCEPT !.phase = "rebuild"]
             \/ task' = [task EXCEPT !.phase = "rebuild", !.hmr_errored = TRUE]
    <3>1. task.phase \in {"compute", "publish"}
      BY <1>5 DEF ComputeFails, HmrDone
    <3> QED BY <1>0, <1>1, <2>2, <3>1 DEF Tasks, TaskShape, Phases
  <2> QED BY <1>5, <2>1, <2>2 DEF ComputeFails, HmrDone, EndTask
<1>6. CASE Compute
  <2>1. PICK changed \in SUBSET Modules, updates \in Updates :
          /\ task' = [task EXCEPT !.phase = "number", !.changed = changed,
                                  !.updates = updates]
          /\ DOMAIN updates \subseteq DOMAIN task.snapshot
    BY <1>6, Computed
  <2>2. task.phase = "compute"
    BY <1>6 DEF Compute
  <2> QED BY <1>0, <1>1, <2>1, <2>2 DEF Tasks, TaskShape, Phases
<1>7. CASE NumberPatches
  <2>1. PICK updates \in Updates :
          /\ task' = [task EXCEPT !.phase = "publish", !.updates = updates]
          /\ DOMAIN updates = DOMAIN task.updates
    BY <1>7, NumberedPatches
  <2>2. task.phase = "number"
    BY <1>7 DEF NumberPatches
  <2> QED BY <1>0, <1>1, <2>1, <2>2 DEF Tasks, TaskShape, Phases
<1>8. CASE \E c \in Clients : PublishPatch(c)
  <2>1. PICK c \in Clients : PublishPatch(c)
    BY <1>8
  <2>2. PICK updates \in Updates : /\ task' = [task EXCEPT !.updates = updates]
                                   /\ DOMAIN updates = DOMAIN task.updates \ {c}
    BY <2>1, Published
  <2>3. task.phase = "publish"
    BY <2>1 DEF PublishPatch
  <2> QED BY <1>0, <1>1, <2>2, <2>3 DEF Tasks, TaskShape
<1>9. CASE StartRebuild
  BY <1>9, EmptyMap DEF StartRebuild, Idle, Tasks, TaskShape, SessionMaps, Updates, Phases
<1>10. CASE Rebuild \/ CompileLazyEntry
  BY <1>3, <1>10 DEF Rebuild, CompileLazyEntry, EndTask
<1>11. CASE \E c \in Clients, r \in Routes : StartLazy(c, r)
  BY <1>11, LazyStarted DEF TaskShape
<1>12. CASE (\E m \in Modules : Edit(m)) \/ (\E c \in Clients : ClientStep(c)) \/ UNCHANGED vars
  BY <1>2, <1>12 DEF Edit, ClientStep, LoadPage, register_client, remove_client, ReceivePush,
     requestLazy, ReceiveChunk, notify_payload_delivered, vars
<1> QED BY <1>4, <1>5, <1>6, <1>7, <1>8, <1>9, <1>10, <1>11, <1>12 DEF Next

\* Pages keep their type.
LEMMA NextPageType ==
  ASSUME TypeInv, [Next]_vars
  PROVE  page' \in [Clients -> Pages]
<1>0. page \in [Clients -> Pages]
  BY DEF TypeInv
<1>1. CASE \E c \in Clients : PublishPatch(c)
  BY <1>1, Published
<1>2. CASE CompileLazyEntry
  BY <1>2, Handed
<1>3. CASE \E c \in Clients, r \in Routes : StartLazy(c, r)
  BY <1>3, LazyStarted
<1>4. ASSUME NEW c \in Clients, ClientStep(c) PROVE page' \in [Clients -> Pages]
  <2>1. CASE LoadPage(c)
    BY <2>1, Loaded
  <2>2. CASE remove_client(c)
    BY <2>2, Removed
  <2>3. CASE ReceivePush(c)
    <3>1. page' = [page EXCEPT ![c] = page'[c]]
      BY <2>3, ReceivedPush
    <3>2. NoPage("gap") \in Pages /\ NoPage("reload") \in Pages
      BY NoPageType DEF PageStates
    <3>3. page'[c] \in Pages
      BY <2>3, <3>2, ReceivedPush DEF Took
    <3> QED BY <1>0, <3>1, <3>3
  <2>4. CASE \E r \in Routes : requestLazy(c, r)
    <3>1. page' = [page EXCEPT ![c] = page'[c]] /\ page'[c] \in Pages
      BY <2>4, RequestedLazy DEF Ran
    <3> QED BY <1>0, <3>1
  <2>5. CASE \E k \in page[c].chunks : ReceiveChunk(c, k)
    <3>1. PICK q : page' = [page EXCEPT ![c] = q]
      BY <2>5 DEF ReceiveChunk
    <3>2. page'[c] \in Pages
      BY <2>5, ReceivedChunk DEF Took
    <3> QED BY <1>0, <3>1, <3>2
  <2>6. CASE register_client(c) \/ \E f \in page[c].ran : notify_payload_delivered(c, f)
    BY <1>0, <2>6 DEF register_client, notify_payload_delivered
  <2> QED BY <1>4, <2>1, <2>2, <2>3, <2>4, <2>5, <2>6 DEF ClientStep
<1>5. CASE \/ \E m \in Modules : Edit(m)
           \/ \E files \in SUBSET events, rebuild \in BOOLEAN : StartHmr(files, rebuild)
           \/ ComputeFails \/ Compute \/ NumberPatches \/ HmrDone \/ StartRebuild \/ Rebuild
           \/ UNCHANGED vars
  BY <1>0, <1>5 DEF Edit, StartHmr, ComputeFails, Compute, NumberPatches, HmrDone,
     StartRebuild, Rebuild, vars
<1> QED BY <1>1, <1>2, <1>3, <1>4, <1>5 DEF Next

\* What is sent to a page has been scanned.
LEMMA RenderedScanned ==
  ASSUME NEW g, IsGraph(g), NEW lat \in [Modules -> Nat], NEW carried, Rendered(carried, g, lat)
  PROVE  /\ carried \in CopyMaps /\ DOMAIN carried \subseteq DOMAIN g
         /\ \A m \in DOMAIN carried :
              carried[m].stamp = lat[m] /\ carried[m].code = render_module_code(g, m)
BY PayloadOf DEF Rendered

\* Modules recorded for a page have been scanned.
LEMMA NextScanned ==
  ASSUME TypeInv, [Next]_vars
  PROVE  Scanned'
<1> DEFINE ClientsScanned == \A c \in DOMAIN clients' : DOMAIN clients'[c].shipped \subseteq DOMAIN graph'
           SnapshotScanned == \A c \in DOMAIN task'.snapshot :
                                DOMAIN task'.snapshot[c].shipped \subseteq DOMAIN graph'
           UpdatesScanned == \A c \in DOMAIN task'.updates :
                               DOMAIN task'.updates[c].carried \subseteq DOMAIN graph'
           PendingScanned == \A f \in DOMAIN pending_payloads' :
                               DOMAIN pending_payloads'[f].modules \subseteq DOMAIN graph'
<1>0. /\ Scanned /\ DOMAIN graph \subseteq DOMAIN graph'
      /\ \A c \in DOMAIN clients : DOMAIN clients[c].shipped \subseteq DOMAIN graph'
      /\ \A c \in DOMAIN task.snapshot : DOMAIN task.snapshot[c].shipped \subseteq DOMAIN graph'
      /\ \A c \in DOMAIN task.updates : DOMAIN task.updates[c].carried \subseteq DOMAIN graph'
      /\ \A f \in DOMAIN pending_payloads : DOMAIN pending_payloads[f].modules \subseteq DOMAIN graph'
  BY NextGraphType DEF TypeInv, Scanned
<1>1. ClientsScanned
  <2>1. CASE UNCHANGED clients
    BY <1>0, <2>1
  <2>2. CASE NumberPatches
    BY <1>0, <2>2, NumberedPatches
  <2>3. ASSUME NEW c \in Clients, register_client(c) PROVE ClientsScanned
    <3>1. DOMAIN NewSession.shipped = {}
      BY EmptySeq DEF NewSession
    <3> QED BY <1>0, <2>3, <3>1, Registered
  <2>4. CASE \E c \in Clients : remove_client(c)
    BY <1>0, <2>4, Removed
  <2>5. ASSUME NEW c \in Clients, NEW f, notify_payload_delivered(c, f) PROVE ClientsScanned
    <3>1. c \in DOMAIN clients =>
            DOMAIN clients'[c].shipped
              = DOMAIN clients[c].shipped \cup DOMAIN pending_payloads[f].modules
      <4> SUFFICES ASSUME c \in DOMAIN clients
                   PROVE  DOMAIN clients'[c].shipped
                            = DOMAIN clients[c].shipped \cup DOMAIN pending_payloads[f].modules
        OBVIOUS
      <4>1. clients[c].shipped \in StampMaps
        BY ServerFields DEF Sessions
      <4>2. pending_payloads[f].modules \in StampMaps
        BY <2>5, Notified DEF TypeInv, SessionType, Payloads
      <4>3. clients'[c].shipped = MaxMerge(clients[c].shipped, pending_payloads[f].modules)
        BY <2>5, Notified
      <4>4. DOMAIN MaxMerge(clients[c].shipped, pending_payloads[f].modules)
              = DOMAIN clients[c].shipped \cup DOMAIN pending_payloads[f].modules
        BY <4>1, <4>2, MergedStamps
      <4> QED BY <4>3, <4>4
    <3>2. f \in DOMAIN pending_payloads /\ DOMAIN clients' = DOMAIN clients
          /\ \A d \in DOMAIN clients : d # c => clients'[d] = clients[d]
      BY <2>5, Notified
    <3> QED BY <1>0, <3>1, <3>2
  <2>6. CASE \/ \E m \in Modules : Edit(m)
             \/ \E files \in SUBSET events, rebuild \in BOOLEAN : StartHmr(files, rebuild)
             \/ ComputeFails \/ Compute \/ HmrDone \/ StartRebuild \/ Rebuild \/ CompileLazyEntry
             \/ \E c \in Clients : PublishPatch(c) \/ LoadPage(c) \/ ReceivePush(c)
             \/ \E c \in Clients, r \in Routes : StartLazy(c, r) \/ requestLazy(c, r)
             \/ \E c \in Clients : \E k \in page[c].chunks : ReceiveChunk(c, k)
             \/ UNCHANGED vars
    <3>1. UNCHANGED clients
      BY <2>6 DEF Edit, StartHmr, ComputeFails, Compute, HmrDone, StartRebuild, Rebuild,
         CompileLazyEntry, PublishPatch, LoadPage, ReceivePush, StartLazy, requestLazy,
         ReceiveChunk, vars
    <3> QED BY <2>1, <3>1
  <2> HIDE DEF ClientsScanned
  <2> QED BY <2>2, <2>3, <2>4, <2>5, <2>6 DEF Next, ClientStep
<1>2. PendingScanned
  <2>1. CASE UNCHANGED pending_payloads
    BY <1>0, <2>1
  <2>2. CASE \E c \in Clients : PublishPatch(c)
    <3>1. PICK c \in Clients : PublishPatch(c)
      BY <2>2
    <3>2. /\ NewPending(Stamps(task.updates[c].carried)) /\ c \in DOMAIN task.updates
          /\ task.updates[c].carried \in CopyMaps
      BY <3>1, Published, ServerFields
    <3>3. DOMAIN Stamps(task.updates[c].carried) \subseteq DOMAIN graph'
      BY <1>0, <3>2, StampsOf
    <3> QED BY <1>0, <3>2, <3>3 DEF NewPending
  <2>3. CASE CompileLazyEntry
    <3>1. PICK k \in Chunks : Rendered(k.carried, graph', latest) /\ NewPending(Stamps(k.carried))
      BY <2>3, Handed
    <3>2. IsGraph(graph')
      BY <2>3, Compiled
    <3>3. latest \in [Modules -> Nat]
      BY LatestType
    <3>4. DOMAIN Stamps(k.carried) \subseteq DOMAIN graph'
      BY <3>1, <3>2, <3>3, RenderedScanned, StampsOf
    <3> QED BY <1>0, <3>1, <3>4 DEF NewPending
  <2>4. CASE \E c \in Clients :
               remove_client(c) \/ \E f \in page[c].ran : notify_payload_delivered(c, f)
    <3>1. DOMAIN pending_payloads' \subseteq DOMAIN pending_payloads
          /\ \A f \in DOMAIN pending_payloads' : pending_payloads'[f] = pending_payloads[f]
      <4>1. ASSUME NEW c \in Clients, remove_client(c)
            PROVE  DOMAIN pending_payloads' \subseteq DOMAIN pending_payloads
                   /\ \A f \in DOMAIN pending_payloads' : pending_payloads'[f] = pending_payloads[f]
        BY <4>1, Removed
      <4>2. ASSUME NEW c \in Clients, NEW g, notify_payload_delivered(c, g)
            PROVE  DOMAIN pending_payloads' \subseteq DOMAIN pending_payloads
                   /\ \A f \in DOMAIN pending_payloads' : pending_payloads'[f] = pending_payloads[f]
        BY <4>2, Notified
      <4> QED BY <2>4, <4>1, <4>2
    <3> QED BY <1>0, <3>1
  <2>5. CASE \/ \E m \in Modules : Edit(m)
             \/ \E files \in SUBSET events, rebuild \in BOOLEAN : StartHmr(files, rebuild)
             \/ ComputeFails \/ Compute \/ NumberPatches \/ HmrDone \/ StartRebuild \/ Rebuild
             \/ \E c \in Clients : LoadPage(c) \/ register_client(c) \/ ReceivePush(c)
             \/ \E c \in Clients, r \in Routes : StartLazy(c, r) \/ requestLazy(c, r)
             \/ \E c \in Clients : \E k \in page[c].chunks : ReceiveChunk(c, k)
             \/ UNCHANGED vars
    <3>1. UNCHANGED pending_payloads
      BY <2>5 DEF Edit, StartHmr, ComputeFails, Compute, NumberPatches, HmrDone, StartRebuild,
         Rebuild, LoadPage, register_client, ReceivePush, StartLazy, requestLazy,
         ReceiveChunk, vars
    <3> QED BY <2>1, <3>1
  <2> HIDE DEF PendingScanned
  <2> QED BY <2>2, <2>3, <2>4, <2>5 DEF Next, ClientStep
<1>3. SnapshotScanned /\ UpdatesScanned
  <2>1. CASE UNCHANGED task \/ task' = Idle \/ StartRebuild
    <3>1. CASE UNCHANGED task
      BY <1>0, <3>1
    <3>2. CASE task' = Idle \/ StartRebuild
      <4>1. DOMAIN Idle.snapshot = {} /\ DOMAIN Idle.updates = {} /\ Idle \in Tasks
        BY IdleType
      <4>2. DOMAIN task'.snapshot = {} /\ DOMAIN task'.updates = {}
        BY <3>2, <4>1 DEF StartRebuild, Tasks
      <4> QED BY <4>2
    <3> QED BY <2>1, <3>1, <3>2
  <2>2. CASE \E files \in SUBSET events, rebuild \in BOOLEAN : StartHmr(files, rebuild)
    BY <1>0, <2>2, HmrStarted
  <2>3. CASE ComputeFails \/ HmrDone
    <3>1. CASE \/ task' = [task EXCEPT !.phase = "rebuild"]
               \/ task' = [task EXCEPT !.phase = "rebuild", !.hmr_errored = TRUE]
      BY <1>0, <3>1 DEF TypeInv, Tasks
    <3> QED BY <2>1, <2>3, <3>1 DEF ComputeFails, HmrDone, EndTask
  <2>4. CASE Compute
    <3>1. PICK changed \in SUBSET Modules, updates \in Updates :
            /\ task' = [task EXCEPT !.phase = "number", !.changed = changed,
                                    !.updates = updates]
            /\ \A c \in DOMAIN updates : Rendered(updates[c].carried, graph', latest')
      BY <2>4, Computed
    <3>2. IsGraph(graph') /\ latest' \in [Modules -> Nat]
      <4>1. /\ IsGraph(graph') /\ latest' \in [Modules -> 0 .. rebuild_seq']
            /\ rebuild_seq' = rebuild_seq + 1
        BY <2>4, Computed
      <4>2. 0 .. rebuild_seq' \subseteq Nat
        BY <4>1 DEF TypeInv, GraphType
      <4> QED BY <4>1, <4>2
    <3>3. \A c \in DOMAIN updates : DOMAIN updates[c].carried \subseteq DOMAIN graph'
      BY <3>1, <3>2, RenderedScanned
    <3>4. task'.updates = updates /\ task'.snapshot = task.snapshot
      BY <3>1 DEF TypeInv, Tasks
    <3> QED BY <1>0, <3>3, <3>4
  <2>5. CASE NumberPatches
    <3>1. PICK updates \in Updates :
            /\ task' = [task EXCEPT !.phase = "publish", !.updates = updates]
            /\ DOMAIN updates = DOMAIN task.updates
            /\ \A c \in DOMAIN updates : updates[c].carried = task.updates[c].carried
      BY <2>5, NumberedPatches
    <3>2. task'.updates = updates /\ task'.snapshot = task.snapshot
      BY <3>1 DEF TypeInv, Tasks
    <3> QED BY <1>0, <3>1, <3>2
  <2>6. CASE \E c \in Clients : PublishPatch(c)
    <3>1. PICK c \in Clients : PublishPatch(c)
      BY <2>6
    <3>2. PICK updates \in Updates :
            /\ task' = [task EXCEPT !.updates = updates]
            /\ DOMAIN updates = DOMAIN task.updates \ {c}
            /\ \A d \in DOMAIN updates : updates[d] = task.updates[d]
      BY <3>1, Published
    <3>3. task'.updates = updates /\ task'.snapshot = task.snapshot
      BY <3>2 DEF TypeInv, Tasks
    <3> QED BY <1>0, <3>2, <3>3
  <2>7. CASE \E c \in Clients, r \in Routes : StartLazy(c, r)
    <3>1. PICK c \in Clients, r \in Routes : StartLazy(c, r)
      BY <2>7
    <3>2. DOMAIN <<>> = {}
      BY EmptySeq
    <3> QED BY <1>0, <3>1, <3>2, LazyStarted
  <2>8. CASE \/ \E m \in Modules : Edit(m)
             \/ \E c \in Clients : ClientStep(c)
             \/ Rebuild \/ CompileLazyEntry
             \/ UNCHANGED vars
    <3>1. UNCHANGED task \/ task' = Idle
      BY <2>8 DEF Edit, ClientStep, LoadPage, register_client, remove_client, ReceivePush,
         requestLazy, ReceiveChunk, notify_payload_delivered, Rebuild, CompileLazyEntry,
         EndTask, vars
    <3> QED BY <2>1, <3>1
  <2> HIDE DEF SnapshotScanned, UpdatesScanned
  <2> QED BY <2>1, <2>2, <2>3, <2>4, <2>5, <2>6, <2>7, <2>8 DEF Next
<1> QED BY <1>1, <1>2, <1>3 DEF Scanned

\* No step breaks the type invariant.
LEMMA NextType == TypeInv /\ [Next]_vars => TypeInv'
BY NextGraphType, NextSessionType, NextTaskType, NextPageType, NextScanned DEF TypeInv

\* It holds in every reachable state.
LEMMA TypeInvariant == Spec => []TypeInv
BY InitType, NextType, PTL DEF Spec

\* Every variable keeps its type: stamps are never ahead of the rebuild counter, the
\* graph has all its imports, and what is recorded, on its way or held in a page is
\* well formed, for any modules, routes, clients and failures (DevContext,
\* HmrStampTable, ClientSession, PendingPayload).
THEOREM TypeCorrect == Spec => []TypeOK
<1>1. TypeInv => TypeOK
  <2> SUFFICES ASSUME TypeInv PROVE TypeOK
    OBVIOUS
  <2>1. \A s \in StampMaps : IsStamps(s)
    BY MapFields DEF StampMaps, IsStamps
  <2>2. \A f \in CopyMaps : IsCopies(f)
    BY CopyFields DEF IsCopies, Held
  <2>3. \A c \in DOMAIN clients : /\ IsStamps(clients[c].shipped)
                                  /\ IsStamps(clients[c].evaluated)
                                  /\ clients[c].next_seq \in Nat
    BY <2>1, ServerFields DEF Sessions
  <2>4. \A f \in DOMAIN pending_payloads : IsStamps(pending_payloads[f].modules)
    BY <2>1 DEF TypeInv, SessionType, Payloads
  <2>5. IsStamps(top_level_evaluated)
    BY <2>1, NewSessionType
  <2>6. \A c \in Clients : /\ page[c].st \in PageStates
                           /\ IsCopies(page[c].cache) /\ IsCopies(page[c].factories)
    BY <2>2 DEF TypeInv, Pages
  <2>7. DOMAIN clients \subseteq Clients /\ missed \in [Clients -> SUBSET Reasons]
        /\ DOMAIN pending_payloads \subseteq 0 .. next_hmr_patch_id
    BY ServerFields DEF TypeInv, SessionType
  <2> QED BY <2>3, <2>4, <2>5, <2>6, <2>7
          DEF TypeInv, GraphType, IsGraph, TypeOK, Tasks, Phases, PageStates
<1> QED BY <1>1, TypeInvariant, PTL

-----------------------------------------------------------------------------
(* Sequence numbers: the proof. *)

\* A step that leaves what the page, the session and the task know of the numbers of c.
PageFrame(c) ==
  /\ page'[c].st = page[c].st
  /\ page'[c].last_seq = page[c].last_seq /\ page'[c].inbox = page[c].inbox
  /\ page[c].st = "none" => page'[c] = page[c]
SessionFrame(c) ==
  /\ c \in DOMAIN clients' <=> c \in DOMAIN clients
  /\ c \in DOMAIN clients => clients'[c].next_seq = clients[c].next_seq
TaskFrame(c) ==
  \/ task' = task
  \/ /\ ~Numbered(c) /\ ~Numbered(c)'
     /\ c \in DOMAIN task'.snapshot =>
          \/ c \in DOMAIN clients
          \/ c \in DOMAIN task.snapshot /\ (task'.phase \in Updating => task.phase \in Updating)
          \/ page[c].st # "none" /\ task'.phase = "lazy"

\* Such a step keeps the numbers of c in order.
LEMMA SeqFrame ==
  ASSUME NEW c \in Clients, SeqOf(c), PageFrame(c), SessionFrame(c), TaskFrame(c)
  PROVE  SeqOf(c)'
<1>1. CASE task' = task
  BY <1>1 DEF SeqOf, PageFrame, SessionFrame, Numbered, Queued
<1>2. CASE task' # task
  <2>1. /\ ~Numbered(c) /\ ~Numbered(c)'
        /\ c \in DOMAIN task'.snapshot =>
             \/ c \in DOMAIN clients
             \/ c \in DOMAIN task.snapshot /\ (task'.phase \in Updating => task.phase \in Updating)
             \/ page[c].st # "none" /\ task'.phase = "lazy"
    BY <1>2 DEF TaskFrame
  <2>2. "lazy" \notin Updating
    BY DEF Updating
  <2> QED BY <2>1, <2>2 DEF SeqOf, PageFrame, SessionFrame, Queued
<1> QED BY <1>1, <1>2

\* The steps of a task between the first and the last number of a hot update.
LEMMA TaskSeq ==
  ASSUME TypeInv, SeqInv,
         \/ \E m \in Modules : Edit(m)
         \/ \E files \in SUBSET events, rebuild \in BOOLEAN : StartHmr(files, rebuild)
         \/ ComputeFails \/ Compute \/ HmrDone \/ StartRebuild \/ Rebuild \/ UNCHANGED vars
  PROVE  SeqInv'
<1> SUFFICES ASSUME NEW c \in Clients
             PROVE  SeqOf(c)'
  BY DEF SeqInv
<1>0. SeqOf(c) /\ task \in Tasks
  BY DEF SeqInv, TypeInv
<1>1. PageFrame(c) /\ SessionFrame(c)
  <2>1. UNCHANGED <<page, clients>>
    BY DEF Edit, StartHmr, ComputeFails, Compute, HmrDone, StartRebuild, Rebuild, vars
  <2> QED BY <2>1 DEF PageFrame, SessionFrame
<1>2. TaskFrame(c)
  <2>1. CASE \/ \E m \in Modules : Edit(m)
             \/ UNCHANGED vars
    BY <2>1 DEF TaskFrame, Edit, vars
  <2>2. ASSUME NEW files \in SUBSET events, NEW rebuild \in BOOLEAN, StartHmr(files, rebuild)
        PROVE  TaskFrame(c)
    <3>1. task.phase = "idle" /\ task'.phase = "compute" /\ task'.snapshot = clients
      BY <2>2, HmrStarted DEF StartHmr
    <3> QED BY <3>1 DEF TaskFrame, Numbered
  <2>3. CASE ComputeFails \/ HmrDone \/ StartRebuild \/ Rebuild
    <3>1. ~Numbered(c)
      <4>1. task.phase # "publish" \/ task.updates = <<>>
        BY <2>3 DEF ComputeFails, HmrDone, StartRebuild, Rebuild
      <4> QED BY <4>1, EmptySeq DEF Numbered
    <3>2. \/ task'.phase = "rebuild" /\ task'.snapshot = task.snapshot
          \/ task'.phase \in {"idle", "rebuild"} /\ DOMAIN task'.snapshot = {}
      <4>1. CASE task' = Idle \/ StartRebuild
        BY <4>1, IdleType DEF StartRebuild, Tasks
      <4>2. CASE \/ task' = [task EXCEPT !.phase = "rebuild"]
                 \/ task' = [task EXCEPT !.phase = "rebuild", !.hmr_errored = TRUE]
        BY <1>0, <4>2 DEF Tasks
      <4> QED BY <2>3, <4>1, <4>2 DEF ComputeFails, HmrDone, Rebuild, EndTask
    <3> QED BY <3>1, <3>2 DEF TaskFrame, Numbered, Updating
  <2>4. CASE Compute
    <3>1. task.phase = "compute" /\ task'.phase = "number" /\ task'.snapshot = task.snapshot
      <4>1. PICK changed \in SUBSET Modules, updates \in Updates :
              task' = [task EXCEPT !.phase = "number", !.changed = changed, !.updates = updates]
        BY <2>4, Computed
      <4> QED BY <1>0, <2>4, <4>1, Computed DEF Tasks
    <3> QED BY <3>1 DEF TaskFrame, Numbered, Updating
  <2> QED BY <2>1, <2>2, <2>3, <2>4
<1> QED BY <1>0, <1>1, <1>2, SeqFrame

\* A number is taken for every client that is to get a patch.
LEMMA NumberSeq ==
  ASSUME TypeInv, SeqInv, NumberPatches
  PROVE  SeqInv'
<1> SUFFICES ASSUME NEW c \in Clients
             PROVE  SeqOf(c)'
  BY DEF SeqInv
<1>0. SeqOf(c) /\ task \in Tasks
  BY DEF SeqInv, TypeInv
<1>1. PICK updates \in Updates :
        /\ task' = [task EXCEPT !.phase = "publish", !.updates = updates]
        /\ DOMAIN updates = DOMAIN task.updates
        /\ \A d \in DOMAIN updates :
             d \in DOMAIN clients => updates[d].seq = clients[d].next_seq + 1
  BY NumberedPatches
<1>2. task'.phase = "publish" /\ task'.updates = updates /\ task'.snapshot = task.snapshot
  BY <1>0, <1>1 DEF Tasks
<1>3. page' = page /\ task.phase = "number"
  BY DEF NumberPatches
<1>4. DOMAIN clients' = DOMAIN clients
      /\ \A d \in DOMAIN clients :
           clients'[d].next_seq = IF d \in DOMAIN task.updates THEN clients[d].next_seq + 1
                                  ELSE clients[d].next_seq
  BY NumberedPatches
<1>5. CASE c \notin DOMAIN task.updates
  <2>1. TaskFrame(c)
    BY <1>1, <1>2, <1>3, <1>5 DEF TaskFrame, Numbered, Updating
  <2>2. PageFrame(c) /\ SessionFrame(c)
    BY <1>3, <1>4, <1>5 DEF PageFrame, SessionFrame
  <2> QED BY <1>0, <2>1, <2>2, SeqFrame
<1>6. CASE c \in DOMAIN task.updates
  <2>1. Numbered(c)' /\ ~Numbered(c)
    BY <1>1, <1>2, <1>3, <1>6 DEF Numbered
  <2>2. c \in DOMAIN clients => task'.updates[c].seq = clients'[c].next_seq
                                /\ clients'[c].next_seq = clients[c].next_seq + 1
    BY <1>1, <1>2, <1>4, <1>6
  <2>3. task.phase \in Updating
    BY <1>3 DEF Updating
  <2> QED BY <1>0, <1>2, <1>3, <1>4, <2>1, <2>2, <2>3 DEF SeqOf, Queued
<1> QED BY <1>5, <1>6

\* The patch with the last number goes to the end of the queue.
LEMMA PublishSeq ==
  ASSUME TypeInv, SeqInv, NEW d \in Clients, PublishPatch(d)
  PROVE  SeqInv'
<1> SUFFICES ASSUME NEW c \in Clients
             PROVE  SeqOf(c)'
  BY DEF SeqInv
<1>0. SeqOf(c) /\ task \in Tasks /\ page[c] \in Pages /\ TaskShape
  BY DEF SeqInv, TypeInv
<1>1. PICK updates \in Updates :
        /\ task' = [task EXCEPT !.updates = updates]
        /\ DOMAIN updates = DOMAIN task.updates \ {d}
        /\ \A e \in DOMAIN updates : updates[e] = task.updates[e]
  BY Published
<1>2. /\ task'.phase = "publish" /\ task.phase = "publish" /\ task'.updates = updates
      /\ task'.snapshot = task.snapshot /\ d \in DOMAIN task.updates
  BY <1>0, <1>1, Published DEF Tasks
<1>3. clients' = clients
  BY DEF PublishPatch
<1>4. CASE c # d
  <2>1. page'[c] = page[c]
    BY <1>4, Published
  <2>2. Numbered(c)' <=> Numbered(c)
    BY <1>1, <1>2, <1>4 DEF Numbered
  <2>3. Numbered(c) => task'.updates[c] = task.updates[c]
    BY <1>1, <1>2, <1>4 DEF Numbered
  <2> QED BY <1>0, <1>2, <1>3, <2>1, <2>2, <2>3 DEF SeqOf, Queued
<1>5. CASE c = d
  <2>1. Numbered(c) /\ ~Numbered(c)' /\ c \in DOMAIN task.snapshot
    BY <1>0, <1>1, <1>2, <1>5 DEF Numbered, TaskShape
  <2>2. CASE page[c].st # "live"
    <3>1. page'[c] = page[c]
      BY <1>5, <2>2, Published
    <3> QED BY <1>0, <1>2, <1>3, <2>2, <3>1 DEF SeqOf
  <2>3. CASE page[c].st = "live"
    <3>1. page'[c] = [page[c] EXCEPT !.inbox = Append(page[c].inbox, NewPush(c))]
          /\ NewPush(c) \in Pushes
      BY <1>5, <2>3, Published
    <3>2. /\ page'[c].st = "live" /\ page'[c].last_seq = page[c].last_seq
          /\ page'[c].inbox = Append(page[c].inbox, NewPush(c))
          /\ page[c].inbox \in Seq(Pushes) /\ page[c].last_seq \in Nat
      BY <1>0, <2>3, <3>1 DEF Pages
    <3>3. /\ Len(page'[c].inbox) = Len(page[c].inbox) + 1 /\ Len(page[c].inbox) \in Nat
          /\ page'[c].inbox[Len(page[c].inbox) + 1] = NewPush(c)
          /\ \A i \in 1 .. Len(page[c].inbox) : page'[c].inbox[i] = page[c].inbox[i]
          /\ DOMAIN page'[c].inbox = 1 .. Len(page[c].inbox) + 1
          /\ DOMAIN page[c].inbox = 1 .. Len(page[c].inbox)
      BY <3>1, <3>2, AppendProperties, LenProperties
    <3>4. c \in DOMAIN clients
      BY <1>0, <1>2, <2>1, <2>3 DEF SeqOf, Updating
    <3>5. /\ clients[c].next_seq = page[c].last_seq + Len(page[c].inbox) + 1
          /\ task.updates[c].seq = clients[c].next_seq
      BY <1>0, <2>1, <2>3, <3>4 DEF SeqOf, Queued
    <3>6. NewPush(c).seq = page[c].last_seq + (Len(page[c].inbox) + 1)
      BY <3>2, <3>3, <3>5 DEF NewPush
    <3>7. \A i \in DOMAIN page'[c].inbox : page'[c].inbox[i].seq = page'[c].last_seq + i
      <4>1. \A i \in DOMAIN page[c].inbox : page[c].inbox[i].seq = page[c].last_seq + i
        BY <1>0, <2>3 DEF SeqOf
      <4> QED BY <3>2, <3>3, <3>6, <4>1
    <3>8. clients'[c].next_seq = page'[c].last_seq + Len(page'[c].inbox)
      BY <1>3, <3>2, <3>3, <3>5
    <3> QED BY <1>3, <2>1, <3>2, <3>4, <3>7, <3>8 DEF SeqOf, Queued
  <2> QED BY <2>2, <2>3
<1> QED BY <1>4, <1>5

\* Lazy compiles concern no numbers.
LEMMA LazySeq ==
  ASSUME TypeInv, SeqInv,
         CompileLazyEntry \/ \E d \in Clients, r \in Routes : StartLazy(d, r)
  PROVE  SeqInv'
<1> SUFFICES ASSUME NEW c \in Clients
             PROVE  SeqOf(c)'
  BY DEF SeqInv
<1>0. SeqOf(c) /\ page[c] \in Pages /\ page \in [Clients -> Pages]
  BY DEF SeqInv, TypeInv
<1>1. SessionFrame(c)
  BY DEF SessionFrame, CompileLazyEntry, StartLazy
<1>2. ASSUME NEW d \in Clients, NEW r \in Routes, StartLazy(d, r)
      PROVE  SeqOf(c)'
  <2>0. task.phase = "idle"
    BY <1>2 DEF StartLazy
  <2>1. /\ task'.phase = "lazy" /\ DOMAIN task'.snapshot = {d} /\ page[d].lazy[r] = "sent"
    BY <1>2, LazyStarted
  <2>2. page[d].st # "none"
    <3>1. NoPage("none").lazy[r] = "none"
      BY DEF NoPage
    <3> QED BY <2>1, <3>1 DEF SeqInv, SeqOf
  <2>3. PageFrame(c)
    <3>1. page' = [page EXCEPT ![d].lazy[r] = "served"]
      BY <1>2 DEF StartLazy
    <3> QED BY <1>0, <2>2, <3>1 DEF PageFrame, Pages
  <2>4. TaskFrame(c)
    BY <2>0, <2>1, <2>2 DEF TaskFrame, Numbered
  <2> QED BY <1>0, <1>1, <2>3, <2>4, SeqFrame
<1>3. CASE CompileLazyEntry
  <2>1. task.phase = "lazy" /\ task' = Idle
    BY <1>3, Compiled
  <2>2. TaskFrame(c)
    BY <2>1, IdleType DEF TaskFrame, Numbered
  <2>3. PageFrame(c)
    <3>1. PICK d \in Clients, k \in Chunks :
            /\ \A e \in Clients \ {d} : page'[e] = page[e]
            /\ page[d].st # "live" => page'[d] = page[d]
            /\ page[d].st = "live" =>
                 page'[d] = [page[d] EXCEPT !.chunks = page[d].chunks \cup {k}]
      BY <1>3, Handed
    <3> QED BY <1>0, <3>1 DEF PageFrame, Pages
  <2> QED BY <1>0, <1>1, <2>2, <2>3, SeqFrame
<1> QED BY <1>2, <1>3

\* The steps of the pages.
LEMMA ClientSeq ==
  ASSUME TypeInv, SeqInv, NEW d \in Clients, ClientStep(d)
  PROVE  SeqInv'
<1> SUFFICES ASSUME NEW c \in Clients
             PROVE  SeqOf(c)'
  BY DEF SeqInv
<1>0. SeqOf(c) /\ SeqOf(d) /\ page[c] \in Pages /\ page[d] \in Pages
      /\ page \in [Clients -> Pages]
  BY DEF SeqInv, TypeInv
<1>1. TaskFrame(c) /\ task' = task
  BY DEF TaskFrame, ClientStep, LoadPage, register_client, remove_client, ReceivePush,
     requestLazy, ReceiveChunk, notify_payload_delivered
<1>2. CASE LoadPage(d)
  <2>1. clients' = clients
    BY <1>2 DEF LoadPage
  <2>2. CASE c # d
    BY <1>0, <1>1, <1>2, <2>1, <2>2, Loaded, SeqFrame DEF PageFrame, SessionFrame
  <2>3. CASE c = d
    <3>1. /\ page[c].st = "none" /\ page'[c].st = "live"
          /\ page'[c].last_seq = 0 /\ page'[c].inbox = <<>>
      BY <1>2, <2>3, Loaded
    <3>2. c \notin DOMAIN clients' /\ c \notin DOMAIN task'.snapshot
      BY <1>0, <1>1, <2>1, <3>1 DEF SeqOf
    <3> QED BY <3>1, <3>2, EmptySeq DEF SeqOf
  <2> QED BY <2>2, <2>3
<1>3. CASE register_client(d)
  <2>1. /\ page' = page /\ page[d].st = "live" /\ d \notin DOMAIN clients
        /\ DOMAIN clients' = DOMAIN clients \cup {d} /\ clients'[d] = NewSession
        /\ \A e \in DOMAIN clients : e # d => clients'[e] = clients[e]
    BY <1>3, Registered DEF register_client
  <2>2. CASE c # d
    BY <1>0, <1>1, <2>1, <2>2, SeqFrame DEF PageFrame, SessionFrame
  <2>3. CASE c = d
    <3>1. page[c].last_seq = 0 /\ page[c].inbox = <<>> /\ clients'[c].next_seq = 0
      BY <1>0, <2>1, <2>3 DEF SeqOf, NewSession
    <3>2. Len(page[c].inbox) = 0 /\ DOMAIN page[c].inbox = {}
      BY <3>1, EmptySeq
    <3>3. ~Numbered(c)
      <4>1. DOMAIN task.updates \subseteq DOMAIN task.snapshot
        BY DEF TypeInv, TaskShape
      <4>2. ~(task.phase \in Updating /\ c \in DOMAIN task.snapshot)
        BY <1>0, <2>1, <2>3 DEF SeqOf
      <4> QED BY <4>1, <4>2 DEF Numbered, Updating
    <3>4. ~Numbered(c)'
      BY <1>1, <3>3 DEF Numbered
    <3> QED BY <1>0, <1>1, <2>1, <2>3, <3>1, <3>2, <3>4 DEF SeqOf, Queued
  <2> QED BY <2>2, <2>3
<1>4. CASE remove_client(d)
  <2>1. /\ DOMAIN clients' = DOMAIN clients \ {d}
        /\ \A e \in DOMAIN clients' : clients'[e] = clients[e]
        /\ page'[d] = NoPage("closed")
        /\ \A e \in Clients \ {d} : page'[e] = page[e]
    BY <1>4, Removed
  <2>2. CASE c # d
    BY <1>0, <1>1, <2>1, <2>2, SeqFrame DEF PageFrame, SessionFrame
  <2>3. CASE c = d
    BY <2>1, <2>3 DEF SeqOf, NoPage
  <2> QED BY <2>2, <2>3
<1>5. CASE ReceivePush(d)
  <2>1. clients' = clients
    BY <1>5 DEF ReceivePush
  <2>2. CASE c # d
    <3>1. page'[c] = page[c]
      BY <1>0, <1>5, <2>2, ReceivedPush
    <3> QED BY <1>0, <1>1, <2>1, <3>1, SeqFrame DEF PageFrame, SessionFrame
  <2>3. CASE c = d
    <3> DEFINE push == Head(page[c].inbox)
    <3>1. /\ page[c].inbox \in Seq(Pushes) /\ page[c].inbox # <<>> /\ page[c].st = "live"
          /\ page[c].last_seq \in Nat
      BY <1>0, <1>5, <2>3, ReceivedPush DEF Pages
    <3>2. /\ push = page[c].inbox[1] /\ Len(page[c].inbox) \in Nat \ {0}
          /\ 1 \in DOMAIN page[c].inbox /\ DOMAIN page[c].inbox = 1 .. Len(page[c].inbox)
      BY <3>1, EmptySeq, LenProperties
    <3>3. \A i \in DOMAIN page[c].inbox : page[c].inbox[i].seq = page[c].last_seq + i
      BY <1>0, <3>1 DEF SeqOf
    <3>4. push.seq = page[c].last_seq + 1
      BY <3>2, <3>3
    <3>5. /\ Len(Tail(page[c].inbox)) = Len(page[c].inbox) - 1
          /\ DOMAIN Tail(page[c].inbox) = 1 .. Len(page[c].inbox) - 1
          /\ \A i \in 1 .. Len(page[c].inbox) - 1 :
               Tail(page[c].inbox)[i] = page[c].inbox[i + 1]
      BY <3>1, <3>2, HeadTailProperties, LenProperties
    <3>6. \/ page'[c] = NoPage("reload")
          \/ /\ page'[c].st \in {"live", "broken"} /\ page'[c].last_seq = push.seq
             /\ page'[c].inbox = Tail(page[c].inbox)
      <4> DEFINE p == [page[c] EXCEPT !.inbox = Tail(@), !.last_seq = push.seq]
      <4>1. \/ page'[c] = p \/ Took(p, page'[c], push.file, push.carried)
            \/ page'[c] = NoPage("reload")
        <5> HIDE DEF p, push
        <5> QED BY <1>5, <2>3, <3>4, ReceivedPush DEF p, push
      <4>2. p.st = "live" /\ p.last_seq = push.seq /\ p.inbox = Tail(page[c].inbox)
        BY <1>0, <3>1 DEF Pages
      <4> HIDE DEF p, push
      <4> QED BY <4>1, <4>2 DEF Took
    <3>7. CASE page'[c] = NoPage("reload")
      BY <3>7 DEF SeqOf, NoPage
    <3>8. CASE page'[c].st = "broken"
      BY <3>8 DEF SeqOf
    <3>9. CASE /\ page'[c].st = "live" /\ page'[c].last_seq = push.seq
               /\ page'[c].inbox = Tail(page[c].inbox)
      <4>1. \A i \in DOMAIN page'[c].inbox : page'[c].inbox[i].seq = page'[c].last_seq + i
        <5> HIDE DEF push
        <5> SUFFICES ASSUME NEW i \in 1 .. Len(page[c].inbox) - 1
                     PROVE  Tail(page[c].inbox)[i].seq = page[c].last_seq + 1 + i
          BY <3>4, <3>5, <3>9
        <5>1. i + 1 \in DOMAIN page[c].inbox /\ i \in Nat
          BY <3>2
        <5>2. page[c].inbox[i + 1].seq = page[c].last_seq + (i + 1)
          BY <3>3, <5>1
        <5>3. Tail(page[c].inbox)[i] = page[c].inbox[i + 1]
          BY <3>5
        <5> QED BY <3>1, <5>1, <5>2, <5>3
      <4>2. page'[c].last_seq + Len(page'[c].inbox) = page[c].last_seq + Len(page[c].inbox)
        BY <3>1, <3>2, <3>4, <3>5, <3>9
      <4>3. c \in DOMAIN clients
        BY <1>0, <3>1 DEF SeqOf
      <4>4. Numbered(c)' <=> Numbered(c)
        BY <1>1 DEF Numbered
      <4> HIDE DEF push
      <4> QED BY <1>0, <1>1, <2>1, <3>1, <3>9, <4>1, <4>2, <4>3, <4>4 DEF SeqOf, Queued
    <3> QED BY <3>6, <3>7, <3>8, <3>9
  <2> QED BY <2>2, <2>3
<1>6. CASE \/ \E r \in Routes : requestLazy(d, r)
           \/ \E k \in page[d].chunks : ReceiveChunk(d, k)
  <2>1. clients' = clients
    BY <1>6 DEF requestLazy, ReceiveChunk
  <2>2. /\ \A e \in Clients \ {d} : page'[e] = page[e]
        /\ page[d].st = "live" /\ page'[d].st \in {"live", "broken"}
        /\ page'[d].last_seq = page[d].last_seq /\ page'[d].inbox = page[d].inbox
    <3>1. ASSUME NEW r \in Routes, requestLazy(d, r)
          PROVE  <2>2!:
      BY <3>1, RequestedLazy DEF Ran
    <3>2. ASSUME NEW k, ReceiveChunk(d, k)
          PROVE  <2>2!:
      BY <3>2, ReceivedChunk DEF Took
    <3> QED BY <1>6, <3>1, <3>2
  <2>3. CASE c = d /\ page'[d].st = "broken"
    BY <2>3 DEF SeqOf
  <2>4. CASE c # d \/ page'[d].st = "live"
    BY <1>0, <1>1, <2>1, <2>2, <2>4, SeqFrame DEF PageFrame, SessionFrame
  <2> QED BY <2>2, <2>3, <2>4
<1>7. CASE \E f \in page[d].ran : notify_payload_delivered(d, f)
  <2>1. page' = page /\ DOMAIN clients' = DOMAIN clients
        /\ \A e \in DOMAIN clients : clients'[e].next_seq = clients[e].next_seq
    BY <1>7, Notified DEF notify_payload_delivered
  <2> QED BY <1>0, <1>1, <2>1, SeqFrame DEF PageFrame, SessionFrame
<1> QED BY <1>2, <1>3, <1>4, <1>5, <1>6, <1>7 DEF ClientStep

\* The numbers are in order at first.
LEMMA InitSeq ==
  ASSUME Init
  PROVE  SeqInv
<1>1. /\ page = [c \in Clients |-> NoPage("none")] /\ clients = <<>> /\ task = Idle
  BY DEF Init
<1>2. DOMAIN clients = {} /\ NoPage("none").st = "none"
  BY <1>1, EmptySeq DEF NoPage
<1> QED BY <1>1, <1>2, IdleType DEF SeqInv, SeqOf

\* Every step keeps the numbers in order.
LEMMA NextSeq ==
  ASSUME TypeInv, SeqInv, [Next]_vars
  PROVE  SeqInv'
BY TaskSeq, NumberSeq, PublishSeq, LazySeq, ClientSeq DEF Next

\* A connected page never sees a gap in the numbers of its patches, however long its
\* inbox is and whoever connects or leaves while a hot update is computed, numbered and
\* published (NumberPatches, PublishPatch).
THEOREM NumbersHaveNoGap == Spec => []NoSequenceGap
<1>1. Init => SeqInv
  BY InitSeq
<1>2. TypeInv /\ SeqInv /\ [Next]_vars => SeqInv'
  BY NextSeq
<1>3. SeqInv => NoSequenceGap
  BY DEF SeqInv, SeqOf, NoSequenceGap
<1> QED BY <1>1, <1>2, <1>3, TypeInvariant, PTL DEF Spec

-----------------------------------------------------------------------------
(* What a step does to a page. *)

\* The page has gone.
Gone(c) == \E st \in {"gap", "reload", "closed"} : page'[c] = NoPage(st)

\* Nothing was received for good, and what ran came from the factories in the page.
SameBoot(c) ==
  /\ page'[c].st \in {page[c].st, "broken"} /\ page'[c].boot = page[c].boot
  /\ page'[c].chunks \subseteq page[c].chunks
  /\ page[c].st # "live" => page'[c].cache = page[c].cache
  /\ \A i \in DOMAIN page'[c].inbox :
       \E j \in DOMAIN page[c].inbox : page'[c].inbox[i] = page[c].inbox[j]
  /\ \A m \in DOMAIN page'[c].cache :
       \/ m \in DOMAIN page[c].cache /\ page'[c].cache[m] = page[c].cache[m]
       \/ /\ m \in DOMAIN page'[c].factories
          /\ page'[c].cache[m] = page'[c].factories[m]
Kept(c) ==
  /\ SameBoot(c)
  /\ page'[c].factories = page[c].factories /\ page'[c].ran = page[c].ran

\* The payload of the file f was on its way to the page.
OnItsWay(c, f, carried) ==
  \/ \E k \in page[c].chunks : k.file = f /\ k.carried = carried
  \/ \E i \in DOMAIN page[c].inbox :
       page[c].inbox[i].file = f /\ page[c].inbox[i].carried = carried

\* It was received.
Received(c, f, carried) ==
  /\ SameBoot(c) /\ page[c].st = "live" /\ OnItsWay(c, f, carried)
  /\ page'[c].factories = registerFactory(page[c].factories, carried)
  /\ page'[c].ran = page[c].ran \cup {f}

\* A patch was handed over.
Pushed(c) ==
  /\ PublishPatch(c) /\ page[c].st = "live"
  /\ page'[c] = [page[c] EXCEPT !.inbox = Append(page[c].inbox, NewPush(c))]

\* A lazy chunk was handed over.
HandedOver(c, k) ==
  /\ CompileLazyEntry /\ page[c].st = "live"
  /\ k.file = next_hmr_patch_id /\ Rendered(k.carried, graph', latest)
  /\ NewPending(Stamps(k.carried))
  /\ page'[c] = [page[c] EXCEPT !.chunks = page[c].chunks \cup {k}]

Moved(c) ==
  \/ Gone(c) \/ Kept(c) \/ LoadPage(c) \/ Pushed(c)
  \/ \E f \in Nat, carried \in CopyMaps : Received(c, f, carried)
  \/ \E k \in Chunks : HandedOver(c, k)

\* A page that stays as it is is kept.
LEMMA SameIsKept ==
  ASSUME NEW c \in Clients, page'[c] = page[c]
  PROVE  Kept(c)
BY DEF Kept, SameBoot

\* The steps of the server that concern the pages.
LEMMA ServerMoves ==
  ASSUME TypeInv, NEW c \in Clients,
         \/ CompileLazyEntry
         \/ \E d \in Clients : PublishPatch(d)
         \/ \E d \in Clients, r \in Routes : StartLazy(d, r)
  PROVE  Moved(c)
<1>0. page \in [Clients -> Pages] /\ page[c] \in Pages
  BY DEF TypeInv
<1>1. CASE CompileLazyEntry
  <2>1. PICK d \in Clients, k \in Chunks :
          /\ k.file = next_hmr_patch_id /\ Rendered(k.carried, graph', latest)
          /\ NewPending(Stamps(k.carried))
          /\ \A e \in Clients \ {d} : page'[e] = page[e]
          /\ page[d].st # "live" => page'[d] = page[d]
          /\ page[d].st = "live" =>
               page'[d] = [page[d] EXCEPT !.chunks = page[d].chunks \cup {k}]
    BY <1>1, Handed
  <2>2. CASE d # c \/ page[d].st # "live"
    BY <2>1, <2>2, SameIsKept DEF Moved
  <2>3. CASE d = c /\ page[d].st = "live"
    <3>1. HandedOver(c, k)
      BY <1>1, <2>1, <2>3 DEF HandedOver
    <3> QED BY <3>1 DEF Moved
  <2> QED BY <2>2, <2>3
<1>2. ASSUME NEW d \in Clients, PublishPatch(d)
      PROVE  Moved(c)
  <2>1. /\ \A e \in Clients \ {d} : page'[e] = page[e]
        /\ page[d].st # "live" => page'[d] = page[d]
        /\ page[d].st = "live" =>
             page'[d] = [page[d] EXCEPT !.inbox = Append(page[d].inbox, NewPush(d))]
    BY <1>2, Published
  <2>2. CASE d # c \/ page[d].st # "live"
    BY <2>1, <2>2, SameIsKept DEF Moved
  <2>3. CASE d = c /\ page[d].st = "live"
    <3>1. Pushed(c)
      BY <1>2, <2>1, <2>3 DEF Pushed
    <3> QED BY <3>1 DEF Moved
  <2> QED BY <2>2, <2>3
<1>3. ASSUME NEW d \in Clients, NEW r \in Routes, StartLazy(d, r)
      PROVE  Moved(c)
  <2>1. page' = [page EXCEPT ![d].lazy[r] = "served"]
    BY <1>3 DEF StartLazy
  <2>2. Kept(c)
    BY <1>0, <2>1 DEF Kept, SameBoot, Pages
  <2> QED BY <2>2 DEF Moved
<1> QED BY <1>1, <1>2, <1>3

\* The steps of a page.
LEMMA ClientMoves ==
  ASSUME TypeInv, NEW c \in Clients, NEW d \in Clients, ClientStep(d)
  PROVE  Moved(c)
<1>0. page \in [Clients -> Pages] /\ page[c] \in Pages
  BY DEF TypeInv
<1>1. CASE LoadPage(d)
  <2>1. d # c => page'[c] = page[c]
    BY <1>1, Loaded
  <2> QED BY <1>1, <2>1, SameIsKept DEF Moved
<1>2. CASE register_client(d) \/ \E f \in page[d].ran : notify_payload_delivered(d, f)
  <2>1. page' = page
    BY <1>2 DEF register_client, notify_payload_delivered
  <2> QED BY <2>1, SameIsKept DEF Moved
<1>3. CASE remove_client(d)
  <2>1. /\ page'[d] = NoPage("closed")
        /\ \A e \in Clients \ {d} : page'[e] = page[e]
    BY <1>3, Removed
  <2>2. CASE c = d
    BY <2>1, <2>2 DEF Moved, Gone
  <2>3. CASE c # d
    BY <2>1, <2>3, SameIsKept DEF Moved
  <2> QED BY <2>2, <2>3
<1>4. CASE ReceivePush(d)
  <2>1. CASE c # d
    <3>1. page'[c] = page[c]
      BY <1>0, <1>4, <2>1, ReceivedPush
    <3> QED BY <3>1, SameIsKept DEF Moved
  <2>2. CASE c = d
    <3> DEFINE push == Head(page[c].inbox)
               p == [page[c] EXCEPT !.inbox = Tail(@), !.last_seq = push.seq]
    <3>1. /\ page[c].st = "live" /\ page[c].inbox # <<>> /\ push \in Pushes
          /\ \/ page'[c] = NoPage("gap") \/ page'[c] = NoPage("reload")
             \/ page'[c] = p \/ Took(p, page'[c], push.file, push.carried)
      <4> HIDE DEF p, push
      <4> QED BY <1>4, <2>2, ReceivedPush DEF p, push
    <3>2. page[c].inbox \in Seq(Pushes) /\ Len(page[c].inbox) \in Nat \ {0}
      BY <1>0, <3>1, EmptySeq, LenProperties DEF Pages
    <3>3. /\ \A i \in DOMAIN Tail(page[c].inbox) :
               \E j \in DOMAIN page[c].inbox : Tail(page[c].inbox)[i] = page[c].inbox[j]
          /\ 1 \in DOMAIN page[c].inbox /\ push = page[c].inbox[1]
      <4>1. /\ DOMAIN page[c].inbox = 1 .. Len(page[c].inbox)
            /\ DOMAIN Tail(page[c].inbox) = 1 .. Len(page[c].inbox) - 1
            /\ \A i \in 1 .. Len(page[c].inbox) - 1 :
                 Tail(page[c].inbox)[i] = page[c].inbox[i + 1]
        BY <3>1, <3>2, HeadTailProperties, LenProperties
      <4>2. \A i \in 1 .. Len(page[c].inbox) - 1 : i + 1 \in 1 .. Len(page[c].inbox)
        BY <3>2
      <4>3. 1 \in 1 .. Len(page[c].inbox)
        BY <3>2
      <4> QED BY <3>1, <4>1, <4>2, <4>3
    <3>4. /\ p.st = page[c].st /\ p.boot = page[c].boot /\ p.chunks = page[c].chunks
          /\ p.inbox = Tail(page[c].inbox) /\ p.cache = page[c].cache
          /\ p.factories = page[c].factories /\ p.ran = page[c].ran
      BY <1>0 DEF Pages
    <3>5. push.file \in Nat /\ push.carried \in CopyMaps
      BY <3>1 DEF Pushes
    <3>6. OnItsWay(c, push.file, push.carried)
      BY <3>3 DEF OnItsWay
    <3> HIDE DEF p, push
    <3>7. CASE page'[c] = NoPage("gap") \/ page'[c] = NoPage("reload")
      BY <3>7 DEF Moved, Gone
    <3>8. CASE page'[c] = p
      BY <3>1, <3>3, <3>4, <3>8 DEF Moved, Kept, SameBoot
    <3>9. CASE Took(p, page'[c], push.file, push.carried)
      <4>1. Received(c, push.file, push.carried)
        <5>1. /\ page'[c].st \in {page[c].st, "broken"} /\ page'[c].boot = page[c].boot
              /\ page'[c].chunks \subseteq page[c].chunks
              /\ page'[c].inbox = Tail(page[c].inbox)
              /\ page'[c].factories = registerFactory(page[c].factories, push.carried)
              /\ page'[c].ran = page[c].ran \cup {push.file}
          BY <3>4, <3>9 DEF Took
        <5>2. \A m \in DOMAIN page'[c].cache :
                \/ m \in DOMAIN page[c].cache /\ page'[c].cache[m] = page[c].cache[m]
                \/ /\ m \in DOMAIN page'[c].factories
                   /\ page'[c].cache[m] = page'[c].factories[m]
          BY <3>4, <3>9 DEF Took
        <5>3. SameBoot(c)
          BY <3>1, <3>3, <5>1, <5>2 DEF SameBoot
        <5> QED BY <3>1, <3>6, <5>1, <5>3 DEF Received
      <4> QED BY <3>5, <4>1 DEF Moved
    <3> QED BY <3>1, <3>7, <3>8, <3>9
  <2> QED BY <2>1, <2>2
<1>5. ASSUME NEW r \in Routes, requestLazy(d, r)
      PROVE  Moved(c)
  <2>1. /\ page[d].st = "live" /\ Ran(page[d], page'[d])
        /\ \A e \in Clients \ {d} : page'[e] = page[e]
    BY <1>5, RequestedLazy
  <2>2. CASE c = d
    BY <2>1, <2>2 DEF Moved, Kept, SameBoot, Ran
  <2>3. CASE c # d
    BY <2>1, <2>3, SameIsKept DEF Moved
  <2> QED BY <2>2, <2>3
<1>6. ASSUME NEW k \in page[d].chunks, ReceiveChunk(d, k)
      PROVE  Moved(c)
  <2>1. /\ page[d].st = "live" /\ Took(page[d], page'[d], k.file, k.carried)
        /\ \A e \in Clients \ {d} : page'[e] = page[e]
    BY <1>6, ReceivedChunk
  <2>2. CASE c = d
    <3>1. k.file \in Nat /\ k.carried \in CopyMaps
      BY <1>0, <2>2 DEF Pages, Chunks
    <3>2. OnItsWay(c, k.file, k.carried)
      BY <2>2 DEF OnItsWay
    <3>3. Received(c, k.file, k.carried)
      BY <2>1, <2>2, <3>2 DEF Received, SameBoot, Took
    <3> QED BY <3>1, <3>3 DEF Moved
  <2>3. CASE c # d
    BY <2>1, <2>3, SameIsKept DEF Moved
  <2> QED BY <2>2, <2>3
<1> QED BY <1>1, <1>2, <1>3, <1>4, <1>5, <1>6 DEF ClientStep

\* Every step does one of these things to every page.
LEMMA PageMoves ==
  ASSUME TypeInv, [Next]_vars, NEW c \in Clients
  PROVE  Moved(c)
<1>1. CASE \/ \E m \in Modules : Edit(m)
           \/ \E files \in SUBSET events, rebuild \in BOOLEAN : StartHmr(files, rebuild)
           \/ ComputeFails \/ Compute \/ NumberPatches \/ HmrDone \/ StartRebuild \/ Rebuild
           \/ UNCHANGED vars
  <2>1. page' = page
    BY <1>1 DEF Edit, StartHmr, ComputeFails, Compute, NumberPatches, HmrDone, StartRebuild,
       Rebuild, vars
  <2> QED BY <2>1, SameIsKept DEF Moved
<1> QED BY <1>1, ServerMoves, ClientMoves DEF Next

-----------------------------------------------------------------------------
(* Ship maps: the proof. *)

\* Entries of files that exist stay as they are until they go.
PendingKept ==
  /\ next_hmr_patch_id' >= next_hmr_patch_id
  /\ \A f \in DOMAIN pending_payloads' :
       f < next_hmr_patch_id =>
         f \in DOMAIN pending_payloads /\ pending_payloads'[f] = pending_payloads[f]

\* Every step does that.
LEMMA NextPending ==
  ASSUME TypeInv, [Next]_vars
  PROVE  PendingKept
<1>0. next_hmr_patch_id \in Nat /\ DOMAIN pending_payloads \subseteq 0 .. next_hmr_patch_id - 1
  BY DEF TypeInv, SessionType
<1>1. ASSUME NEW modules, NewPending(modules), next_hmr_patch_id' = next_hmr_patch_id + 1
      PROVE  PendingKept
  BY <1>0, <1>1 DEF PendingKept, NewPending
<1>2. CASE CompileLazyEntry
  BY <1>1, <1>2, Handed
<1>3. CASE \E c \in Clients : PublishPatch(c)
  BY <1>1, <1>3, Published
<1>4. ASSUME NEW c \in Clients, remove_client(c)
      PROVE  PendingKept
  <2>1. next_hmr_patch_id' = next_hmr_patch_id
    BY <1>4 DEF remove_client
  <2>2. /\ DOMAIN pending_payloads' \subseteq DOMAIN pending_payloads
        /\ \A f \in DOMAIN pending_payloads' : pending_payloads'[f] = pending_payloads[f]
    BY <1>4, Removed
  <2> QED BY <1>0, <2>1, <2>2 DEF PendingKept
<1>5. ASSUME NEW c \in Clients, NEW f, notify_payload_delivered(c, f)
      PROVE  PendingKept
  <2>1. next_hmr_patch_id' = next_hmr_patch_id
    BY <1>5 DEF notify_payload_delivered
  <2>2. /\ DOMAIN pending_payloads' = DOMAIN pending_payloads \ {f}
        /\ \A g \in DOMAIN pending_payloads' : pending_payloads'[g] = pending_payloads[g]
    BY <1>5, Notified
  <2> QED BY <1>0, <2>1, <2>2 DEF PendingKept
<1>6. CASE \/ \E m \in Modules : Edit(m)
           \/ \E files \in SUBSET events, rebuild \in BOOLEAN : StartHmr(files, rebuild)
           \/ ComputeFails \/ Compute \/ NumberPatches \/ HmrDone \/ StartRebuild \/ Rebuild
           \/ \E c \in Clients : LoadPage(c) \/ register_client(c) \/ ReceivePush(c)
           \/ \E c \in Clients, r \in Routes : StartLazy(c, r) \/ requestLazy(c, r)
           \/ \E c \in Clients : \E k \in page[c].chunks : ReceiveChunk(c, k)
           \/ UNCHANGED vars
  <2>1. UNCHANGED <<pending_payloads, next_hmr_patch_id>>
    BY <1>6 DEF Edit, StartHmr, ComputeFails, Compute, NumberPatches, HmrDone, StartRebuild,
       Rebuild, LoadPage, register_client, ReceivePush, StartLazy, requestLazy,
       ReceiveChunk, vars
  <2> QED BY <1>0, <2>1 DEF PendingKept
<1> QED BY <1>2, <1>3, <1>4, <1>5, <1>6 DEF Next, ClientStep

\* A page keeps what its pending entries say.
LEMMA RecordedStep ==
  ASSUME TypeInv, TypeInv', [Next]_vars, NEW c \in Clients, RecordedOf(c)
  PROVE  RecordedOf(c)'
<1>0. /\ PendingKept /\ next_hmr_patch_id \in Nat /\ next_hmr_patch_id' \in Nat
      /\ page[c] \in Pages /\ page'[c] \in Pages
  BY NextPending DEF TypeInv, SessionType
<1>1. ASSUME NEW f \in Nat, NEW modules, f < next_hmr_patch_id,
             f \in DOMAIN pending_payloads => pending_payloads[f].modules = modules
      PROVE  /\ f < next_hmr_patch_id'
             /\ f \in DOMAIN pending_payloads' => pending_payloads'[f].modules = modules
  BY <1>0, <1>1 DEF PendingKept
<1>2. \A k \in page[c].chunks :
        /\ k.file < next_hmr_patch_id'
        /\ k.file \in DOMAIN pending_payloads' =>
             pending_payloads'[k.file].modules = Stamps(k.carried)
  <2>1. \A k \in page[c].chunks : k.file \in Nat
    BY <1>0 DEF Pages, Chunks
  <2> QED BY <1>1, <2>1 DEF RecordedOf
<1>3. \A i \in DOMAIN page[c].inbox :
        /\ page[c].inbox[i].file < next_hmr_patch_id'
        /\ page[c].inbox[i].file \in DOMAIN pending_payloads' =>
             pending_payloads'[page[c].inbox[i].file].modules = Stamps(page[c].inbox[i].carried)
  <2>1. \A i \in DOMAIN page[c].inbox : page[c].inbox[i].file \in Nat
    <3>1. page[c].inbox \in Seq(Pushes)
      BY <1>0 DEF Pages
    <3>2. \A i \in DOMAIN page[c].inbox : page[c].inbox[i] \in Pushes
      BY <3>1
    <3> QED BY <3>2 DEF Pushes
  <2> QED BY <1>1, <2>1 DEF RecordedOf
<1>4. \A f \in page[c].ran : f < next_hmr_patch_id'
  BY <1>0 DEF RecordedOf, PendingKept, Pages
<1>5. CASE Gone(c) \/ LoadPage(c)
  <2>1. page'[c].ran = {} /\ page'[c].inbox = <<>> /\ page'[c].chunks = {}
    <3>1. CASE Gone(c)
      BY <3>1 DEF Gone, NoPage
    <3>2. CASE LoadPage(c)
      BY <3>2, Loaded
    <3> QED BY <1>5, <3>1, <3>2
  <2>2. DOMAIN page'[c].inbox = {}
    BY <2>1, EmptySeq
  <2> QED BY <2>1, <2>2 DEF RecordedOf
<1>6. CASE Kept(c)
  BY <1>2, <1>3, <1>4, <1>6 DEF Kept, SameBoot, RecordedOf
<1>7. ASSUME NEW f \in Nat, NEW carried \in CopyMaps, Received(c, f, carried)
      PROVE  RecordedOf(c)'
  <2>1. f < next_hmr_patch_id'
    BY <1>2, <1>3, <1>7 DEF Received, OnItsWay
  <2> QED BY <1>2, <1>3, <1>4, <1>7, <2>1 DEF Received, SameBoot, RecordedOf
<1>8. CASE Pushed(c)
  <2>1. /\ NewPush(c).file = next_hmr_patch_id /\ NewPush(c) \in Pushes
        /\ NewPush(c).carried = task.updates[c].carried
        /\ NewPending(Stamps(task.updates[c].carried))
        /\ next_hmr_patch_id' = next_hmr_patch_id + 1
    BY <1>8, Published DEF Pushed, NewPush
  <2>2. /\ page'[c].ran = page[c].ran /\ page'[c].chunks = page[c].chunks
        /\ page'[c].inbox = Append(page[c].inbox, NewPush(c))
        /\ page[c].inbox \in Seq(Pushes)
    BY <1>0, <1>8 DEF Pushed, Pages
  <2>3. \A i \in DOMAIN page'[c].inbox :
          \/ page'[c].inbox[i] = NewPush(c)
          \/ i \in DOMAIN page[c].inbox /\ page'[c].inbox[i] = page[c].inbox[i]
    BY <2>1, <2>2, AppendProperties, LenProperties
  <2>4. /\ NewPush(c).file < next_hmr_patch_id'
        /\ NewPush(c).file \in DOMAIN pending_payloads' =>
             pending_payloads'[NewPush(c).file].modules = Stamps(NewPush(c).carried)
    BY <1>0, <2>1 DEF NewPending
  <2>5. \A i \in DOMAIN page'[c].inbox :
          /\ page'[c].inbox[i].file < next_hmr_patch_id'
          /\ page'[c].inbox[i].file \in DOMAIN pending_payloads' =>
               pending_payloads'[page'[c].inbox[i].file].modules = Stamps(page'[c].inbox[i].carried)
    BY <1>3, <2>3, <2>4
  <2> QED BY <1>2, <1>4, <2>2, <2>5 DEF RecordedOf
<1>9. ASSUME NEW k \in Chunks, HandedOver(c, k)
      PROVE  RecordedOf(c)'
  <2>1. /\ page'[c].ran = page[c].ran /\ page'[c].chunks = page[c].chunks \cup {k}
        /\ page'[c].inbox = page[c].inbox
    BY <1>0, <1>9 DEF HandedOver, Pages
  <2>2. next_hmr_patch_id' = next_hmr_patch_id + 1
    BY <1>9 DEF HandedOver, CompileLazyEntry
  <2>3. /\ k.file < next_hmr_patch_id'
        /\ k.file \in DOMAIN pending_payloads' =>
             pending_payloads'[k.file].modules = Stamps(k.carried)
    BY <1>0, <1>9, <2>2 DEF HandedOver, NewPending
  <2> QED BY <1>2, <1>3, <1>4, <2>1, <2>3 DEF RecordedOf
<1> QED BY <1>5, <1>6, <1>7, <1>8, <1>9, PageMoves DEF Moved

\* Newer factories cover what the older ones did.
LEMMA CoversMore ==
  ASSUME NEW f \in CopyMaps, NEW g \in CopyMaps, NEW stamps \in StampMaps, Covers(f, stamps),
         \A m \in DOMAIN f : m \in DOMAIN g /\ g[m].stamp >= f[m].stamp
  PROVE  Covers(g, stamps)
<1>1. \A m \in DOMAIN f : f[m].stamp \in Nat
  BY CopyFields
<1>2. \A m \in DOMAIN g : g[m].stamp \in Nat
  BY CopyFields
<1>3. \A m \in DOMAIN stamps : stamps[m] \in Nat
  BY MapFields DEF StampMaps
<1> QED BY <1>1, <1>2, <1>3 DEF Covers

\* What a payload carried is covered once it is registered.
LEMMA CoversCarried ==
  ASSUME NEW f \in CopyMaps, NEW carried \in CopyMaps
  PROVE  Covers(registerFactory(f, carried), Stamps(carried))
<1>1. DOMAIN Stamps(carried) = DOMAIN carried
      /\ \A m \in DOMAIN carried : Stamps(carried)[m] = carried[m].stamp
  BY DEF Stamps
<1> DEFINE F == registerFactory(f, carried)
<1>2. /\ DOMAIN F = DOMAIN f \cup DOMAIN carried
      /\ \A m \in DOMAIN carried : F[m].stamp >= carried[m].stamp
  BY RegisteredCopies
<1> HIDE DEF F
<1>3. Covers(F, Stamps(carried))
  BY <1>1, <1>2 DEF Covers
<1> QED BY <1>3 DEF F

\* What a step does to the ship map of a session.
LEMMA NextShipped ==
  ASSUME TypeInv, [Next]_vars, NEW c \in DOMAIN clients'
  PROVE  \/ c \in DOMAIN clients /\ clients'[c].shipped = clients[c].shipped
         \/ clients'[c].shipped = <<>>
         \/ /\ c \in DOMAIN clients /\ page' = page
            /\ \E f \in page[c].ran \cap DOMAIN pending_payloads :
                 clients'[c].shipped = MaxMerge(clients[c].shipped, pending_payloads[f].modules)
<1> DEFINE Same == c \in DOMAIN clients /\ clients'[c].shipped = clients[c].shipped
           New == clients'[c].shipped = <<>>
           Merged == /\ c \in DOMAIN clients /\ page' = page
                     /\ \E f \in page[c].ran \cap DOMAIN pending_payloads :
                          clients'[c].shipped
                            = MaxMerge(clients[c].shipped, pending_payloads[f].modules)
<1>1. ASSUME NumberPatches
      PROVE  Same
  BY <1>1, NumberedPatches
<1>2. ASSUME NEW d \in Clients, register_client(d)
      PROVE  Same \/ New
  <2>1. DOMAIN clients' = DOMAIN clients \cup {d} /\ clients'[d] = NewSession
        /\ \A e \in DOMAIN clients : e # d => clients'[e] = clients[e]
    BY <1>2, Registered
  <2>2. NewSession.shipped = <<>>
    BY DEF NewSession
  <2> QED BY <2>1, <2>2
<1>3. ASSUME NEW d \in Clients, remove_client(d)
      PROVE  Same
  BY <1>3, Removed
<1>4. ASSUME NEW d \in Clients, NEW f, notify_payload_delivered(d, f)
      PROVE  Same \/ Merged
  <2>1. /\ DOMAIN clients' = DOMAIN clients /\ f \in page[d].ran \cap DOMAIN pending_payloads
        /\ \A e \in DOMAIN clients : e # d => clients'[e] = clients[e]
        /\ d \in DOMAIN clients =>
             clients'[d].shipped = MaxMerge(clients[d].shipped, pending_payloads[f].modules)
    BY <1>4, Notified
  <2>2. page' = page
    BY <1>4 DEF notify_payload_delivered
  <2> QED BY <2>1, <2>2
<1> HIDE DEF Same, New, Merged
<1> SUFFICES Same \/ New \/ Merged
  BY DEF Same, New, Merged
<1>5. CASE \/ \E m \in Modules : Edit(m)
           \/ \E files \in SUBSET events, rebuild \in BOOLEAN : StartHmr(files, rebuild)
           \/ ComputeFails \/ Compute \/ HmrDone \/ StartRebuild \/ Rebuild \/ CompileLazyEntry
           \/ \E d \in Clients : PublishPatch(d) \/ LoadPage(d) \/ ReceivePush(d)
           \/ \E d \in Clients, r \in Routes : StartLazy(d, r) \/ requestLazy(d, r)
           \/ \E d \in Clients : \E k \in page[d].chunks : ReceiveChunk(d, k)
           \/ UNCHANGED vars
  <2>1. UNCHANGED clients
    BY <1>5 DEF Edit, StartHmr, ComputeFails, Compute, HmrDone, StartRebuild, Rebuild,
       CompileLazyEntry, PublishPatch, LoadPage, ReceivePush, StartLazy, requestLazy,
       ReceiveChunk, vars
  <2> QED BY <2>1 DEF Same
<1> QED BY <1>1, <1>2, <1>3, <1>4, <1>5 DEF Next, ClientStep

\* Both parts of the ship map's honesty are kept.
LEMMA ShipStep ==
  ASSUME TypeInv, TypeInv', SeqInv, [Next]_vars, NEW c \in Clients, RecordedOf(c), ShipOf(c)
  PROVE  ShipOf(c)'
<1> SUFFICES ASSUME page'[c].st = "live"
             PROVE  /\ \A f \in page'[c].ran \cap DOMAIN pending_payloads' :
                         Covers(page'[c].factories, pending_payloads'[f].modules)
                    /\ c \in DOMAIN clients' => Covers(page'[c].factories, clients'[c].shipped)
  BY DEF ShipOf
<1>0. /\ PendingKept /\ next_hmr_patch_id \in Nat
      /\ page[c] \in Pages /\ page'[c] \in Pages
      /\ page[c].factories \in CopyMaps /\ page'[c].factories \in CopyMaps
  BY NextPending DEF TypeInv, SessionType, Pages
<1>1. CASE LoadPage(c)
  <2>1. page'[c].ran = {} /\ page[c].st = "none" /\ clients' = clients
    BY <1>1, Loaded DEF LoadPage
  <2>2. c \notin DOMAIN clients'
    BY <2>1 DEF SeqInv, SeqOf
  <2> QED BY <2>1, <2>2
<1> DEFINE Grown ==
             /\ page[c].st = "live"
             /\ \A m \in DOMAIN page[c].factories :
                  /\ m \in DOMAIN page'[c].factories
                  /\ page'[c].factories[m].stamp >= page[c].factories[m].stamp
             /\ \A f \in page'[c].ran :
                  \/ f \in page[c].ran
                  \/ \E carried \in CopyMaps :
                       /\ OnItsWay(c, f, carried)
                       /\ page'[c].factories = registerFactory(page[c].factories, carried)
<1>2. ASSUME ~LoadPage(c)
      PROVE  Grown
  <2>0. \A m \in DOMAIN page[c].factories : page[c].factories[m].stamp \in Nat
    BY <1>0, CopyFields
  <2>1. ~Gone(c)
    BY DEF Gone, NoPage
  <2>2. CASE Kept(c)
    BY <2>0, <2>2 DEF Kept, SameBoot
  <2>3. CASE Pushed(c)
    BY <1>0, <2>0, <2>3 DEF Pushed, Pages
  <2>4. ASSUME NEW k \in Chunks, HandedOver(c, k)
        PROVE  Grown
    BY <1>0, <2>0, <2>4 DEF HandedOver, Pages
  <2>5. ASSUME NEW f \in Nat, NEW carried \in CopyMaps, Received(c, f, carried)
        PROVE  Grown
    <3>1. /\ page[c].st = "live" /\ OnItsWay(c, f, carried)
          /\ page'[c].factories = registerFactory(page[c].factories, carried)
          /\ page'[c].ran = page[c].ran \cup {f}
      BY <2>5 DEF Received
    <3>2. /\ DOMAIN registerFactory(page[c].factories, carried)
               = DOMAIN page[c].factories \cup DOMAIN carried
          /\ \A m \in DOMAIN page[c].factories :
               registerFactory(page[c].factories, carried)[m].stamp >= page[c].factories[m].stamp
      <4>1. page[c].factories \in CopyMaps
        BY <1>0
      <4> HIDE <1>0
      <4> QED BY <4>1, RegisteredCopies
    <3>3. \A m \in DOMAIN page[c].factories :
            /\ m \in DOMAIN page'[c].factories
            /\ page'[c].factories[m].stamp >= page[c].factories[m].stamp
      BY <3>1, <3>2
    <3> QED BY <3>1, <3>3
  <2> QED BY <1>2, <2>1, <2>2, <2>3, <2>4, <2>5, PageMoves DEF Moved
<1>3. CASE ~LoadPage(c)
  <2>1. /\ page[c].st = "live"
        /\ \A m \in DOMAIN page[c].factories :
             /\ m \in DOMAIN page'[c].factories
             /\ page'[c].factories[m].stamp >= page[c].factories[m].stamp
    BY <1>2, <1>3
  <2>2. ASSUME NEW stamps \in StampMaps, Covers(page[c].factories, stamps)
        PROVE  Covers(page'[c].factories, stamps)
    BY <1>0, <2>1, <2>2, CoversMore
  <2>3. ASSUME NEW f \in page'[c].ran \cap DOMAIN pending_payloads'
        PROVE  Covers(page'[c].factories, pending_payloads'[f].modules)
    <3>1. CASE f \in page[c].ran
      <4>1. f \in DOMAIN pending_payloads /\ pending_payloads'[f] = pending_payloads[f]
        BY <1>0, <2>3, <3>1 DEF RecordedOf, PendingKept
      <4>2. pending_payloads[f].modules \in StampMaps
        BY <4>1 DEF TypeInv, SessionType, Payloads
      <4> QED BY <2>1, <2>2, <3>1, <4>1, <4>2 DEF ShipOf
    <3>2. ASSUME NEW carried \in CopyMaps, OnItsWay(c, f, carried),
                 page'[c].factories = registerFactory(page[c].factories, carried)
          PROVE  Covers(page'[c].factories, pending_payloads'[f].modules)
      <4>1. /\ f < next_hmr_patch_id
            /\ f \in DOMAIN pending_payloads => pending_payloads[f].modules = Stamps(carried)
        BY <3>2 DEF OnItsWay, RecordedOf
      <4>2. pending_payloads'[f].modules = Stamps(carried)
        BY <1>0, <2>3, <4>1 DEF PendingKept
      <4> QED BY <1>0, <3>2, <4>2, CoversCarried
    <3> QED BY <1>2, <1>3, <2>3, <3>1, <3>2
  <2>4. ASSUME c \in DOMAIN clients'
        PROVE  Covers(page'[c].factories, clients'[c].shipped)
    <3>1. CASE c \in DOMAIN clients /\ clients'[c].shipped = clients[c].shipped
      <4>1. clients[c].shipped \in StampMaps
        BY <3>1, ServerFields DEF Sessions
      <4> QED BY <2>1, <2>2, <3>1, <4>1 DEF ShipOf
    <3>2. CASE clients'[c].shipped = <<>>
      BY <3>2, EmptySeq DEF Covers
    <3>3. ASSUME c \in DOMAIN clients, page' = page,
                 NEW f \in page[c].ran \cap DOMAIN pending_payloads,
                 clients'[c].shipped = MaxMerge(clients[c].shipped, pending_payloads[f].modules)
          PROVE  Covers(page'[c].factories, clients'[c].shipped)
      <4>1. Covers(page[c].factories, clients[c].shipped)
            /\ Covers(page[c].factories, pending_payloads[f].modules)
        BY <2>1, <3>3 DEF ShipOf
      <4>2. clients[c].shipped \in StampMaps /\ pending_payloads[f].modules \in StampMaps
        BY <3>3, ServerFields DEF Sessions, TypeInv, SessionType, Payloads
      <4>3. \A m \in DOMAIN clients'[c].shipped :
              \/ /\ m \in DOMAIN clients[c].shipped
                 /\ clients'[c].shipped[m] = clients[c].shipped[m]
              \/ /\ m \in DOMAIN pending_payloads[f].modules
                 /\ clients'[c].shipped[m] = pending_payloads[f].modules[m]
        <5> DEFINE a == clients[c].shipped
                   b == pending_payloads[f].modules
        <5>1. \A m \in DOMAIN MaxMerge(a, b) :
                \/ m \in DOMAIN a /\ MaxMerge(a, b)[m] = a[m]
                \/ m \in DOMAIN b /\ MaxMerge(a, b)[m] = b[m]
          BY <4>2, MergedStamps
        <5> QED BY <3>3, <5>1
      <4> QED BY <3>3, <4>1, <4>3 DEF Covers
    <3> QED BY <2>4, <3>1, <3>2, <3>3, NextShipped
  <2> QED BY <2>3, <2>4
<1> QED BY <1>1, <1>3

\* The ship map never claims more than the page received, in whatever order payloads,
\* reports, evictions and disconnects come (notify_payload_delivered,
\* insert_pending_payload, registerFactory).
THEOREM ShipMapsAreHonest == Spec => []ShipMapIsHonest
<1>1. Init => SeqInv
  BY InitSeq
<1>2. Init => PayloadInv /\ ShipInv
  <2> SUFFICES ASSUME Init, NEW c \in Clients
               PROVE  RecordedOf(c) /\ ShipOf(c)
    BY DEF PayloadInv, ShipInv
  <2>1. /\ page[c].st = "none" /\ page[c].ran = {} /\ page[c].chunks = {}
        /\ page[c].inbox = <<>>
    BY DEF Init, NoPage
  <2>2. DOMAIN page[c].inbox = {}
    BY <2>1, EmptySeq
  <2> QED BY <2>1, <2>2 DEF RecordedOf, ShipOf
<1>3. TypeInv /\ SeqInv /\ [Next]_vars => SeqInv'
  BY NextSeq
<1>4. TypeInv /\ TypeInv' /\ SeqInv /\ PayloadInv /\ ShipInv /\ [Next]_vars =>
        PayloadInv' /\ ShipInv'
  BY RecordedStep, ShipStep DEF PayloadInv, ShipInv
<1>5. TypeInv /\ ShipInv => ShipMapIsHonest
  BY ServerFields DEF ShipInv, ShipOf, Covers, ShipMapIsHonest
<1> QED BY <1>1, <1>2, <1>3, <1>4, <1>5, TypeInvariant, PTL DEF Spec

-----------------------------------------------------------------------------
(* Ages: the proof. *)

\* Stamps only grow.
LEMMA StampsGrow ==
  ASSUME TypeInv, [Next]_vars
  PROVE  /\ \A m \in Modules : latest'[m] >= latest[m] /\ latest[m] \in Nat
         /\ latest' = latest \/ Compute
<1>1. latest \in [Modules -> Nat]
  BY LatestType
<1>2. latest' = latest \/ Compute
  BY DEF Next, ClientStep, Edit, StartHmr, ComputeFails, NumberPatches, PublishPatch, HmrDone,
     StartRebuild, Rebuild, StartLazy, CompileLazyEntry, LoadPage, register_client,
     remove_client, ReceivePush, requestLazy, ReceiveChunk, notify_payload_delivered,
     stampVars, vars
<1>3. CASE latest' = latest
  BY <1>1, <1>2, <1>3
<1>4. CASE Compute
  BY <1>1, <1>4, Computed
<1> QED BY <1>2, <1>3, <1>4

\* The map of what the entry chunk evaluates follows the stamps.
LEMMA EvaluatedAge ==
  ASSUME TypeInv, [Next]_vars,
         \A m \in DOMAIN top_level_evaluated : top_level_evaluated[m] <= latest[m]
  PROVE  \A m \in DOMAIN top_level_evaluated' : top_level_evaluated'[m] <= latest'[m]
<1>1. \A m \in Modules : latest'[m] >= latest[m] /\ latest[m] \in Nat /\ latest'[m] \in Nat
  <2>1. GraphType'
    BY NextGraphType
  <2> QED BY <2>1, StampsGrow DEF GraphType
<1>2. CASE top_level_evaluated' = top_level_evaluated
  <2>1. DOMAIN top_level_evaluated \subseteq Modules
        /\ \A m \in DOMAIN top_level_evaluated : top_level_evaluated[m] \in Nat
    BY NewSessionType, MapFields DEF StampMaps
  <2> QED BY <1>1, <1>2, <2>1
<1>3. CASE Rebuild /\ top_level_evaluated' # top_level_evaluated
  <2>1. latest' = latest /\ top_level_evaluated' = [m \in TopLevel(graph') |-> latest[m]]
    BY <1>3 DEF Rebuild, stampVars, compute_top_level_evaluated_modules
  <2>2. TopLevel(graph') \subseteq Modules
    BY DEF TopLevel, Closure
  <2> QED BY <1>1, <2>1, <2>2
<1>4. top_level_evaluated' = top_level_evaluated \/ Rebuild
  BY DEF Next, ClientStep, Edit, StartHmr, ComputeFails, Compute, NumberPatches, PublishPatch,
     HmrDone, StartRebuild, StartLazy, CompileLazyEntry, LoadPage, register_client,
     remove_client, ReceivePush, requestLazy, ReceiveChunk, notify_payload_delivered,
     outputVars, vars
<1> QED BY <1>2, <1>3, <1>4

\* An update that a step leaves to publish was there before, or was rendered just now.
LEMMA NextUpdates ==
  ASSUME TypeInv, [Next]_vars, NEW c \in DOMAIN task'.updates
  PROVE  \/ /\ c \in DOMAIN task.updates
            /\ task'.updates[c].carried = task.updates[c].carried
         \/ Compute /\ Rendered(task'.updates[c].carried, graph', latest')
<1>0. task \in Tasks
  BY DEF TypeInv
<1>1. CASE task' = task
  BY <1>1
<1>2. CASE DOMAIN task'.updates = {}
  BY <1>2
<1>3. CASE task'.updates = task.updates
  BY <1>3
<1>4. CASE Compute
  <2>1. PICK changed \in SUBSET Modules, updates \in Updates :
          /\ task' = [task EXCEPT !.phase = "number", !.changed = changed,
                                  !.updates = updates]
          /\ \A d \in DOMAIN updates : Rendered(updates[d].carried, graph', latest')
    BY <1>4, Computed
  <2>2. task'.updates = updates
    BY <1>0, <2>1 DEF Tasks
  <2> QED BY <1>4, <2>1, <2>2
<1>5. CASE NumberPatches
  <2>1. PICK updates \in Updates :
          /\ task' = [task EXCEPT !.phase = "publish", !.updates = updates]
          /\ DOMAIN updates = DOMAIN task.updates
          /\ \A d \in DOMAIN updates : updates[d].carried = task.updates[d].carried
    BY <1>5, NumberedPatches
  <2>2. task'.updates = updates
    BY <1>0, <2>1 DEF Tasks
  <2> QED BY <2>1, <2>2
<1>6. CASE \E d \in Clients : PublishPatch(d)
  <2>1. PICK d \in Clients, updates \in Updates :
          /\ task' = [task EXCEPT !.updates = updates]
          /\ DOMAIN updates = DOMAIN task.updates \ {d}
          /\ \A e \in DOMAIN updates : updates[e] = task.updates[e]
    BY <1>6, Published
  <2>2. task'.updates = updates
    BY <1>0, <2>1 DEF Tasks
  <2> QED BY <2>1, <2>2
<1>7. CASE task' = Idle \/ StartRebuild
  <2>1. DOMAIN task'.updates = {}
    BY <1>7, IdleType DEF StartRebuild, Tasks
  <2> QED BY <2>1
<1>8. CASE ComputeFails \/ HmrDone \/ Rebuild
  <2>1. CASE \/ task' = [task EXCEPT !.phase = "rebuild"]
             \/ task' = [task EXCEPT !.phase = "rebuild", !.hmr_errored = TRUE]
    <3>1. task'.updates = task.updates
      BY <1>0, <2>1 DEF Tasks
    <3> QED BY <3>1
  <2>2. \/ task' = Idle \/ task' = [task EXCEPT !.phase = "rebuild"]
        \/ task' = [task EXCEPT !.phase = "rebuild", !.hmr_errored = TRUE]
    BY <1>8 DEF ComputeFails, HmrDone, Rebuild, EndTask
  <2> QED BY <1>7, <2>1, <2>2
<1>9. ASSUME NEW files \in SUBSET events, NEW rebuild \in BOOLEAN, StartHmr(files, rebuild)
      PROVE  DOMAIN task'.updates = {}
  BY <1>9, HmrStarted
<1>10. ASSUME NEW d \in Clients, NEW r \in Routes, StartLazy(d, r)
       PROVE  DOMAIN task'.updates = {}
  BY <1>10, LazyStarted
<1>11. CASE CompileLazyEntry
  BY <1>7, <1>11, Compiled
<1>12. CASE \/ \E m \in Modules : Edit(m)
            \/ \E d \in Clients : ClientStep(d)
            \/ UNCHANGED vars
  <2>1. task' = task
    BY <1>12 DEF ClientStep, Edit, LoadPage, register_client, remove_client, ReceivePush,
       requestLazy, ReceiveChunk, notify_payload_delivered, vars
  <2> QED BY <2>1
<1> QED BY <1>4, <1>5, <1>6, <1>7, <1>8, <1>9, <1>10, <1>11, <1>12 DEF Next

\* Copies with the latest stamps are not older than what the page booted with.
LEMMA LatestNotBefore ==
  ASSUME NEW g, IsGraph(g), NEW lat \in [Modules -> Nat], NEW carried, Rendered(carried, g, lat),
         NEW boot, \A m \in DOMAIN boot : m \in Modules => boot[m] <= lat[m]
  PROVE  NotBefore(boot, carried)
<1>1. /\ DOMAIN carried \subseteq Modules
      /\ \A m \in DOMAIN carried : carried[m].stamp = lat[m]
  BY RenderedScanned DEF IsGraph
<1>2. \A m \in DOMAIN boot \cap DOMAIN carried : boot[m] <= lat[m]
  BY <1>1
<1> QED BY <1>1, <1>2 DEF NotBefore

\* What is received is not older than what it replaces.
LEMMA FactoriesGrow ==
  ASSUME TypeInv, NEW c \in Clients,
         Kept(c) \/ \E f \in Nat, carried \in CopyMaps : Received(c, f, carried)
  PROVE  /\ \A m \in DOMAIN page[c].factories :
              /\ m \in DOMAIN page'[c].factories
              /\ page'[c].factories[m].stamp >= page[c].factories[m].stamp
         /\ \A m \in DOMAIN page'[c].factories :
              \E f \in Copies(c) : m \in DOMAIN f /\ page'[c].factories[m] = f[m]
         /\ page'[c].factories \in CopyMaps
<1>0. page[c] \in Pages /\ page[c].factories \in CopyMaps
  BY DEF TypeInv, Pages
<1>1. \A m \in DOMAIN page[c].factories : page[c].factories[m].stamp \in Nat
  BY <1>0, CopyFields
<1>2. page[c].factories \in Copies(c)
  BY DEF Copies
<1>3. CASE Kept(c)
  BY <1>0, <1>1, <1>2, <1>3 DEF Kept
<1>4. ASSUME NEW f \in Nat, NEW carried \in CopyMaps, Received(c, f, carried)
      PROVE  /\ \A m \in DOMAIN page[c].factories :
                  /\ m \in DOMAIN page'[c].factories
                  /\ page'[c].factories[m].stamp >= page[c].factories[m].stamp
             /\ \A m \in DOMAIN page'[c].factories :
                  \E g \in Copies(c) : m \in DOMAIN g /\ page'[c].factories[m] = g[m]
             /\ page'[c].factories \in CopyMaps
  <2> DEFINE F == registerFactory(page[c].factories, carried)
  <2>1. page'[c].factories = F
    BY <1>4 DEF Received
  <2>2. carried \in Copies(c)
    BY <1>4 DEF Received, OnItsWay, Copies
  <2>3. /\ F \in CopyMaps /\ DOMAIN F = DOMAIN page[c].factories \cup DOMAIN carried
        /\ \A m \in DOMAIN F :
             \/ m \in DOMAIN page[c].factories /\ F[m] = page[c].factories[m]
             \/ m \in DOMAIN carried /\ F[m] = carried[m]
        /\ \A m \in DOMAIN page[c].factories : F[m].stamp >= page[c].factories[m].stamp
    BY <1>0, RegisteredCopies
  <2> HIDE DEF F
  <2> QED BY <1>2, <2>1, <2>2, <2>3
<1> QED BY <1>3, <1>4

\* No page gets older copies.
LEMMA AgeStep ==
  ASSUME TypeInv, TypeInv', SeqInv, AgeInv, [Next]_vars, NEW c \in Clients
  PROVE  AgeOf(c)'
<1> SUFFICES ASSUME page'[c].st = "live"
             PROVE  /\ \A m \in DOMAIN page'[c].boot : page'[c].boot[m] <= latest'[m]
                    /\ \A f \in Copies(c)' : NotBefore(page'[c].boot, f)
                    /\ c \in DOMAIN task'.updates =>
                         NotBefore(page'[c].boot, task'.updates[c].carried)
                    /\ \A m \in DOMAIN page'[c].cache :
                         \/ /\ m \in DOMAIN page'[c].boot
                            /\ page'[c].cache[m].stamp = page'[c].boot[m]
                         \/ /\ m \in DOMAIN page'[c].factories
                            /\ page'[c].cache[m].stamp <= page'[c].factories[m].stamp
  BY DEF AgeOf
<1>0. /\ page[c] \in Pages /\ page'[c] \in Pages /\ AgeOf(c)
      /\ latest \in [Modules -> Nat] /\ latest' \in [Modules -> Nat]
      /\ IsGraph(graph) /\ IsGraph(graph')
      /\ \A m \in Modules : latest'[m] >= latest[m]
  BY LatestType, StampsGrow DEF TypeInv, AgeInv, GraphType
<1>1. CASE LoadPage(c)
  <2>1. /\ page'[c].boot = top_level_evaluated /\ page'[c].factories = <<>>
        /\ page'[c].inbox = <<>> /\ page'[c].chunks = {} /\ page[c].st = "none"
        /\ DOMAIN page'[c].cache = DOMAIN page'[c].boot
        /\ \A m \in DOMAIN page'[c].boot : page'[c].cache[m].stamp = page'[c].boot[m]
    BY <1>1, Loaded
  <2>2. latest' = latest /\ task' = task
    BY <1>1 DEF LoadPage, stampVars
  <2>3. c \notin DOMAIN task'.updates
    BY <2>1, <2>2 DEF SeqInv, SeqOf, TypeInv, TaskShape
  <2>4. \A f \in Copies(c)' : DOMAIN f = {}
    <3>1. DOMAIN <<>> = {}
      BY EmptySeq
    <3> QED BY <2>1, <3>1 DEF Copies
  <2>5. \A f \in Copies(c)' : NotBefore(page'[c].boot, f)
    BY <2>4 DEF NotBefore
  <2> QED BY <2>1, <2>2, <2>3, <2>5 DEF AgeInv
<1>2. CASE ~LoadPage(c)
  <2>1. /\ page[c].st = "live" /\ page'[c].boot = page[c].boot
    <3>1. ~Gone(c)
      BY DEF Gone, NoPage
    <3> QED BY <1>0, <1>2, <3>1, PageMoves
            DEF Moved, Kept, Received, SameBoot, Pushed, HandedOver, Pages
  <2>2. \A m \in DOMAIN page[c].boot :
          /\ m \in Modules /\ page[c].boot[m] <= latest[m] /\ page[c].boot[m] <= latest'[m]
    <3>1. /\ DOMAIN page[c].boot \subseteq Modules
          /\ \A m \in DOMAIN page[c].boot : page[c].boot[m] \in Nat
      BY <1>0, MapFields DEF Pages, StampMaps
    <3> QED BY <1>0, <2>1, <3>1 DEF AgeOf
  <2>3. ASSUME c \in DOMAIN task'.updates
        PROVE  NotBefore(page[c].boot, task'.updates[c].carried)
    <3>1. CASE /\ c \in DOMAIN task.updates
               /\ task'.updates[c].carried = task.updates[c].carried
      BY <1>0, <2>1, <3>1 DEF AgeOf
    <3>2. CASE Rendered(task'.updates[c].carried, graph', latest')
      BY <1>0, <2>2, <3>2, LatestNotBefore
    <3> QED BY <2>3, <3>1, <3>2, NextUpdates
  <2>4. \A f \in Copies(c) : NotBefore(page[c].boot, f)
    BY <1>0, <2>1 DEF AgeOf
  <2>5. CASE Kept(c) \/ \E f \in Nat, carried \in CopyMaps : Received(c, f, carried)
    <3>1. /\ \A m \in DOMAIN page[c].factories :
               /\ m \in DOMAIN page'[c].factories
               /\ page'[c].factories[m].stamp >= page[c].factories[m].stamp
          /\ \A m \in DOMAIN page'[c].factories :
               \E f \in Copies(c) : m \in DOMAIN f /\ page'[c].factories[m] = f[m]
      BY <2>5, FactoriesGrow
    <3>2. SameBoot(c)
      BY <2>5 DEF Kept, Received
    <3>3. NotBefore(page[c].boot, page'[c].factories)
      BY <2>4, <3>1 DEF NotBefore
    <3>4. \A f \in Copies(c)' : f = page'[c].factories \/ f \in Copies(c)
      BY <3>2 DEF Copies, SameBoot
    <3>5. \A m \in DOMAIN page'[c].cache :
            \/ /\ m \in DOMAIN page'[c].boot
               /\ page'[c].cache[m].stamp = page'[c].boot[m]
            \/ /\ m \in DOMAIN page'[c].factories
               /\ page'[c].cache[m].stamp <= page'[c].factories[m].stamp
      <4>1. /\ \A m \in DOMAIN page'[c].factories : page'[c].factories[m].stamp \in Nat
            /\ \A m \in DOMAIN page[c].factories : page[c].factories[m].stamp \in Nat
            /\ \A m \in DOMAIN page[c].cache : page[c].cache[m].stamp \in Nat
        BY <1>0, CopyFields DEF Pages
      <4>2. \A m \in DOMAIN page[c].cache :
              \/ m \in DOMAIN page[c].boot /\ page[c].cache[m].stamp = page[c].boot[m]
              \/ /\ m \in DOMAIN page[c].factories
                 /\ page[c].cache[m].stamp <= page[c].factories[m].stamp
        BY <1>0, <2>1 DEF AgeOf
      <4>3. \A m \in DOMAIN page'[c].cache :
              \/ m \in DOMAIN page[c].cache /\ page'[c].cache[m] = page[c].cache[m]
              \/ /\ m \in DOMAIN page'[c].factories
                 /\ page'[c].cache[m] = page'[c].factories[m]
        BY <3>2 DEF SameBoot
      <4> QED BY <2>1, <3>1, <4>1, <4>2, <4>3
    <3> QED BY <2>1, <2>2, <2>3, <2>4, <3>3, <3>4, <3>5
  <2>6. CASE Pushed(c)
    <3>1. /\ page'[c].inbox = Append(page[c].inbox, NewPush(c))
          /\ page'[c].cache = page[c].cache /\ page'[c].factories = page[c].factories
          /\ page'[c].chunks = page[c].chunks /\ page[c].inbox \in Seq(Pushes)
      BY <1>0, <2>6 DEF Pushed, Pages
    <3>2. /\ NewPush(c) \in Pushes /\ c \in DOMAIN task.updates
          /\ NewPush(c).carried = task.updates[c].carried
      BY <2>6, Published DEF Pushed, NewPush
    <3>3. \A i \in DOMAIN page'[c].inbox :
            \/ page'[c].inbox[i] = NewPush(c)
            \/ i \in DOMAIN page[c].inbox /\ page'[c].inbox[i] = page[c].inbox[i]
      BY <3>1, <3>2, AppendProperties, LenProperties
    <3>4. \A f \in Copies(c)' : f = task.updates[c].carried \/ f \in Copies(c)
      BY <3>1, <3>2, <3>3 DEF Copies
    <3>5. NotBefore(page[c].boot, task.updates[c].carried)
      BY <1>0, <2>1, <3>2 DEF AgeOf
    <3> QED BY <1>0, <2>1, <2>2, <2>3, <2>4, <3>1, <3>4, <3>5 DEF AgeOf
  <2>7. ASSUME NEW k \in Chunks, HandedOver(c, k)
        PROVE  /\ \A f \in Copies(c)' : NotBefore(page[c].boot, f)
               /\ page'[c].cache = page[c].cache /\ page'[c].factories = page[c].factories
    <3>1. /\ page'[c].inbox = page[c].inbox
          /\ page'[c].cache = page[c].cache /\ page'[c].factories = page[c].factories
          /\ page'[c].chunks = page[c].chunks \cup {k} /\ Rendered(k.carried, graph', latest)
      BY <1>0, <2>7 DEF HandedOver, Pages
    <3>2. \A f \in Copies(c)' : f = k.carried \/ f \in Copies(c)
      BY <3>1 DEF Copies
    <3>3. NotBefore(page[c].boot, k.carried)
      BY <1>0, <2>2, <3>1, LatestNotBefore
    <3> QED BY <2>4, <3>1, <3>2, <3>3
  <2>8. CASE \E k \in Chunks : HandedOver(c, k)
    BY <1>0, <2>1, <2>2, <2>3, <2>7, <2>8 DEF AgeOf
  <2>9. ~Gone(c)
    BY DEF Gone, NoPage
  <2>10. \/ Kept(c) \/ Pushed(c) \/ \E k \in Chunks : HandedOver(c, k)
         \/ \E f \in Nat, carried \in CopyMaps : Received(c, f, carried)
    BY <1>2, <2>9, PageMoves DEF Moved
  <2> QED BY <2>5, <2>6, <2>8, <2>10
<1> QED BY <1>1, <1>2

\* What a page ran is not older than what it has in its place one step later.
LEMMA NotOlder ==
  ASSUME TypeInv, SeqInv, AgeInv, [Next]_vars, NEW c \in Clients,
         NEW m \in DOMAIN page[c].cache \cap DOMAIN page'[c].cache
  PROVE  page'[c].cache[m].stamp >= page[c].cache[m].stamp
<1>0. page[c] \in Pages /\ AgeOf(c) /\ page[c].cache[m].stamp \in Nat
  <2>1. page[c] \in Pages /\ page[c].cache \in CopyMaps
    BY DEF TypeInv, Pages
  <2> QED BY <2>1, CopyFields DEF AgeInv
<1>1. CASE page'[c].cache = page[c].cache
  BY <1>0, <1>1
<1>2. CASE Gone(c)
  <2>1. page'[c].cache = <<>>
    BY <1>2 DEF Gone, NoPage
  <2> QED BY <2>1, EmptySeq
<1>3. CASE LoadPage(c)
  <2>1. page[c].cache = <<>>
    BY <1>3 DEF LoadPage, SeqInv, SeqOf, NoPage
  <2> QED BY <2>1, EmptySeq
<1>4. CASE Kept(c) \/ \E f \in Nat, carried \in CopyMaps : Received(c, f, carried)
  <2>1. SameBoot(c)
    BY <1>4 DEF Kept, Received
  <2>2. CASE page[c].st # "live"
    BY <1>0, <2>1, <2>2 DEF SameBoot
  <2>3. CASE page[c].st = "live"
    <3>1. /\ \A x \in DOMAIN page[c].factories :
               /\ x \in DOMAIN page'[c].factories
               /\ page'[c].factories[x].stamp >= page[c].factories[x].stamp
          /\ \A x \in DOMAIN page'[c].factories :
               \E f \in Copies(c) : x \in DOMAIN f /\ page'[c].factories[x] = f[x]
          /\ page'[c].factories \in CopyMaps
      BY <1>4, FactoriesGrow
    <3>2. NotBefore(page[c].boot, page'[c].factories)
      BY <1>0, <2>3, <3>1 DEF NotBefore, AgeOf
    <3>3. /\ \A x \in DOMAIN page'[c].factories : page'[c].factories[x].stamp \in Nat
          /\ \A x \in DOMAIN page[c].factories : page[c].factories[x].stamp \in Nat
      BY <1>0, <3>1, CopyFields DEF Pages
    <3>4. \/ page'[c].cache[m] = page[c].cache[m]
          \/ m \in DOMAIN page'[c].factories /\ page'[c].cache[m] = page'[c].factories[m]
      BY <2>1 DEF SameBoot
    <3>5. \/ m \in DOMAIN page[c].boot /\ page[c].cache[m].stamp = page[c].boot[m]
          \/ /\ m \in DOMAIN page[c].factories
             /\ page[c].cache[m].stamp <= page[c].factories[m].stamp
      BY <1>0, <2>3 DEF AgeOf
    <3> QED BY <1>0, <3>1, <3>2, <3>3, <3>4, <3>5 DEF NotBefore
  <2> QED BY <2>2, <2>3
<1>5. CASE Pushed(c) \/ \E k \in Chunks : HandedOver(c, k)
  BY <1>0, <1>1, <1>5 DEF Pushed, HandedOver, Pages
<1> QED BY <1>2, <1>3, <1>4, <1>5, PageMoves DEF Moved

\* No page is open at first.
LEMMA InitAge == Init => AgeInv
<1> SUFFICES ASSUME Init
             PROVE  AgeInv
  OBVIOUS
<1>1. \A c \in Clients : page[c].st = "none"
  BY DEF Init, NoPage
<1>2. TopLevel(FirstSource) \subseteq Modules
  BY DEF TopLevel, Closure
<1> QED BY <1>1, <1>2 DEF Init, AgeInv, AgeOf

\* A module that ran in a page is never replaced there by an older copy, however late a
\* payload arrives and whether it is a patch or a lazy chunk (registerFactory).
THEOREM CopiesNeverGetOlder == Spec => NeverOlder
<1>1. Init => SeqInv
  BY InitSeq
<1>2. Init => AgeInv
  BY InitAge
<1>3. TypeInv /\ SeqInv /\ [Next]_vars => SeqInv'
  BY NextSeq
<1>4. TypeInv /\ TypeInv' /\ SeqInv /\ AgeInv /\ [Next]_vars => AgeInv'
  BY AgeStep, EvaluatedAge DEF AgeInv
<1>5. TypeInv /\ SeqInv /\ AgeInv /\ [Next]_vars =>
        [\A c \in Clients : \A m \in DOMAIN page[c].cache \cap DOMAIN page'[c].cache :
           page'[c].cache[m].stamp >= page[c].cache[m].stamp]_vars
  BY NotOlder
<1> QED BY <1>1, <1>2, <1>3, <1>4, <1>5, TypeInvariant, PTL DEF Spec, NeverOlder

-----------------------------------------------------------------------------
(* Stamps: the proof. *)

\* The sources, step by step.
LEMMA SourceStep ==
  ASSUME TypeInv, SourceInv, [Next]_vars
  PROVE  SourceInv'
<1> DEFINE Texts == \A m \in Modules : disk'[m].text <= edits'
           Read == \A m \in DOMAIN graph' :
                     /\ graph'[m].text <= disk'[m].text
                     /\ graph'[m].text = disk'[m].text => graph'[m] = disk'[m]
<1>0. /\ disk \in [Modules -> Sources] /\ edits \in Nat /\ task \in Tasks
      /\ \A m \in Modules : disk[m].text \in Nat
      /\ \A m \in DOMAIN graph : m \in Modules /\ graph[m].text \in Nat
  <2>1. 0 .. MaxEdits \subseteq Nat
    BY BoundsAssumption
  <2> QED BY <2>1 DEF TypeInv, GraphType, IsGraph, Sources
<1> SUFFICES Texts /\ Read
  BY DEF SourceInv
<1>1. ASSUME NEW m \in Modules, Edit(m)
      PROVE  Texts /\ Read
  <2>1. /\ edits' = edits + 1 /\ graph' = graph
        /\ disk' = disk \/ \E x \in Sources : x.text = edits + 1 /\ disk' = [disk EXCEPT ![m] = x]
    <3>1. PICK x : /\ disk' = disk \/ disk' = [disk EXCEPT ![m] = x]
                   /\ disk' # disk => \E s \in Shapes[m] :
                        x = [text |-> edits + 1, imports |-> s.imports, cjs |-> s.cjs]
      BY <1>1 DEF Edit
    <3>2. edits < MaxEdits
      BY <1>1 DEF Edit
    <3>3. \A s \in Shapes[m] : s.imports \subseteq Modules /\ s.cjs \in BOOLEAN
      BY ModulesAssumption
    <3>4. edits + 1 \in 0 .. MaxEdits
      BY <1>0, <3>2, BoundsAssumption
    <3>5. disk' # disk => x \in Sources /\ x.text = edits + 1
      BY <3>1, <3>3, <3>4 DEF Sources
    <3> QED BY <1>1, <3>1, <3>5 DEF Edit, graphVars
  <2>2. \A y \in Modules : disk'[y] = disk[y] \/ (y = m /\ disk'[y].text = edits + 1)
    BY <1>0, <2>1
  <2>3. Texts
    BY <1>0, <2>1, <2>2 DEF SourceInv
  <2>4. Read
    BY <1>0, <2>1, <2>2 DEF SourceInv
  <2> QED BY <2>3, <2>4
<1>2. ASSUME UNCHANGED <<disk, edits>>,
             graph' = graph \/ \E ms \in SUBSET Modules : graph' = FetchModules(ms)
      PROVE  Texts /\ Read
  <2>1. Texts
    BY <1>2 DEF SourceInv
  <2>2. CASE graph' = graph
    BY <1>2, <2>1, <2>2 DEF SourceInv
  <2>3. ASSUME NEW ms \in SUBSET Modules, graph' = FetchModules(ms)
        PROVE  Read
    <3>1. /\ IsGraph(FetchModules(ms))
          /\ \A m \in DOMAIN FetchModules(ms) :
               FetchModules(ms)[m] = IF m \in DOMAIN graph \ ms THEN graph[m] ELSE disk[m]
      BY FetchedGraph
    <3>2. DOMAIN FetchModules(ms) \subseteq Modules
      BY <3>1 DEF IsGraph
    <3>3. \A m \in DOMAIN graph' :
            /\ m \in Modules
            /\ graph'[m] = disk[m] \/ (m \in DOMAIN graph /\ graph'[m] = graph[m])
      BY <2>3, <3>1, <3>2
    <3> QED BY <1>0, <1>2, <3>3 DEF SourceInv
  <2> QED BY <1>2, <2>1, <2>2, <2>3
<1>3. CASE Compute
  BY <1>2, <1>3, Computed, RefetchedScanned DEF Compute, diskVars
<1>4. CASE Rebuild
  <2>1. task.files \cup pending_rescans \in SUBSET Modules
    BY DEF TypeInv, Tasks, GraphType, IsGraph
  <2>2. graph' = graph \/ graph' = FetchModules(task.files \cup pending_rescans)
    BY <1>4 DEF Rebuild
  <2> QED BY <1>2, <1>4, <2>1, <2>2 DEF Rebuild, diskVars
<1>5. CASE CompileLazyEntry
  <2>1. PICK r \in Routes : graph' = FetchModules(pending_rescans \cup ({r} \ DOMAIN graph))
    BY <1>5, Compiled
  <2>2. pending_rescans \cup ({r} \ DOMAIN graph) \in SUBSET Modules
    BY ModulesAssumption DEF TypeInv, GraphType, IsGraph
  <2> QED BY <1>2, <1>5, <2>1, <2>2 DEF CompileLazyEntry, diskVars
<1>6. CASE \/ \E files \in SUBSET events, rebuild \in BOOLEAN : StartHmr(files, rebuild)
           \/ ComputeFails \/ NumberPatches \/ HmrDone \/ StartRebuild
           \/ (\E c \in Clients : PublishPatch(c) \/ ClientStep(c))
           \/ (\E c \in Clients, r \in Routes : StartLazy(c, r))
           \/ UNCHANGED vars
  <2>1. UNCHANGED <<disk, edits, graph>>
    BY <1>6 DEF StartHmr, ComputeFails, NumberPatches, HmrDone, StartRebuild, PublishPatch,
       StartLazy, ClientStep, LoadPage, register_client, remove_client, ReceivePush,
       requestLazy, ReceiveChunk, notify_payload_delivered, diskVars, graphVars, vars
  <2> QED BY <1>2, <2>1
<1> HIDE DEF Texts, Read
<1> QED BY <1>1, <1>3, <1>4, <1>5, <1>6 DEF Next

\* A graph that keeps its sources renders its modules the same.
LEMMA SameRender ==
  ASSUME IsGraph(graph), NEW g, NEW m \in DOMAIN graph, g[m] = graph[m],
         \A d \in graph[m].imports : g[d].cjs = graph[d].cjs
  PROVE  render_module_code(g, m) = render_module_code(graph, m)
<1>1. {d \in g[m].imports : importee_interop(g, d)}
        = {d \in graph[m].imports : importee_interop(graph, d)}
  BY DEF importee_interop
<1> QED BY <1>1 DEF render_module_code

\* A scan that computes no update and finds an old module changed is known to have been
\* missed by every page that is open.
LEMMA ScanIsMissed ==
  ASSUME TypeInv, NEW ms \in SUBSET Modules, graph' = FetchModules(ms), NEW fs,
         missed' = FirstReadBy(fs, graph'), ms \cap DOMAIN graph \subseteq fs \cup pending_rescans
  PROVE  \/ \A x \in DOMAIN graph : x \in DOMAIN graph' /\ graph'[x] = graph[x]
         \/ \A c \in Clients : page[c].st # "none" => ~GotEveryScan(c)'
<1>1. /\ DOMAIN graph \subseteq DOMAIN graph'
      /\ \A x \in DOMAIN graph' : graph'[x] = IF x \in DOMAIN graph \ ms THEN graph[x] ELSE disk[x]
  BY FetchedGraph
<1>2. CASE \A x \in ms \cap DOMAIN graph : graph'[x] = graph[x]
  BY <1>1, <1>2
<1>3. ASSUME NEW x \in ms \cap DOMAIN graph, graph'[x] # graph[x]
      PROVE  \A c \in Clients : page[c].st # "none" => ~GotEveryScan(c)'
  <2> DEFINE reasons ==
        (IF \E m \in fs \cap DOMAIN graph : graph'[m] # graph[m] THEN {"scan"} ELSE {})
        \cup (IF \E m \in pending_rescans : graph'[m] # graph[m] THEN {"rescan"} ELSE {})
  <2>1. missed' = [c \in Clients |->
          missed[c] \cup (IF c \in Opened THEN reasons ELSE {})
          \cup (IF c \in Opened \ DOMAIN clients /\ reasons # {} THEN {"late"} ELSE {})]
    BY DEF FirstReadBy
  <2>2. "scan" \in reasons \/ "rescan" \in reasons
    BY <1>3
  <2> HIDE DEF reasons
  <2>3. \A c \in Clients : page[c].st # "none" => reasons \subseteq missed'[c]
    BY <2>1 DEF Opened
  <2> QED BY <2>2, <2>3 DEF GotEveryScan
<1> QED BY <1>2, <1>3

\* A module whose stamp stays renders the same, unless a scan that computes no update read
\* an edit: the HMR stage stamps all that changes.
LEMMA SameStampSameCode ==
  ASSUME TypeInv, SourceInv, [Next]_vars, NEW m \in DOMAIN graph, latest'[m] = latest[m]
  PROVE  /\ m \in DOMAIN graph'
         /\ \/ render_module_code(graph', m) = render_module_code(graph, m)
            \/ \A c \in Clients : page[c].st # "none" => ~GotEveryScan(c)'
<1>0. /\ IsGraph(graph) /\ graph[m].imports \subseteq DOMAIN graph /\ m \in Modules
      /\ \A x \in DOMAIN graph : graph[x].text \in Nat
  <2>1. 0 .. MaxEdits \subseteq Nat
    BY BoundsAssumption
  <2> QED BY <2>1 DEF TypeInv, GraphType, IsGraph, Sources
<1>1. ASSUME \A x \in DOMAIN graph : x \in DOMAIN graph' /\ graph'[x] = graph[x]
      PROVE  m \in DOMAIN graph' /\ render_module_code(graph', m) = render_module_code(graph, m)
  <2>1. graph'[m] = graph[m] /\ \A d \in graph[m].imports : graph'[d].cjs = graph[d].cjs
    BY <1>0, <1>1
  <2> QED BY <1>0, <1>1, <2>1, SameRender
<1>2. m \in DOMAIN graph'
  BY NextGraphType
<1>3. CASE Rebuild
  <2>1. CASE graph' = graph
    BY <1>1, <2>1
  <2>2. CASE graph' # graph
    <3>1. /\ graph' = FetchModules(task.files \cup pending_rescans)
          /\ missed' = FirstReadBy(task.files \ pending_rescans, graph')
      BY <1>3, <2>2 DEF Rebuild
    <3>2. task.files \cup pending_rescans \in SUBSET Modules
      BY DEF TypeInv, Tasks, GraphType, IsGraph
    <3> QED BY <1>1, <1>2, <3>1, <3>2, ScanIsMissed
  <2> QED BY <2>1, <2>2
<1>4. CASE CompileLazyEntry
  <2>1. PICK r \in Routes : graph' = FetchModules(pending_rescans \cup ({r} \ DOMAIN graph))
    BY <1>4, Compiled
  <2>2. pending_rescans \cup ({r} \ DOMAIN graph) \in SUBSET Modules
    BY ModulesAssumption DEF TypeInv, GraphType, IsGraph
  <2>3. missed' = FirstReadBy({}, graph')
    BY <1>4 DEF CompileLazyEntry
  <2> QED BY <1>1, <1>2, <2>1, <2>2, <2>3, ScanIsMissed
<1>5. CASE Compute
  <2>1. PICK changed \in SUBSET Modules :
          /\ changed = Refetched \ Unchanged(Refetched, graph')
          /\ latest' = Stamped(changed \cup (DOMAIN graph' \ DOMAIN graph)
                                 \cup rerendered_importers(graph', changed))
    BY <1>5, Computed
  <2>2. m \notin changed /\ m \notin rerendered_importers(graph', changed)
    <3>1. latest[m] < rebuild_seq + 1
      BY <1>0 DEF TypeInv, GraphType
    <3>2. \A S : \A x \in Modules : x \in S => Stamped(S)[x] = rebuild_seq + 1
      BY DEF Stamped
    <3>3. rebuild_seq + 1 # latest[m]
      BY <1>0, <3>1 DEF TypeInv, GraphType
    <3> QED BY <1>0, <2>1, <3>2, <3>3
  <2>3. /\ DOMAIN graph \subseteq DOMAIN graph' /\ Refetched \subseteq DOMAIN graph
        /\ \A x \in DOMAIN graph' :
             graph'[x] = IF x \in DOMAIN graph \ Refetched THEN graph[x] ELSE disk[x]
    <3>1. graph' = FetchModules(Refetched) /\ DOMAIN graph \subseteq DOMAIN graph'
          /\ Refetched \subseteq DOMAIN graph /\ Refetched \subseteq Modules
      BY <1>5, Computed, RefetchedScanned
    <3>2. \A x \in DOMAIN FetchModules(Refetched) :
            FetchModules(Refetched)[x]
              = IF x \in DOMAIN graph \ Refetched THEN graph[x] ELSE disk[x]
      BY <3>1, FetchedGraph
    <3> QED BY <3>1, <3>2
  <2>4. CASE m \in Refetched
    BY <1>0, <2>1, <2>2, <2>3, <2>4 DEF Unchanged
  <2>5. CASE m \notin Refetched
    <3>1. graph'[m] = graph[m] /\ m \in DOMAIN graph'
      BY <2>3, <2>5
    <3>2. ASSUME NEW d \in graph[m].imports
          PROVE  graph'[d].cjs = graph[d].cjs
      <4>1. d \in DOMAIN graph /\ d \in DOMAIN graph'
        BY <1>0, <2>3
      <4>2. CASE d \notin Refetched
        BY <2>3, <4>1, <4>2
      <4>3. CASE d \in changed
        <5>1. graph'[m].imports \cap {x \in changed : importee_interop(graph, x)
                                                       # importee_interop(graph', x)} = {}
          BY <2>2, <3>1 DEF rerendered_importers
        <5> QED BY <3>1, <4>3, <5>1 DEF importee_interop
      <4>4. CASE d \in Refetched \ changed
        <5>1. render_module_code(graph, d) = render_module_code(graph', d)
          BY <2>1, <4>4 DEF Unchanged
        <5>2. graph[d].text = graph'[d].text
          BY <5>1 DEF render_module_code
        <5>3. graph'[d] = disk[d]
          BY <2>3, <4>1, <4>4
        <5>4. graph[d] = disk[d]
          BY <4>1, <5>2, <5>3 DEF SourceInv
        <5> QED BY <5>3, <5>4
      <4> QED BY <4>2, <4>3, <4>4
    <3> QED BY <1>0, <3>1, <3>2, SameRender
  <2> QED BY <2>4, <2>5
<1>6. CASE graph' = graph
  BY <1>6
<1>7. graph' = graph \/ Compute \/ Rebuild \/ CompileLazyEntry
  BY DEF Next, ClientStep, Edit, StartHmr, ComputeFails, NumberPatches, PublishPatch, HmrDone,
     StartRebuild, StartLazy, LoadPage, register_client, remove_client, ReceivePush,
     requestLazy, ReceiveChunk, notify_payload_delivered, graphVars, vars
<1> QED BY <1>3, <1>4, <1>5, <1>6, <1>7

\* What the server has sent or is about to send are maps of copies.
LEMMA AllCopiesType ==
  ASSUME TypeInv
  PROVE  AllCopies \subseteq CopyMaps
<1>1. \A c \in Clients : Copies(c) \subseteq CopyMaps
  <2> SUFFICES ASSUME NEW c \in Clients
               PROVE  Copies(c) \subseteq CopyMaps
    OBVIOUS
  <2>1. /\ page[c].factories \in CopyMaps /\ page[c].inbox \in Seq(Pushes)
        /\ page[c].chunks \subseteq Chunks
    BY DEF TypeInv, Pages
  <2>2. \A i \in DOMAIN page[c].inbox : page[c].inbox[i] \in Pushes
    BY <2>1
  <2>3. /\ \A p \in Pushes : p.carried \in CopyMaps
        /\ \A k \in Chunks : k.carried \in CopyMaps
    BY DEF Pushes, Chunks
  <2> QED BY <2>1, <2>2, <2>3 DEF Copies
<1> QED BY <1>1, ServerFields DEF AllCopies, SentTo

\* A copy of m as the graph has it now.
Fresh(m, copy) ==
  m \in DOMAIN graph /\ copy.stamp = latest[m] /\ copy.code = render_module_code(graph, m)

\* A copy for a page was there before the step or is fresh after it.
LEMMA NextSent ==
  ASSUME TypeInv, TypeInv', [Next]_vars, NEW c \in Clients, NEW f \in SentTo(c)',
         NEW m \in DOMAIN f
  PROVE  \/ \E g \in SentTo(c) : m \in DOMAIN g /\ f[m] = g[m]
         \/ Fresh(m, f[m])'
<1>0. IsGraph(graph') /\ latest' \in [Modules -> Nat]
  <2>1. latest' \in [Modules -> 0 .. rebuild_seq'] /\ rebuild_seq' \in Nat /\ IsGraph(graph')
    BY DEF TypeInv, GraphType
  <2> QED BY <2>1
<1>1. ASSUME c \in DOMAIN task'.updates, f = task'.updates[c].carried
      PROVE  \/ \E g \in SentTo(c) : m \in DOMAIN g /\ f[m] = g[m]
             \/ Fresh(m, f[m])'
  <2>1. CASE c \in DOMAIN task.updates /\ f = task.updates[c].carried
    BY <2>1 DEF SentTo
  <2>2. CASE Rendered(f, graph', latest')
    BY <1>0, <2>2, RenderedScanned DEF Fresh
  <2> QED BY <1>1, <2>1, <2>2, NextUpdates
<1>2. ASSUME f \in Copies(c)'
      PROVE  \/ \E g \in SentTo(c) : m \in DOMAIN g /\ f[m] = g[m]
             \/ Fresh(m, f[m])'
  <2>0. page[c] \in Pages /\ \A g \in Copies(c) : g \in SentTo(c)
    BY DEF TypeInv, SentTo
  <2>1. CASE f \in Copies(c)
    BY <2>0, <2>1
  <2>2. CASE Gone(c) \/ LoadPage(c)
    <3>1. page'[c].factories = <<>> /\ page'[c].inbox = <<>> /\ page'[c].chunks = {}
      <4>1. CASE Gone(c)
        BY <4>1 DEF Gone, NoPage
      <4>2. CASE LoadPage(c)
        BY <4>2, Loaded
      <4> QED BY <2>2, <4>1, <4>2
    <3>2. DOMAIN <<>> = {}
      BY EmptySeq
    <3>3. f = <<>>
      BY <1>2, <3>1, <3>2 DEF Copies
    <3> QED BY <3>2, <3>3
  <2>3. CASE Kept(c) \/ \E h \in Nat, carried \in CopyMaps : Received(c, h, carried)
    <3>1. \A x \in DOMAIN page'[c].factories :
            \E g \in Copies(c) : x \in DOMAIN g /\ page'[c].factories[x] = g[x]
      BY <2>3, FactoriesGrow
    <3>2. SameBoot(c)
      BY <2>3 DEF Kept, Received
    <3>3. f = page'[c].factories \/ f \in Copies(c)
      BY <1>2, <3>2 DEF Copies, SameBoot
    <3> QED BY <2>0, <2>1, <3>1, <3>3
  <2>4. CASE Pushed(c)
    <3>1. /\ page'[c].inbox = Append(page[c].inbox, NewPush(c))
          /\ page'[c].factories = page[c].factories
          /\ page'[c].chunks = page[c].chunks /\ page[c].inbox \in Seq(Pushes)
      BY <2>0, <2>4 DEF Pushed, Pages
    <3>2. /\ NewPush(c) \in Pushes /\ c \in DOMAIN task.updates
          /\ NewPush(c).carried = task.updates[c].carried
      BY <2>4, Published DEF Pushed, NewPush
    <3>3. \A i \in DOMAIN page'[c].inbox :
            \/ page'[c].inbox[i] = NewPush(c)
            \/ i \in DOMAIN page[c].inbox /\ page'[c].inbox[i] = page[c].inbox[i]
      BY <3>1, <3>2, AppendProperties, LenProperties
    <3>4. f = task.updates[c].carried \/ f \in Copies(c)
      BY <1>2, <3>1, <3>2, <3>3 DEF Copies
    <3> QED BY <2>1, <3>2, <3>4 DEF SentTo
  <2>5. ASSUME NEW k \in Chunks, HandedOver(c, k)
        PROVE  f \in Copies(c) \/ Fresh(m, f[m])'
    <3>1. /\ page'[c].inbox = page[c].inbox
          /\ page'[c].factories = page[c].factories
          /\ page'[c].chunks = page[c].chunks \cup {k} /\ Rendered(k.carried, graph', latest)
      BY <2>0, <2>5 DEF HandedOver, Pages
    <3>2. latest' = latest
      BY <2>5 DEF HandedOver, CompileLazyEntry, stampVars
    <3>3. f = k.carried \/ f \in Copies(c)
      BY <1>2, <3>1 DEF Copies
    <3>4. f = k.carried => Fresh(m, f[m])'
      BY <1>0, <3>1, <3>2, RenderedScanned DEF Fresh
    <3> QED BY <3>3, <3>4
  <2> QED BY <2>1, <2>2, <2>3, <2>4, <2>5, PageMoves DEF Moved
<1> QED BY <1>1, <1>2 DEF SentTo

\* Nothing has been sent to a page that is not open.
LEMMA SentToOpened ==
  ASSUME TypeInv, SeqInv, NEW c \in Clients, NEW f \in SentTo(c), NEW m \in DOMAIN f
  PROVE  page[c].st # "none"
<1> SUFFICES ASSUME page[c].st = "none"
             PROVE  FALSE
  OBVIOUS
<1>1. page[c] = NoPage("none") /\ c \notin DOMAIN task.snapshot
  BY DEF SeqInv, SeqOf
<1>2. c \notin DOMAIN task.updates
  BY <1>1 DEF TypeInv, TaskShape
<1>3. page[c].factories = <<>> /\ page[c].inbox = <<>> /\ page[c].chunks = {}
  BY <1>1 DEF NoPage
<1>4. DOMAIN <<>> = {}
  BY EmptySeq
<1> QED BY <1>2, <1>3, <1>4 DEF SentTo, Copies

\* One stamp goes on naming one factory.
LEMMA StampStep ==
  ASSUME TypeInv, TypeInv', SeqInv, SourceInv, StampInv, [Next]_vars
  PROVE  StampInv'
<1> DEFINE Known(m, copy) == m \in DOMAIN graph' /\ copy.stamp <= latest'[m]
           Sure(m, copy) ==
             copy.stamp = latest'[m] => copy.code = render_module_code(graph', m)
<1>0. \A x \in Modules : latest'[x] >= latest[x] /\ latest[x] \in Nat /\ latest'[x] \in Nat
  <2>1. GraphType'
    BY NextGraphType
  <2> QED BY <2>1, StampsGrow DEF GraphType
<1>1. ASSUME NEW c \in Clients, NEW g \in SentTo(c), NEW m \in DOMAIN g
      PROVE  Known(m, g[m]) /\ (GotEveryScan(c)' => GotEveryScan(c) /\ Sure(m, g[m]))
  <2>1. g \in AllCopies /\ (GotEveryScan(c) => g \in SureCopies)
    BY DEF AllCopies, SureCopies
  <2>2. /\ m \in DOMAIN graph /\ g[m].stamp <= latest[m]
        /\ GotEveryScan(c) /\ g[m].stamp = latest[m] => g[m].code = render_module_code(graph, m)
    BY <2>1 DEF StampInv
  <2>3. m \in Modules /\ m \in DOMAIN graph'
    BY <2>2, NextGraphType DEF TypeInv, GraphType, IsGraph
  <2>4. g[m].stamp \in Nat
    BY <2>1, AllCopiesType, CopyFields
  <2>5. g[m].stamp <= latest'[m]
    BY <1>0, <2>2, <2>3, <2>4
  <2>6. GotEveryScan(c)' => GotEveryScan(c)
    BY MissedGrows DEF GotEveryScan
  <2>7. ASSUME GotEveryScan(c)', g[m].stamp = latest'[m]
        PROVE  g[m].code = render_module_code(graph', m)
    <3>1. latest'[m] = latest[m]
      BY <1>0, <2>2, <2>3, <2>4, <2>7
    <3>2. page[c].st # "none"
      BY SentToOpened
    <3> QED BY <2>2, <2>6, <2>7, <3>1, <3>2, SameStampSameCode
  <2> QED BY <2>3, <2>5, <2>6, <2>7
<1>2. ASSUME NEW m, NEW copy, Fresh(m, copy)'
      PROVE  Known(m, copy) /\ Sure(m, copy)
  <2>1. m \in Modules
    BY <1>2 DEF Fresh, TypeInv, GraphType, IsGraph
  <2> QED BY <1>0, <1>2, <2>1 DEF Fresh
<1>3. ASSUME NEW c \in Clients, NEW f \in SentTo(c)', NEW m \in DOMAIN f
      PROVE  Known(m, f[m]) /\ (GotEveryScan(c)' => Sure(m, f[m]))
  <2>1. CASE Fresh(m, f[m])'
    BY <1>2, <2>1
  <2>2. ASSUME NEW g \in SentTo(c), m \in DOMAIN g, f[m] = g[m]
        PROVE  Known(m, f[m]) /\ (GotEveryScan(c)' => Sure(m, f[m]))
    <3> HIDE DEF Known, Sure
    <3> QED BY <1>1, <2>2
  <2> HIDE DEF Known, Sure
  <2> QED BY <2>1, <2>2, NextSent
<1>4. ASSUME NEW c \in Clients, NEW d \in Clients, GotEveryScan(c)', GotEveryScan(d)',
             NEW f \in SentTo(c)', NEW g \in SentTo(d)', NEW m \in DOMAIN f \cap DOMAIN g,
             f[m].stamp = g[m].stamp
      PROVE  f[m].code = g[m].code
  <2>1. CASE Fresh(m, f[m])' \/ Fresh(m, g[m])'
    <3>1. Sure(m, f[m]) /\ Sure(m, g[m])
      <4> HIDE DEF Known, Sure
      <4> QED BY <1>3, <1>4
    <3> QED BY <1>4, <2>1, <3>1 DEF Fresh
  <2>2. ASSUME NEW h \in SentTo(c), NEW k \in SentTo(d), m \in DOMAIN h, m \in DOMAIN k,
               f[m] = h[m], g[m] = k[m]
        PROVE  f[m].code = g[m].code
    <3>1. h \in SureCopies /\ k \in SureCopies
      BY <1>4, MissedGrows DEF SureCopies, GotEveryScan
    <3> QED BY <1>4, <2>2, <3>1 DEF StampInv
  <2> QED BY <2>1, <2>2, NextSent
<1>5. \A f \in AllCopies' : \A m \in DOMAIN f : Known(m, f[m])
  <2> HIDE DEF Known, Sure
  <2> QED BY <1>3 DEF AllCopies
<1>6. \A f \in SureCopies' : \A m \in DOMAIN f : Sure(m, f[m])
  <2> HIDE DEF Known, Sure
  <2> QED BY <1>3 DEF SureCopies
<1>7. \A f, g \in SureCopies' : \A m \in DOMAIN f \cap DOMAIN g :
        f[m].stamp = g[m].stamp => f[m].code = g[m].code
  BY <1>4 DEF SureCopies
<1> QED BY <1>5, <1>6, <1>7 DEF StampInv

\* The graph is read from the disk and nothing has been sent at first.
LEMMA InitStamps == Init => SourceInv /\ StampInv
<1> SUFFICES ASSUME Init
             PROVE  SourceInv /\ StampInv
  OBVIOUS
<1>1. SourceInv
  <2>1. /\ \A m \in Modules : disk[m].text = 0 /\ disk[m] = FirstSource[m]
        /\ edits = 0
    BY DEF Init, FirstSource
  <2>2. \A m \in DOMAIN graph : m \in Modules /\ graph[m] = FirstSource[m]
    BY DEF Init, Restrict, Closure
  <2> QED BY <2>1, <2>2 DEF SourceInv
<1>2. \A f \in AllCopies : DOMAIN f = {}
  <2>1. \A c \in Clients : page[c].factories = <<>> /\ page[c].inbox = <<>>
                           /\ page[c].chunks = {}
    BY DEF Init, NoPage
  <2>2. DOMAIN <<>> = {} /\ DOMAIN task.updates = {}
    BY EmptySeq, IdleType DEF Init
  <2> QED BY <2>1, <2>2 DEF AllCopies, SentTo, Copies
<1>3. SureCopies \subseteq AllCopies
  BY DEF SureCopies, AllCopies
<1> QED BY <1>1, <1>2, <1>3 DEF StampInv

\* Equal stamps mean equal code: in pages that were not open when a rebuild or a lazy
\* compile was the first to read an edit, no two payloads, delivered or on their way, name
\* two factories of a module by one stamp, whatever failed before and however importers
\* depend on the shape of what changed (compute_hmr_update_for_file_changes,
\* rerendered_importers, HmrStampTable).
THEOREM StampsNameOneFactory == Spec => []StampNamesOneFactory
<1>1. Init => SeqInv /\ SourceInv /\ StampInv
  BY InitSeq, InitStamps
<1>2. TypeInv /\ SeqInv /\ [Next]_vars => SeqInv'
  BY NextSeq
<1>3. TypeInv /\ SourceInv /\ [Next]_vars => SourceInv'
  BY SourceStep
<1>4. TypeInv /\ TypeInv' /\ SeqInv /\ SourceInv /\ StampInv /\ [Next]_vars => StampInv'
  BY StampStep
<1>5. StampInv => StampNamesOneFactory
  BY DEF StampInv, SureCopies, SentTo, StampNamesOneFactory
<1> QED BY <1>1, <1>2, <1>3, <1>4, <1>5, TypeInvariant, PTL DEF Spec

=============================================================================
