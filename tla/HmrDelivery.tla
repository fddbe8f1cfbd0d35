---------------------------- MODULE HmrDelivery ----------------------------
(***************************************************************************)
(* Hot updates of one dev server and the pages (clients) it serves: the    *)
(* HMR stage that turns changed files into one patch per client, lazily    *)
(* compiled routes, the stamp table, the ship map that delivery reports    *)
(* write, and the runtime in the page that stores factories, walks its own *)
(* module graph and re-runs modules.                                       *)
(*                                                                         *)
(* The bundler lock serializes hot updates, rebuilds and lazy compiles, so *)
(* there is one task; the clients lock is not held while a task computes,  *)
(* so clients connect, disconnect and report deliveries in between.        *)
(* Failures after the graph has been merged end in a full build and a      *)
(* reload of every client (BundleCoordinator) and are not repeated here.   *)
(***************************************************************************)
EXTENDS Naturals, Sequences, FiniteSets, Functions

CONSTANTS
  Modules,          \* the normal modules, lazy proxies left out
  Entry,            \* the single user-defined entry
  Routes,           \* modules the entry import()s through a lazy proxy
  Shapes,           \* module -> the [imports, cjs] edits give it; none: not edited
  FirstImports,     \* module -> the modules it imports at first
  Accepting,        \* modules that accept themselves
  AcceptedDeps,     \* <<importer, dependency>>: the importer accepts it
  Clients,          \* client ids; a page that reloads comes back as a new one
  MAX_PENDING_PAYLOADS_PER_CLIENT,
  Failures,         \* stages that may fail: "hmr", "rebuild", "import"
  MaxEdits          \* bound: edits of files

ASSUME ModulesAssumption ==
  /\ Entry \in Modules
  /\ Routes \subseteq Modules \ {Entry}
  /\ Shapes \in [Modules -> SUBSET [imports : SUBSET Modules, cjs : BOOLEAN]]
  /\ FirstImports \in [Modules -> SUBSET Modules]
  /\ Accepting \subseteq Modules
  /\ AcceptedDeps \subseteq Modules \X Modules

ASSUME BoundsAssumption ==
  /\ MAX_PENDING_PAYLOADS_PER_CLIENT \in Nat \ {0}
  /\ Failures \subseteq {"hmr", "rebuild", "import"}
  /\ MaxEdits \in Nat

VARIABLES
  \* The file system and the watcher.
  disk,               \* module -> its source
  edits,              \* edits so far; also names their texts
  events,             \* changed modules no task has taken yet
  \* The bundler: the module graph and the latest written output.
  graph,              \* scanned modules -> source
  pending_rescans,    \* modules whose scan failed
  output,             \* the graph the latest output was generated from
  stale,              \* has_stale_bundle_output
  \* DevContext.
  rebuild_seq, latest,    \* HmrStampTable; no entry reads as stamp 0
  clients,                \* connected client -> ClientSession
  pending_payloads,       \* filename -> PendingPayload
  top_level_evaluated,    \* module -> stamp, of the latest output
  last_task_errored,
  next_hmr_patch_id,
  \* The task that holds the bundler lock.
  task,
  \* The pages.
  page,
  missed              \* history: client -> what its page missed, of Reasons

diskVars == <<disk, edits, events>>
graphVars == <<graph, pending_rescans>>
outputVars == <<output, stale, top_level_evaluated>>
stampVars == <<rebuild_seq, latest>>
vars == <<diskVars, graphVars, outputVars, stampVars, clients, pending_payloads,
          last_task_errored, next_hmr_patch_id, task, page, missed>>

-----------------------------------------------------------------------------
(* Module graphs.  A source is what an edit can change: the text, the      *)
(* static imports and whether the module is CommonJS.                      *)

\* The least set with start that is closed under step.
Closure(start, step) ==
  {m \in Modules : \A X \in SUBSET Modules :
     (start \subseteq X /\ \A x \in X : step[x] \subseteq X) => m \in X}

Sources == [text : 0..MaxEdits, imports : SUBSET Modules, cjs : BOOLEAN]

static_deps(g, m) == IF m \in DOMAIN g THEN g[m].imports ELSE {}

\* Static and import() importers.  A lazy proxy stands for its route, so the
\* importer of a route is the module that called import().
importers(g, m) ==
  {p \in DOMAIN g : m \in g[p].imports} \cup (IF m \in Routes THEN {Entry} ELSE {})

\* What an importer's render reads from a normal importee.
importee_interop(g, m) == g[m].cjs

\* render_module_code: the factory of m in graph g.
render_module_code(g, m) ==
  [text |-> g[m].text, imports |-> g[m].imports,
   interop |-> {d \in g[m].imports : importee_interop(g, d)}]

\* The graph after a partial scan of ms: they are read again, and modules that
\* their imports reach for the first time are read too.
FetchModules(ms) ==
  LET unread(m) == m \in ms \/ m \notin DOMAIN graph
      read == Closure(ms, [m \in Modules |-> {d \in disk[m].imports : unread(d)}])
      scanned == ms \cup {m \in read : unread(m)}
  IN [m \in DOMAIN graph \cup scanned |->
        IF m \in scanned THEN disk[m] ELSE graph[m]]

\* The modules the entry chunk runs at top level.
TopLevel(g) == Closure({Entry}, [m \in Modules |-> static_deps(g, m)])

compute_top_level_evaluated_modules(g) == [m \in TopLevel(g) |-> latest[m]]

-----------------------------------------------------------------------------
(* What a client holds, and what it needs.                                 *)

\* HmrStampTable::is_stale
is_stale(lat, m, stamp) == lat[m] > stamp

\* ClientHeldCopies::holds_current
holds_current(lat, map, m) == m \in DOMAIN map /\ ~is_stale(lat, m, map[m])

\* Variant: the walk also stops at shipped modules.
StopAtShipped(g, lat, targets, shipped, evaluated) ==
  LET held(m) == holds_current(lat, evaluated, m) \/ holds_current(lat, shipped, m)
      visited == Closure(targets, [m \in Modules |->
                           IF held(m) THEN {} ELSE static_deps(g, m)])
  IN {m \in visited : ~held(m)}

\* collect_unheld_sync_deps: goes through shipped modules, stops at evaluated ones.
collect_unheld_sync_deps(g, lat, targets, shipped, evaluated) ==
  LET live(m) == holds_current(lat, evaluated, m)
      visited == Closure(targets, [m \in Modules |->
                           IF live(m) THEN {} ELSE static_deps(g, m)])
  IN {m \in visited : ~live(m) /\ ~holds_current(lat, shipped, m)}

\* collect_client_update_superset: what the walk of any client may re-run.
collect_client_update_superset(g, changed) ==
  Closure(changed, [m \in Modules |->
    IF m \in Accepting THEN {}
    ELSE {p \in importers(g, m) : <<p, m>> \notin AcceptedDeps}])

\* What a payload carries for each module, and what the pending entry keeps.
Payload(g, lat, ms) ==
  [m \in ms |-> [code |-> render_module_code(g, m), stamp |-> lat[m]]]
Stamps(carried) == [m \in DOMAIN carried |-> carried[m].stamp]

-----------------------------------------------------------------------------
(* Sessions and delivery.                                                  *)

(* Why a page may not have an update: it was loading while the update was   *)
(* computed ("late"); a scan that computes no update was the first to read  *)
(* the edit, from the files of its own task ("scan") or from those a failed *)
(* scan had left ("rescan"); the client left the patch alone ("skip"), with *)
(* an older copy of a changed module in the page or on its way ("older").   *)
Reasons == {"late", "scan", "rescan", "skip", "older"}
Missing(cs, reasons) ==
  [c \in Clients |-> IF c \in cs THEN missed[c] \cup reasons ELSE missed[c]]
Opened == {c \in Clients : page[c].st # "none"}

NewSession == [shipped |-> <<>>, evaluated |-> top_level_evaluated, next_seq |-> 0]

FilesOf(pp, c) == {f \in DOMAIN pp : pp[f].client_id = c}

\* insert_pending_payload: past the bound the oldest entry of the client goes.
insert_pending_payload(pp, f, c, modules) ==
  LET added == [g \in DOMAIN pp \cup {f} |->
                  IF g = f THEN [client_id |-> c, modules |-> modules] ELSE pp[g]]
      mine == FilesOf(added, c)
      evicted == {g \in mine : Cardinality({h \in mine : h > g})
                                 >= MAX_PENDING_PAYLOADS_PER_CLIENT}
  IN Restrict(added, DOMAIN added \ evicted)

\* DevEngine::register_client; a repeated hello keeps the session.
register_client(c) ==
  /\ page[c].st = "live" /\ c \notin DOMAIN clients
  /\ clients' = [d \in DOMAIN clients \cup {c} |->
                   IF d = c THEN NewSession ELSE clients[d]]
  /\ UNCHANGED <<diskVars, graphVars, outputVars, stampVars, pending_payloads,
                 last_task_errored, next_hmr_patch_id, task, page, missed>>

\* The record of a page that is not there.
NoPage(st) == [st |-> st, boot |-> <<>>, cache |-> <<>>, factories |-> <<>>,
               last_seq |-> 0, inbox |-> <<>>, lazyRequests |-> {},
               lazy |-> [r \in Routes |-> "none"], chunks |-> {}, ran |-> {}]

\* DevEngine::remove_client: the page has gone.
remove_client(c) ==
  /\ c \in DOMAIN clients
  /\ clients' = Restrict(clients, DOMAIN clients \ {c})
  /\ pending_payloads' = Restrict(pending_payloads,
                           DOMAIN pending_payloads \ FilesOf(pending_payloads, c))
  /\ page' = [page EXCEPT ![c] = NoPage("closed")]
  /\ UNCHANGED <<diskVars, graphVars, outputVars, stampVars, last_task_errored,
                 next_hmr_patch_id, task, missed>>

MaxMerge(a, b) == [m \in DOMAIN a \cup DOMAIN b |->
  IF m \notin DOMAIN a THEN b[m]
  ELSE IF m \notin DOMAIN b \/ a[m] > b[m] THEN a[m] ELSE b[m]]

\* DevEngine::notify_payload_delivered: a report of a payload that ran, any
\* number of times and as late as can be.
notify_payload_delivered(c, f) ==
  /\ f \in page[c].ran
  /\ f \in DOMAIN pending_payloads
  /\ pending_payloads' = Restrict(pending_payloads, DOMAIN pending_payloads \ {f})
  /\ clients' = IF c \in DOMAIN clients
                THEN [clients EXCEPT ![c].shipped =
                        MaxMerge(@, pending_payloads[f].modules)]
                ELSE clients
  /\ UNCHANGED <<diskVars, graphVars, outputVars, stampVars, last_task_errored,
                 next_hmr_patch_id, task, page, missed>>

-----------------------------------------------------------------------------
(* The server's tasks.                                                     *)

Idle == [phase |-> "idle", files |-> {}, rebuild |-> FALSE, hmr_errored |-> FALSE,
         snapshot |-> <<>>, changed |-> {}, updates |-> <<>>]

\* BundlingTask::run: what is kept of a task that ends.
EndTask(errored) ==
  /\ last_task_errored' = errored
  /\ task' = Idle

\* A file is saved, with a new text or without a change.  The watcher reports
\* files that are in the graph.
Edit(m) ==
  /\ edits < MaxEdits /\ Shapes[m] # {}
  /\ \/ disk' = disk
     \/ \E s \in Shapes[m] :
          disk' = [disk EXCEPT ![m] =
                     [text |-> edits + 1, imports |-> s.imports, cjs |-> s.cjs]]
  /\ edits' = edits + 1
  /\ events' = IF m \in DOMAIN graph THEN events \cup {m} ELSE events
  /\ UNCHANGED <<graphVars, outputVars, stampVars, clients, pending_payloads,
                 last_task_errored, next_hmr_patch_id, task, page, missed>>

\* An Hmr or HmrRebuild task takes the bundler lock and the per-client inputs.
StartHmr(files, rebuild) ==
  /\ task.phase = "idle"
  /\ files # {} /\ files \subseteq events
  /\ events' = events \ files
  /\ task' = [Idle EXCEPT !.phase = "compute", !.files = files,
                          !.rebuild = rebuild, !.snapshot = clients]
  /\ UNCHANGED <<disk, edits, graphVars, outputVars, stampVars, clients,
                 pending_payloads, last_task_errored, next_hmr_patch_id, page,
                 missed>>

\* compute_hmr_update_for_file_changes, up to a scan that fails.
ComputeFails ==
  /\ task.phase = "compute"
  /\ "hmr" \in Failures
  /\ pending_rescans' = pending_rescans \cup task.files
  /\ \/ /\ task.rebuild
        /\ task' = [task EXCEPT !.phase = "rebuild", !.hmr_errored = TRUE]
        /\ UNCHANGED <<last_task_errored, outputVars>>
     \/ /\ ~task.rebuild
        /\ stale' = TRUE
        /\ EndTask(TRUE)
        /\ UNCHANGED <<output, top_level_evaluated>>
  /\ UNCHANGED <<diskVars, graph, stampVars, clients, pending_payloads,
                 next_hmr_patch_id, page, missed>>

\* Changed modules whose render is the same before and after, except after an
\* errored task.
Unchanged(ms, g) ==
  {m \in ms : ~last_task_errored
              /\ render_module_code(graph, m) = render_module_code(g, m)}

\* Variant: an importer keeps its stamp when its importee's interop changes.
NoRerenderedImporters(g, changed) == {}

\* Importers whose factory changes with an interop fact of an importee.
rerendered_importers(g, changed) ==
  LET interop_changed == {m \in changed : importee_interop(graph, m)
                                            # importee_interop(g, m)}
  IN {m \in DOMAIN g \ changed : g[m].imports \cap interop_changed # {}}

\* The static imports that this rebuild added.
added_static_deps(g, changed, new) ==
  UNION {IF m \in new THEN g[m].imports ELSE g[m].imports \ graph[m].imports :
           m \in changed \cup new}

\* Variant: what a failed scan left is not treated as changed.
RefetchedNow == task.files

\* The modules to fetch again: the changed ones and those a failed scan left.
Refetched == task.files \cup pending_rescans

\* Variant: modules are stamped with the number of the rebuild to come.
StampedAhead(ms) == [m \in Modules |-> IF m \in ms THEN rebuild_seq + 2 ELSE latest[m]]

\* HmrStampTable::begin_rebuild and stamp.
Stamped(ms) == [m \in Modules |-> IF m \in ms THEN rebuild_seq + 1 ELSE latest[m]]

\* The modules one client's patch carries.
NeededBy(g, lat, affected, added, client) ==
  {m \in affected : m \notin DOMAIN client.shipped
                    \/ is_stale(lat, m, client.shipped[m])}
  \cup {m \in DOMAIN client.shipped : is_stale(lat, m, client.shipped[m])}
  \cup collect_unheld_sync_deps(g, lat, added, client.shipped, client.evaluated)

\* compute_hmr_update_for_file_changes; a client without an update got a Noop.
Compute ==
  /\ task.phase = "compute"
  /\ LET g == FetchModules(Refetched)
         new == DOMAIN g \ DOMAIN graph
         changed == Refetched \ Unchanged(Refetched, g)
         importer == rerendered_importers(g, changed)
         lat == Stamped(changed \cup new \cup importer)
         affected == collect_client_update_superset(g, changed) \cup new \cup importer
         need == [c \in DOMAIN task.snapshot |->
                    NeededBy(g, lat, affected, added_static_deps(g, changed, new),
                             task.snapshot[c])]
         patched == {c \in DOMAIN need : need[c] # {} \/ changed # {}}
     IN /\ graph' = g
        /\ rebuild_seq' = rebuild_seq + 1
        /\ latest' = lat
        /\ task' = [task EXCEPT !.phase = "number", !.changed = changed,
             !.updates = [c \in patched |-> [seq |-> 0, carried |-> Payload(g, lat, need[c])]]]
        /\ missed' = Missing({c \in Clients : page[c].st = "live"
                                /\ c \notin DOMAIN task.snapshot /\ changed # {}}, {"late"})
  /\ pending_rescans' = {}
  /\ UNCHANGED <<diskVars, outputVars, clients, pending_payloads,
                 last_task_errored, next_hmr_patch_id, page>>

\* Variant: a Noop takes a sequence number too.
NumberEveryClient ==
  /\ task.phase = "number"
  /\ clients' = [c \in DOMAIN clients |->
                   IF c \in DOMAIN task.snapshot
                   THEN [clients[c] EXCEPT !.next_seq = @ + 1] ELSE clients[c]]
  /\ task' = [task EXCEPT !.phase = "publish",
       !.updates = [c \in DOMAIN task.updates |-> [task.updates[c] EXCEPT
                      !.seq = IF c \in DOMAIN clients THEN clients[c].next_seq + 1 ELSE 0]]]
  /\ UNCHANGED <<diskVars, graphVars, outputVars, stampVars, pending_payloads,
                 last_task_errored, next_hmr_patch_id, page, missed>>

\* Patches of clients that are still connected get the next sequence number.
NumberPatches ==
  /\ task.phase = "number"
  /\ clients' = [c \in DOMAIN clients |->
                   IF c \in DOMAIN task.updates
                   THEN [clients[c] EXCEPT !.next_seq = @ + 1] ELSE clients[c]]
  /\ task' = [task EXCEPT !.phase = "publish",
       !.updates = [c \in DOMAIN task.updates |-> [task.updates[c] EXCEPT
                      !.seq = IF c \in DOMAIN clients THEN clients[c].next_seq + 1 ELSE 0]]]
  /\ UNCHANGED <<diskVars, graphVars, outputVars, stampVars, pending_payloads,
                 last_task_errored, next_hmr_patch_id, page, missed>>

\* Variant: the ship map is written when the patch is pushed.
ShipAtPush(c) ==
  /\ task.phase = "publish" /\ c \in DOMAIN task.updates
  /\ LET u == task.updates[c]
     IN /\ clients' = IF c \notin DOMAIN clients THEN clients
                      ELSE [clients EXCEPT ![c].shipped = MaxMerge(@, Stamps(u.carried))]
        /\ page' = IF page[c].st # "live" THEN page
                   ELSE [page EXCEPT ![c].inbox = Append(@,
                           [seq |-> u.seq, changed |-> task.changed,
                            file |-> next_hmr_patch_id, carried |-> u.carried])]
  /\ next_hmr_patch_id' = next_hmr_patch_id + 1
  /\ task' = [task EXCEPT !.updates = Restrict(@, DOMAIN @ \ {c})]
  /\ UNCHANGED <<diskVars, graphVars, outputVars, stampVars, pending_payloads,
                 last_task_errored, missed>>

\* One patch is recorded as pending and handed to its client's page.
PublishPatch(c) ==
  /\ task.phase = "publish" /\ c \in DOMAIN task.updates
  /\ LET u == task.updates[c]
         f == next_hmr_patch_id
     IN /\ pending_payloads' = insert_pending_payload(pending_payloads, f, c, Stamps(u.carried))
        /\ page' = IF page[c].st # "live" THEN page
                   ELSE [page EXCEPT ![c].inbox = Append(@,
                           [seq |-> u.seq, changed |-> task.changed,
                            file |-> f, carried |-> u.carried])]
  /\ next_hmr_patch_id' = next_hmr_patch_id + 1
  /\ task' = [task EXCEPT !.updates = Restrict(@, DOMAIN @ \ {c})]
  /\ UNCHANGED <<diskVars, graphVars, outputVars, stampVars, clients,
                 last_task_errored, missed>>

\* Every patch is out: the rebuild of an HmrRebuild task follows.
HmrDone ==
  /\ task.phase = "publish" /\ task.updates = <<>>
  /\ \/ /\ task.rebuild
        /\ task' = [task EXCEPT !.phase = "rebuild"]
        /\ UNCHANGED <<last_task_errored, outputVars>>
     \/ /\ ~task.rebuild
        /\ stale' = TRUE
        /\ EndTask(FALSE)
        /\ UNCHANGED <<output, top_level_evaluated>>
  /\ UNCHANGED <<diskVars, graphVars, stampVars, clients, pending_payloads,
                 next_hmr_patch_id, page, missed>>

\* A page load or a lazy compile asks for an output without changed files.
StartRebuild ==
  /\ task.phase = "idle" /\ stale
  /\ task' = [Idle EXCEPT !.phase = "rebuild", !.rebuild = TRUE]
  /\ UNCHANGED <<diskVars, graphVars, outputVars, stampVars, clients,
                 pending_payloads, last_task_errored, next_hmr_patch_id, page, missed>>

\* What pages miss when a scan of ms that computes no update brings the graph to g.
\* One that has not said hello would have missed the update too.
FirstReadBy(ms, g) ==
  LET reasons ==
        (IF \E m \in ms \cap DOMAIN graph : g[m] # graph[m] THEN {"scan"} ELSE {})
        \cup (IF \E m \in pending_rescans : g[m] # graph[m] THEN {"rescan"} ELSE {})
  IN [c \in Clients |->
        missed[c] \cup (IF c \in Opened THEN reasons ELSE {})
        \cup (IF c \in Opened \ DOMAIN clients /\ reasons # {} THEN {"late"} ELSE {})]

\* BundlingTask::rebuild.
Rebuild ==
  /\ task.phase = "rebuild"
  /\ \/ /\ "rebuild" \in Failures
        /\ pending_rescans' = pending_rescans \cup task.files
        /\ stale' = TRUE
        /\ EndTask(TRUE)
        /\ UNCHANGED <<graph, output, top_level_evaluated, missed>>
     \/ /\ graph' = FetchModules(task.files \cup pending_rescans)
        /\ missed' = FirstReadBy(task.files \ pending_rescans, graph')
        /\ pending_rescans' = {}
        /\ output' = graph'
        /\ top_level_evaluated' = compute_top_level_evaluated_modules(graph')
        /\ stale' = task.hmr_errored
        /\ EndTask(task.hmr_errored)
  /\ UNCHANGED <<diskVars, stampVars, clients, pending_payloads,
                 next_hmr_patch_id, page>>

\* DevEngine::compile_lazy_entry takes the bundler lock and the ship map.
StartLazy(c, r) ==
  /\ task.phase = "idle"
  /\ page[c].lazy[r] = "sent"
  /\ task' = [Idle EXCEPT !.phase = "lazy", !.files = {r}, !.snapshot =
                [d \in {c} |-> IF c \in DOMAIN clients THEN clients[c]
                               ELSE [NewSession EXCEPT !.evaluated = <<>>]]]
  /\ page' = [page EXCEPT ![c].lazy[r] = "served"]
  /\ UNCHANGED <<diskVars, graphVars, outputVars, stampVars, clients,
                 pending_payloads, last_task_errored, next_hmr_patch_id, missed>>

\* The rest of compile_lazy_entry: scan, merge, render, record, respond.
CompileLazyEntry ==
  /\ task.phase = "lazy"
  /\ LET c == CHOOSE d \in DOMAIN task.snapshot : TRUE
         proxied == CHOOSE m \in task.files : TRUE
         g == FetchModules(pending_rescans \cup ({proxied} \ DOMAIN graph))
         f == next_hmr_patch_id
         carried == Payload(g, latest,
                      collect_unheld_sync_deps(g, latest, {proxied}, task.snapshot[c].shipped,
                                               task.snapshot[c].evaluated))
     IN /\ graph' = g
        /\ missed' = FirstReadBy({}, g)
        /\ pending_payloads' = insert_pending_payload(pending_payloads, f, c, Stamps(carried))
        /\ page' = IF page[c].st # "live" THEN page
                   ELSE [page EXCEPT ![c].chunks = @ \cup
                           {[file |-> f, route |-> proxied, carried |-> carried]}]
  /\ pending_rescans' = {}
  /\ next_hmr_patch_id' = next_hmr_patch_id + 1
  /\ stale' = TRUE
  /\ task' = Idle
  /\ UNCHANGED <<diskVars, output, top_level_evaluated, stampVars, clients,
                 last_task_errored>>

-----------------------------------------------------------------------------
(* The page: DevRuntime and the client that drives it.                     *)

\* The entry chunk of the latest output runs; the hello comes later.
LoadPage(c) ==
  /\ page[c].st = "none" /\ ~stale
  /\ page' = [page EXCEPT ![c] = [NoPage("live") EXCEPT
       !.boot = top_level_evaluated,
       !.cache = [m \in TopLevel(output) |->
                    [code |-> render_module_code(output, m),
                     stamp |-> top_level_evaluated[m]]]]]
  /\ missed' = IF \E m \in TopLevel(output) : output[m] # graph[m]
               THEN Missing({c}, {"late"}) ELSE missed
  /\ UNCHANGED <<diskVars, graphVars, outputVars, stampVars, clients,
                 pending_payloads, last_task_errored, next_hmr_patch_id, task>>

\* Variant: the last copy to arrive stays.
LastFactoryWins(factories, carried) ==
  [m \in DOMAIN factories \cup DOMAIN carried |->
     IF m \in DOMAIN carried THEN carried[m] ELSE factories[m]]

\* registerFactory (and registerGraph) for a payload: the newest copy stays.
registerFactory(factories, carried) ==
  [m \in DOMAIN factories \cup DOMAIN carried |->
     IF m \notin DOMAIN carried THEN factories[m]
     ELSE IF m \in DOMAIN factories /\ carried[m].stamp < factories[m].stamp
          THEN factories[m] ELSE carried[m]]

\* The static imports in the page's graph row of m.
Row(cache, factories, m) ==
  IF m \in DOMAIN factories THEN factories[m].code.imports
  ELSE IF m \in DOMAIN cache THEN cache[m].code.imports ELSE {}

\* What initModule of ms runs: they and their imports, down to modules that ran.
Runs(cache, factories, ms) ==
  Closure(ms \ DOMAIN cache,
          [m \in Modules |-> Row(cache, factories, m) \ DOMAIN cache])

\* isRunnableHere
isRunnableHere(p, r) == Runs(p.cache, p.factories, {r}) \subseteq DOMAIN p.factories

\* initModule of ms: a module without a factory throws MissingFactoryError.
initModule(p, ms) ==
  LET run == Runs(p.cache, p.factories, ms)
  IN IF run \subseteq DOMAIN p.factories
     THEN [p EXCEPT !.cache = [m \in DOMAIN p.cache \cup run |->
                                 IF m \in run THEN p.factories[m] ELSE p.cache[m]]]
     ELSE [p EXCEPT !.st = "broken"]

\* getImporters, of those that ran.
getImporters(p, m) ==
  {i \in DOMAIN p.cache : m \in Row(p.cache, p.factories, i)}
  \cup (IF m \in Routes THEN {Entry} \cap DOMAIN p.cache ELSE {})

\* The walk from the changed modules that ran, up to boundaries.
UpdateSet(p, changed) ==
  Closure(changed \cap DOMAIN p.cache,
          [m \in Modules |-> IF m \in Accepting THEN {}
                             ELSE {i \in getImporters(p, m) : <<i, m>> \notin AcceptedDeps}])

\* Modules a boundary re-runs: it accepts itself, or an importer accepts it.
Boundaries(p, update) ==
  {m \in update : m \in Accepting
                  \/ \E i \in getImporters(p, m) : <<i, m>> \in AcceptedDeps}

\* No module that ran accepts the change, or the walk meets a cycle.
NoBoundary(p, update) ==
  \E m \in update \ Accepting :
    \/ getImporters(p, m) = {}
    \/ m \in Closure({i \in getImporters(p, m) : <<i, m>> \notin AcceptedDeps},
                     [x \in Modules |-> IF x \in Accepting THEN {}
                        ELSE {i \in getImporters(p, x) : <<i, x>> \notin AcceptedDeps}])

\* The patch's factories are registered; then the walk, the coverage check, the
\* evictions (removeModuleCache forgets the lazy request too) and the re-run.
ApplyUpdate(p, push) ==
  LET q == [p EXCEPT !.factories = registerFactory(@, push.carried),
                     !.ran = @ \cup {push.file}]
      update == UpdateSet(q, push.changed)
  IN IF NoBoundary(q, update) \/ ~(update \subseteq DOMAIN q.factories)
     THEN NoPage("reload")
     ELSE initModule([q EXCEPT !.cache = Restrict(@, DOMAIN @ \ update),
                               !.lazyRequests = @ \ update],
                     Boundaries(q, update))

\* The factories that a page holds or waits for.
Copies(c) ==
  {page[c].factories} \cup {page[c].inbox[i].carried : i \in DOMAIN page[c].inbox}
  \cup {k.carried : k \in page[c].chunks}

\* Is one of them an older copy of a changed module than the push brings?
HasOlder(c, push) ==
  \E m \in push.changed \cap DOMAIN push.carried : \E copies \in Copies(c) :
    m \in DOMAIN copies /\ copies[m].stamp < push.carried[m].stamp

\* A push reaches the page and is run.
RunPush(c) ==
  /\ page[c].inbox # <<>>
  /\ LET push == Head(page[c].inbox)
         p == [page[c] EXCEPT !.inbox = Tail(@), !.last_seq = push.seq]
     IN \/ page' = [page EXCEPT ![c] =
              IF push.seq # page[c].last_seq + 1 THEN NoPage("gap")
              ELSE ApplyUpdate(p, push)]
        \/ /\ "import" \in Failures
           /\ page' = [page EXCEPT ![c] = NoPage("reload")]
  /\ UNCHANGED missed

\* A push reaches the page and is left alone: none of the changed modules ran.
SkipPush(c) ==
  /\ page[c].inbox # <<>>
  /\ LET push == Head(page[c].inbox)
     IN /\ push.seq = page[c].last_seq + 1
        /\ push.changed \cap DOMAIN page[c].cache = {}
        /\ page' = [page EXCEPT ![c].inbox = Tail(@), ![c].last_seq = push.seq]
        /\ missed' = Missing({c}, IF HasOlder(c, push) THEN {"skip", "older"}
                                  ELSE {"skip"})

\* The client of src/ runs every patch; the one the design describes leaves those
\* of modules that never ran alone.  A failed import or a gap asks for a reload.
ReceivePush(c) ==
  /\ page[c].st = "live"
  /\ RunPush(c) \/ SkipPush(c)
  /\ UNCHANGED <<diskVars, graphVars, outputVars, stampVars, clients,
                 pending_payloads, last_task_errored, next_hmr_patch_id, task>>

\* requestLazy: the route runs from what the page holds, or its chunk is imported.
\* An import() joins an earlier one of the same URL, and runs no chunk twice.
requestLazy(c, r) ==
  /\ page[c].st = "live" /\ Entry \in DOMAIN page[c].cache
  /\ r \notin DOMAIN page[c].cache /\ r \notin page[c].lazyRequests
  /\ page' = [page EXCEPT ![c] =
       IF isRunnableHere(page[c], r) \/ page[c].lazy[r] = "landed"
       THEN initModule(page[c], {r})
       ELSE [page[c] EXCEPT !.lazyRequests = @ \cup {r},
                            !.lazy[r] = IF @ = "none" THEN "sent" ELSE @]]
  /\ UNCHANGED <<diskVars, graphVars, outputVars, stampVars, clients,
                 pending_payloads, last_task_errored, next_hmr_patch_id, task, missed>>

\* loadLazyChunk resolves: the chunk registers its factories and the route runs.
ReceiveChunk(c, k) ==
  /\ page[c].st = "live" /\ k \in page[c].chunks
  /\ page' = [page EXCEPT ![c] =
       initModule([page[c] EXCEPT !.factories = registerFactory(@, k.carried),
                                  !.ran = @ \cup {k.file},
                                  !.lazyRequests = @ \ {k.route},
                                  !.lazy[k.route] = "landed",
                                  !.chunks = @ \ {k}], {k.route})]
  /\ UNCHANGED <<diskVars, graphVars, outputVars, stampVars, clients,
                 pending_payloads, last_task_errored, next_hmr_patch_id, task, missed>>

-----------------------------------------------------------------------------
FirstSource == [m \in Modules |-> [text |-> 0, imports |-> FirstImports[m], cjs |-> FALSE]]

\* The output is fresh and no page is open; some routes may have been compiled
\* for earlier pages.
Init ==
  /\ disk = FirstSource
  /\ edits = 0 /\ events = {}
  /\ \E fetched \in SUBSET Routes :
       graph = Restrict(FirstSource, Closure(fetched \cup {Entry}, FirstImports))
  /\ pending_rescans = {}
  /\ output = graph
  /\ stale = FALSE
  /\ rebuild_seq = 0 /\ latest = [m \in Modules |-> 0]
  /\ clients = <<>>
  /\ pending_payloads = <<>>
  /\ top_level_evaluated = [m \in TopLevel(FirstSource) |-> 0]
  /\ last_task_errored = FALSE
  /\ next_hmr_patch_id = 0
  /\ task = Idle
  /\ page = [c \in Clients |-> NoPage("none")]
  /\ missed = [c \in Clients |-> {}]

ClientStep(c) ==
  \/ LoadPage(c)
  \/ register_client(c)
  \/ remove_client(c)
  \/ ReceivePush(c)
  \/ \E r \in Routes : requestLazy(c, r)
  \/ \E k \in page[c].chunks : ReceiveChunk(c, k)
  \/ \E f \in page[c].ran : notify_payload_delivered(c, f)

Next ==
  \/ \E m \in Modules : Edit(m)
  \/ \E files \in SUBSET events, rebuild \in BOOLEAN : StartHmr(files, rebuild)
  \/ ComputeFails
  \/ Compute
  \/ NumberPatches
  \/ \E c \in Clients : PublishPatch(c)
  \/ HmrDone
  \/ StartRebuild
  \/ Rebuild
  \/ \E c \in Clients, r \in Routes : StartLazy(c, r)
  \/ CompileLazyEntry
  \/ \E c \in Clients : ClientStep(c)

Spec == Init /\ [][Next]_vars

-----------------------------------------------------------------------------
(* Properties.                                                             *)

Codes == [text : 0..MaxEdits, imports : SUBSET Modules, interop : SUBSET Modules]
IsCopies(f) == /\ DOMAIN f \subseteq Modules
               /\ \A m \in DOMAIN f : f[m].code \in Codes /\ f[m].stamp \in Nat
IsStamps(f) == /\ DOMAIN f \subseteq Modules
               /\ \A m \in DOMAIN f : f[m] \in Nat

(* The values the components of the dev server and of the pages take. *)
TypeOK ==
  /\ disk \in [Modules -> Sources]
  /\ edits \in 0..MaxEdits /\ events \subseteq DOMAIN graph
  /\ DOMAIN graph \subseteq Modules
  /\ \A m \in DOMAIN graph : graph[m] \in Sources /\ graph[m].imports \subseteq DOMAIN graph
  /\ pending_rescans \subseteq DOMAIN graph
  /\ DOMAIN output \subseteq DOMAIN graph
  /\ stale \in BOOLEAN /\ last_task_errored \in BOOLEAN
  /\ rebuild_seq \in Nat /\ latest \in [Modules -> 0..rebuild_seq]
  /\ DOMAIN clients \subseteq Clients
  /\ \A c \in DOMAIN clients : /\ IsStamps(clients[c].shipped)
                               /\ IsStamps(clients[c].evaluated)
                               /\ clients[c].next_seq \in Nat
  /\ DOMAIN pending_payloads \subseteq 0..next_hmr_patch_id
  /\ \A f \in DOMAIN pending_payloads : IsStamps(pending_payloads[f].modules)
  /\ IsStamps(top_level_evaluated)
  /\ task.phase \in {"idle", "compute", "number", "publish", "rebuild", "lazy"}
  /\ \A c \in Clients : /\ page[c].st \in {"none", "live", "gap", "reload", "broken", "closed"}
                        /\ IsCopies(page[c].cache) /\ IsCopies(page[c].factories)
  /\ missed \in [Clients -> SUBSET Reasons]

(* The ship map never claims more than the page received: whatever order    *)
(* payloads, reports, evictions and disconnects come in, a module recorded  *)
(* as shipped has a factory in the page that is at least as new             *)
(* (notify_payload_delivered, insert_pending_payload).                      *)
ShipMapIsHonest ==
  \A c \in DOMAIN clients : page[c].st = "live" =>
    \A m \in DOMAIN clients[c].shipped :
      /\ m \in DOMAIN page[c].factories
      /\ page[c].factories[m].stamp >= clients[c].shipped[m]

(* Equal stamps mean equal code: no two payloads, delivered or on their     *)
(* way, name two different factories of a module by one stamp, in pages     *)
(* that were not open when a scan that computes no update read an edit      *)
(* (compute_hmr_update_for_file_changes, registerFactory).                  *)
GotEveryScan(c) == missed[c] \cap {"scan", "rescan"} = {}
StampNamesOneFactory ==
  \A c, d \in Clients : GotEveryScan(c) /\ GotEveryScan(d) =>
    \A f \in Copies(c), g \in Copies(d) : \A m \in DOMAIN f \cap DOMAIN g :
      f[m].stamp = g[m].stamp => f[m].code = g[m].code

(* The hello came after the boot map of the page had been replaced. *)
HelloWasLate(c) == c \in DOMAIN clients /\ clients[c].evaluated # page[c].boot

(* A module that is run in the page has all the factories its run needs:    *)
(* MissingFactoryError is thrown neither for a lazy route nor in the middle *)
(* of an update, unless the hello of the page was late, an update was not   *)
(* computed for the page or its client left a patch alone (initModule,      *)
(* collect_unheld_sync_deps).                                               *)
NoMissingFactory ==
  \A c \in Clients : missed[c] = {} /\ page[c].st = "broken" => HelloWasLate(c)

(* A factory can be missing only where the design knows it: the page's      *)
(* hello was late.  (requestLazy, initModule; violated by a page that left  *)
(* a patch alone while a chunk with an older copy was on its way.)          *)
MissingFactoryIsKnown ==
  \A c \in Clients : missed[c] \subseteq {"skip", "older"} /\ page[c].st = "broken" => HelloWasLate(c)

(* A connected page never sees a gap in the numbers of its patches.         *)
NoSequenceGap == \A c \in Clients : page[c].st # "gap"

(* When every edit has been through the HMR stage and every push has been   *)
(* received, a page runs the code of the files on disk, if every update was *)
(* computed for it and it left no patch alone while an older copy was held  *)
(* or on its way (generate_hmr_updates, registerFactory).                   *)
Settled(c) ==
  /\ task.phase = "idle" /\ events = {} /\ pending_rescans = {}
  /\ c \in DOMAIN clients /\ page[c].st = "live" /\ page[c].inbox = <<>>
RunsDisk(c) == \A m \in DOMAIN page[c].cache :
                 /\ page[c].cache[m].code.text = disk[m].text
                 /\ page[c].cache[m].code.imports = disk[m].imports
PagesAreCurrent ==
  \A c \in Clients : missed[c] \subseteq {"skip"} /\ Settled(c) => RunsDisk(c)

(* A late lazy chunk does no harm to a page that received every patch, even *)
(* one it left alone.  (registerFactory; violated: the page never got the   *)
(* factory that the late chunk's copy should lose against.)                 *)
LateChunksAreHarmless ==
  \A c \in Clients : missed[c] \subseteq {"skip", "older"} /\ Settled(c) => RunsDisk(c)

(* What a failed scan left has reached the clients once the engine reports  *)
(* neither an error nor a stale output.                                     *)
(* (compute_hmr_update_for_file_changes; violated: a rebuild or a lazy      *)
(* compile takes pending_rescans first and computes no update.)             *)
RescansReachPages ==
  \A c \in Clients :
    missed[c] \subseteq {"rescan"} /\ Settled(c) /\ ~last_task_errored /\ ~stale => RunsDisk(c)

(* A module that ran in a page is never replaced there by an older copy,    *)
(* however late a payload arrives (registerFactory).                        *)
NeverOlder ==
  [][\A c \in Clients : \A m \in DOMAIN page[c].cache \cap DOMAIN page'[c].cache :
       page'[c].cache[m].stamp >= page[c].cache[m].stamp]_vars
=============================================================================
