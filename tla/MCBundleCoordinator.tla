-------------------------- MODULE MCBundleCoordinator --------------------------
(* Constants for model-checking BundleCoordinator. *)
EXTENDS BundleCoordinator, SequencesExt

CONSTANT Route          \* the file behind every lazy proxy

MCTarget == [p \in Proxies |-> Route]

-----------------------------------------------------------------------------
(* The loop of schedule_build_if_stale, one task at a time: the first task   *)
(* that cannot be merged goes back, and the rest of the queue stays.         *)
PopTask(loop, t) ==
  IF loop.rest = <<>> /\ is_mergeable_with(loop.task, t)
  THEN [loop EXCEPT !.task = merge_with(@, t)]
  ELSE [loop EXCEPT !.rest = Append(@, t)]

PoppingLoop(q) == FoldLeft(PopTask, [task |-> Head(q), rest |-> <<>>], Tail(q))

\* Queues of up to three tasks, each of at most one path.
ShortQueues == SeqOf({t \in TaskInputs : \A p, q \in t.files : p = q}, 3) \ {<<>>}

(* MergedTask and RemainingTasks are what the loop computes.                 *)
ASSUME ClosedFormAssumption ==
  \A q \in ShortQueues :
    PoppingLoop(q) = [task |-> MergedTask(q), rest |-> RemainingTasks(q)]
=============================================================================
