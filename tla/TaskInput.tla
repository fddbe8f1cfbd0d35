------------------------------- MODULE TaskInput -------------------------------
(***************************************************************************)
(* The unit of queued work of the dev engine (types/task_input.rs) and the *)
(* way schedule_build_if_stale takes work off its queue.                   *)
(*                                                                         *)
(* A task input is a record [kind, files].  changed_files is an index map  *)
(* from path to change kind in the code; only its key set is kept, because *)
(* no scheduling decision reads the change kind.  A hot update is made for *)
(* changes, so it names at least one.                                      *)
(***************************************************************************)
EXTENDS Naturals, Sequences

CONSTANT Paths          \* what changed_files may name: files and lazy proxies

FullBuild      == [kind |-> "FullBuild",  files |-> {}]
Rebuild(fs)    == [kind |-> "Rebuild",    files |-> fs]
Hmr(fs)        == [kind |-> "Hmr",        files |-> fs]
HmrRebuild(fs) == [kind |-> "HmrRebuild", files |-> fs]

TaskInputs ==
  {FullBuild}
    \cup [kind : {"Rebuild"}, files : SUBSET Paths]
    \cup [kind : {"Hmr", "HmrRebuild"}, files : (SUBSET Paths) \ {{}}]

-----------------------------------------------------------------------------
(* The predicates of impl TaskInput. *)

\* FullBuild has no list of its own and answers with the static EMPTY map,
\* which is why the record above gives it the empty set.
changed_files(t) == t.files

requires_full_rebuild(t) == t.kind = "FullBuild"

require_generate_hmr_update(t) == t.kind \in {"Hmr", "HmrRebuild"}

requires_rebuild(t) == t.kind \in {"FullBuild", "Rebuild", "HmrRebuild"}

is_mergeable_with(t, o) ==
  \/ t.kind = "FullBuild"
  \/ t.kind = "Rebuild" /\ o.kind = "Rebuild"
  \/ t.kind \in {"Hmr", "HmrRebuild"} /\ o.kind \in {"Hmr", "HmrRebuild"}

\* Pairs is_mergeable_with rejects fall in the last arm, which changes nothing.
merge_with(t, o) ==
  CASE t.kind = "FullBuild" \/ ~is_mergeable_with(t, o) -> t
    [] t.kind = "Hmr" /\ o.kind = "HmrRebuild" -> HmrRebuild(t.files \cup o.files)
    [] OTHER -> [t EXCEPT !.files = @ \cup o.files]

-----------------------------------------------------------------------------
(***************************************************************************)
(* What the popping loop of schedule_build_if_stale takes off a non-empty  *)
(* queue q, in closed form: the longest prefix whose members can follow    *)
(* the first task, merged into one task.  MCBundleCoordinator.tla compares *)
(* this with the loop of the code.                                         *)
(***************************************************************************)
Absorbable(q, n) == \A i \in 2 .. n : is_mergeable_with(q[1], q[i])

MergedCount(q) ==
  CHOOSE n \in 1 .. Len(q) :
    /\ Absorbable(q, n)
    /\ n < Len(q) => ~is_mergeable_with(q[1], q[n + 1])

MergedTask(q) ==
  LET taken == 1 .. MergedCount(q) IN
  IF q[1].kind = "FullBuild"
  THEN FullBuild
  ELSE [kind  |-> IF \E i \in taken : q[i].kind = "HmrRebuild"
                  THEN "HmrRebuild" ELSE q[1].kind,
        files |-> UNION {q[i].files : i \in taken}]

RemainingTasks(q) == SubSeq(q, MergedCount(q) + 1, Len(q))
=============================================================================
