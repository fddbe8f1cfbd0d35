--------------------------- MODULE ExecutionOrder ---------------------------
(***************************************************************************)
(* The execution order of modules: LinkStage::sort_modules                 *)
(* (crates/rolldown/src/stages/link_stage/sort_modules.rs), a depth-first  *)
(* walk with an explicit stack.  Every module gets its exec_order when the *)
(* walk leaves it.                                                         *)
(*                                                                         *)
(* deps[m] lists the modules of the import records the walk follows, in    *)
(* record order: static ones, and `import()` when code splitting is off.   *)
(***************************************************************************)
EXTENDS Naturals, Sequences

CONSTANTS
    Modules,    \* the module table
    Runtime     \* the runtime module

ASSUME RuntimeAssumption == Runtime \in Modules

VARIABLES
    deps,       \* what each module imports
    entries,    \* the entries, user-defined ones first
    stack,      \* execution_stack
    executed,   \* executed_ids
    order,      \* modules by exec_order
    cycles      \* circular_dependencies

sortVars == <<deps, entries, stack, executed, order, cycles>>

ToBeExecuted(m) == [op |-> "execute", id |-> m]
WaitForExit(m) == [op |-> "exit", id |-> m]

\* The items that make the modules of s run in the order of s: the first on top.
Pushed(s) == [k \in 1..Len(s) |-> ToBeExecuted(s[Len(s) + 1 - k])]

Top == stack[Len(stack)]
Rest == SubSeq(stack, 1, Len(stack) - 1)

Waiting == {k \in 1..Len(stack) : stack[k].op = "exit"}

SortInit ==
    /\ stack = Pushed(entries) \o <<ToBeExecuted(Runtime)>>
    /\ executed = {} /\ order = <<>> /\ cycles = {}

\* Variant: what is still to be executed counts as part of the chain.
ChainWithPending(k) == {stack[j].id : j \in k..(Len(stack) - 1)}

\* The modules on the execution chain from position k up, closed by id.
ChainFrom(k) == {stack[j].id : j \in {i \in Waiting : i >= k}}

\* A module that is reached again: it is not run twice, and when the walk is
\* still inside it, the chain back to it is a circular dependency.
Skip ==
    /\ stack # <<>> /\ Top.op = "execute" /\ Top.id \in executed
    /\ cycles' = cycles \cup {ChainFrom(k) : k \in {i \in Waiting : stack[i].id = Top.id}}
    /\ stack' = Rest
    /\ UNCHANGED <<deps, entries, executed, order>>

\* Variant: the module leaves before its imports are walked.
EnterLeavingFirst ==
    /\ stack # <<>> /\ Top.op = "execute" /\ Top.id \notin executed
    /\ executed' = executed \cup {Top.id}
    /\ stack' = Rest \o Pushed(deps[Top.id]) \o <<WaitForExit(Top.id)>>
    /\ UNCHANGED <<deps, entries, order, cycles>>

Enter ==
    /\ stack # <<>> /\ Top.op = "execute" /\ Top.id \notin executed
    /\ executed' = executed \cup {Top.id}
    /\ stack' = Rest \o <<WaitForExit(Top.id)>> \o Pushed(deps[Top.id])
    /\ UNCHANGED <<deps, entries, order, cycles>>

Exit ==
    /\ stack # <<>> /\ Top.op = "exit"
    /\ order' = Append(order, Top.id)
    /\ stack' = Rest
    /\ UNCHANGED <<deps, entries, executed, cycles>>

SortNext == Skip \/ Enter \/ Exit

Imports(m) == {deps[m][k] : k \in 1..Len(deps[m])}

\* The runtime imports external modules only, which import nothing: `node:module`, on that
\* platform.
RuntimeImportsExternals == \A d \in Imports(Runtime) : deps[d] = <<>>

SortSpec ==
    /\ deps \in [Modules -> Seq(Modules)] /\ entries \in Seq(Modules)
    /\ RuntimeImportsExternals
    /\ SortInit
    /\ [][SortNext]_sortVars

-----------------------------------------------------------------------------

Closed(S) == \A m \in S : Imports(m) \subseteq S

\* m is imported by d, directly or through other modules, or is d.
Reaches(d, m) == \A S \in SUBSET Modules : d \in S /\ Closed(S) => m \in S

Ordered == {order[k] : k \in 1..Len(order)}

SortTypeOK ==
    /\ deps \in [Modules -> Seq(Modules)] /\ entries \in Seq(Modules)
    /\ stack \in Seq([op : {"execute", "exit"}, id : Modules])
    /\ executed \subseteq Modules
    /\ order \in Seq(Modules)
    /\ cycles \subseteq SUBSET Modules

Roots == {Runtime} \cup {entries[k] : k \in 1..Len(entries)}

\* Every module runs after the modules it imports, except along a circular import:
\* a module that has left the walk has left all its imports behind, or imports a
\* module that leads back to it.  No module has two places in the order, and when the
\* walk is over the runtime, the entries and all they import have one.  Before the runtime
\* run only the external modules it imports, which sorted_modules leaves out: so it is the
\* first there, as the assertion at the end of sort_modules says.
ImportsRunFirst ==
    /\ \A k \in 1..Len(order) :
          /\ \A d \in Imports(order[k]) :
                (\E j \in 1..(k - 1) : order[j] = d) \/ Reaches(d, order[k])
          /\ \A j \in 1..(k - 1) : order[j] # order[k]
    /\ \A k \in 1..Len(order) :
          order[k] \in Imports(Runtime) \/ \E j \in 1..k : order[j] = Runtime
    /\ stack = <<>> => Roots \subseteq Ordered /\ \A m \in Ordered : Imports(m) \subseteq Ordered

\* Every circular dependency that is reported is one: its modules lead to each other.
CyclesAreReal == \A c \in cycles : \A a, b \in c : Reaches(a, b)
=============================================================================
