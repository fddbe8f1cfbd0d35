----------------------- MODULE ExecutionOrderProofs -----------------------
(***************************************************************************)
(* Proofs about the execution order: whatever the graph of imports and the *)
(* entries, imports run first, and reported circular dependencies are real.*)
(***************************************************************************)
EXTENDS ExecutionOrder, SequenceTheorems, TLAPS

Items == [op : {"execute", "exit"}, id : Modules]

\* The module a waiting item belongs to leads to the module of every item above it.
ChainInv ==
    \A i \in Waiting : \A j \in 1..Len(stack) :
        i < j => Reaches(stack[i].id, stack[j].id)

\* What a waiting module imports has been entered or is about to be, above it.
PendingInv ==
    \A i \in Waiting : \A d \in Imports(stack[i].id) :
        d \in executed \/ \E k \in 1..Len(stack) : i < k /\ stack[k] = ToBeExecuted(d)

\* A module that was entered has left or waits, not both, and waits once.
ExecutedInv ==
    /\ Ordered \subseteq executed
    /\ \A i \in Waiting : stack[i].id \in executed \ Ordered
    /\ \A i, j \in Waiting : stack[i].id = stack[j].id => i = j
    /\ \A m \in executed : m \in Ordered \/ \E i \in Waiting : stack[i].id = m

\* The runtime and the entries, and what a module that has left imports, are not forgotten.
RootsInv ==
    /\ \A m \in Roots : m \in executed \/ \E k \in 1..Len(stack) : stack[k] = ToBeExecuted(m)
    /\ \A m \in Ordered : Imports(m) \subseteq executed

\* The walk has yet to enter the runtime.
AtStart == executed = {} /\ order = <<>> /\ Top = ToBeExecuted(Runtime)

\* It is inside the runtime, and has left nothing but what the runtime imports.
InRuntime ==
    \E p \in Waiting :
        /\ stack[p].id = Runtime
        /\ \A k \in 1..Len(stack) : p < k => stack[k].id \in Imports(Runtime)
        /\ Ordered \subseteq Imports(Runtime)

\* It has left the runtime, and before it nothing but what it imports.
PastRuntime ==
    \E r \in 1..Len(order) :
        order[r] = Runtime /\ \A k \in 1..Len(order) : k < r => order[k] \in Imports(Runtime)

\* Nothing but the runtime's imports leaves before it.
FirstInv == RuntimeImportsExternals /\ (AtStart \/ InRuntime \/ PastRuntime)

\* The part of ImportsRunFirst that holds throughout.
OrderInv ==
    \A k \in 1..Len(order) :
        /\ \A d \in Imports(order[k]) :
              (\E j \in 1..(k - 1) : order[j] = d) \/ Reaches(d, order[k])
        /\ \A j \in 1..(k - 1) : order[j] # order[k]

SortInv ==
    /\ SortTypeOK /\ ChainInv /\ PendingInv /\ ExecutedInv
    /\ RootsInv /\ FirstInv /\ OrderInv /\ CyclesAreReal

-----------------------------------------------------------------------------
(* Reaching a module                                                        *)

\* Every module leads to itself.
LEMMA ReachesItself == \A m \in Modules : Reaches(m, m)
  BY DEF Reaches

\* A module leads to what it imports.
LEMMA ReachesImport ==
  ASSUME NEW m \in Modules, NEW d \in Imports(m)
  PROVE  Reaches(m, d)
  BY DEF Reaches, Closed

\* Leading to is transitive.
LEMMA ReachesTransitive ==
  ASSUME NEW a \in Modules, NEW b \in Modules, NEW c \in Modules,
         Reaches(a, b), Reaches(b, c)
  PROVE  Reaches(a, c)
  BY DEF Reaches

\* The walk changes no import.
LEMMA ReachesUnchanged ==
  ASSUME deps' = deps
  PROVE  /\ \A m : Imports(m)' = Imports(m)
         /\ \A a, b : Reaches(a, b)' <=> Reaches(a, b)
<1>1. \A m : Imports(m)' = Imports(m)
  BY DEF Imports
<1>2. \A S : Closed(S)' <=> Closed(S)
  BY <1>1 DEF Closed
<1> QED
  BY <1>1, <1>2 DEF Reaches

\* The imports of a module are modules.
LEMMA ImportsAreModules ==
  ASSUME deps \in [Modules -> Seq(Modules)], NEW m \in Modules
  PROVE  Imports(m) \subseteq Modules
<1>1. deps[m] \in Seq(Modules)
  OBVIOUS
<1> QED
  BY <1>1 DEF Imports

-----------------------------------------------------------------------------
(* What a step does to the stack                                            *)

\* Taking off the top item.
LEMMA PopFacts ==
  ASSUME stack \in Seq(Items), stack # <<>>
  PROVE  /\ Rest \in Seq(Items)
         /\ Len(Rest) = Len(stack) - 1
         /\ \A k \in 1..(Len(stack) - 1) : Rest[k] = stack[k]
         /\ Len(stack) \in Nat \ {0}
         /\ Top \in Items
<1>1. Len(stack) \in Nat \ {0}
  BY EmptySeq
<1>2. \A k \in 1..Len(stack) : stack[k] \in Items
  BY ElementOfSeq
<1>3. /\ SubSeq(stack, 1, Len(stack) - 1) \in Seq(Items)
      /\ Len(SubSeq(stack, 1, Len(stack) - 1)) =
            IF 1 <= Len(stack) - 1 THEN (Len(stack) - 1) - 1 + 1 ELSE 0
      /\ \A i \in 1..((Len(stack) - 1) - 1 + 1) :
            SubSeq(stack, 1, Len(stack) - 1)[i] = stack[1 + i - 1]
  <2>1. \A i \in 1..(Len(stack) - 1) : stack[i] \in Items
    BY <1>1, <1>2
  <2>2. 1 \in Int /\ Len(stack) - 1 \in Int
    BY <1>1
  <2> QED
    BY <2>1, <2>2, SubSeqProperties
<1>4. Rest \in Seq(Items)
  BY <1>3 DEF Rest
<1>5. Len(Rest) = Len(stack) - 1
  <2>1. Len(Rest) = IF 1 <= Len(stack) - 1 THEN (Len(stack) - 1) - 1 + 1 ELSE 0
    BY <1>3, Zenon DEF Rest
  <2>2. \A n \in Nat \ {0} : (IF 1 <= n - 1 THEN (n - 1) - 1 + 1 ELSE 0) = n - 1
    OBVIOUS
  <2> QED
    BY <1>1, <2>1, <2>2, Zenon
<1>6. \A k \in 1..(Len(stack) - 1) : Rest[k] = stack[k]
  <2>1. \A k \in 1..(Len(stack) - 1) : k \in 1..((Len(stack) - 1) - 1 + 1) /\ 1 + k - 1 = k
    BY <1>1
  <2> QED
    BY <1>3, <2>1 DEF Rest
<1>7. Top \in Items
  BY <1>1, <1>2 DEF Top
<1> QED
  BY <1>1, <1>4, <1>5, <1>6, <1>7

\* The elements of two sequences put together.
LEMMA ConcatElements ==
  ASSUME NEW S, NEW r \in Seq(S), NEW p \in Seq(S)
  PROVE  /\ r \o p \in Seq(S)
         /\ Len(r \o p) = Len(r) + Len(p)
         /\ \A k \in 1..Len(r) : (r \o p)[k] = r[k]
         /\ \A k \in 1..Len(p) : (r \o p)[Len(r) + k] = p[k]
<1>1. Len(r) \in Nat /\ Len(p) \in Nat
  OBVIOUS
<1>2. r \o p \in Seq(S) /\ Len(r \o p) = Len(r) + Len(p)
  OBVIOUS
<1>3. \A k \in 1..Len(r) : (r \o p)[k] = r[k]
  OBVIOUS
<1>4. \A k \in 1..Len(p) : (r \o p)[Len(r) + k] = p[k]
  OBVIOUS
<1> QED
  BY <1>2, <1>3, <1>4

\* The items pushed for a list of modules.
LEMMA PushedFacts ==
  ASSUME NEW s \in Seq(Modules)
  PROVE  /\ Pushed(s) \in Seq(Items)
         /\ Len(Pushed(s)) = Len(s)
         /\ \A k \in 1..Len(s) : Pushed(s)[k] = ToBeExecuted(s[Len(s) + 1 - k])
<1>1. \A k \in 1..Len(s) : Len(s) + 1 - k \in 1..Len(s)
  OBVIOUS
<1>2. \A k \in 1..Len(s) : ToBeExecuted(s[Len(s) + 1 - k]) \in Items
  BY <1>1 DEF ToBeExecuted, Items
<1>3. Pushed(s) \in [1..Len(s) -> Items]
  BY <1>2 DEF Pushed
<1>4. Len(s) \in Nat
  OBVIOUS
<1>5. Pushed(s) \in Seq(Items) /\ Len(Pushed(s)) = Len(s)
  BY <1>3, <1>4
<1> QED
  BY <1>5 DEF Pushed

\* Entering a module replaces its item by one that waits, with its imports above.
LEMMA EnterFacts ==
  ASSUME SortTypeOK, Enter
  PROVE  /\ stack' \in Seq(Items)
         /\ Len(stack') = Len(stack) + Len(deps[Top.id])
         /\ Len(deps[Top.id]) \in Nat
         /\ \A k \in 1..(Len(stack) - 1) : stack'[k] = stack[k]
         /\ stack'[Len(stack)] = WaitForExit(Top.id)
         /\ \A k \in 1..Len(deps[Top.id]) :
               stack'[Len(stack) + k] = ToBeExecuted(deps[Top.id][Len(deps[Top.id]) + 1 - k])
<1> DEFINE s == deps[Top.id]
           P == Pushed(s)
           w == WaitForExit(Top.id)
<1>1. stack \in Seq(Items) /\ stack # <<>>
  BY DEF SortTypeOK, Items, Enter
<1>2. Top \in Items /\ Top.id \in Modules /\ Len(stack) \in Nat \ {0}
  BY <1>1, PopFacts DEF Items
<1>3. s \in Seq(Modules)
  BY <1>2 DEF SortTypeOK
<1>4. P \in Seq(Items) /\ Len(P) = Len(s) /\ Len(s) \in Nat
      /\ \A k \in 1..Len(s) : P[k] = ToBeExecuted(s[Len(s) + 1 - k])
  BY <1>3, PushedFacts
<1>5. w \in Items
  BY <1>2 DEF WaitForExit, Items
<1>6. Rest \in Seq(Items) /\ Len(Rest) = Len(stack) - 1
      /\ \A k \in 1..(Len(stack) - 1) : Rest[k] = stack[k]
  BY <1>1, PopFacts
<1>7. stack' = (Rest \o <<w>>) \o P
  BY DEF Enter
<1> HIDE DEF s, P, w
<1>8. /\ Rest \o <<w>> \in Seq(Items)
      /\ Len(Rest \o <<w>>) = Len(stack)
      /\ \A k \in 1..(Len(stack) - 1) : (Rest \o <<w>>)[k] = stack[k]
      /\ (Rest \o <<w>>)[Len(stack)] = w
  BY <1>2, <1>5, <1>6
<1>9. /\ stack' \in Seq(Items)
      /\ Len(stack') = Len(stack) + Len(s)
      /\ \A k \in 1..Len(stack) : stack'[k] = (Rest \o <<w>>)[k]
      /\ \A k \in 1..Len(s) : stack'[Len(stack) + k] = P[k]
  <2> DEFINE R == Rest \o <<w>>
  <2>1. R \in Seq(Items) /\ Len(R) = Len(stack) /\ stack' = R \o P
    BY <1>7, <1>8
  <2> HIDE DEF R
  <2>2. R \in Seq(Items) /\ P \in Seq(Items)
    BY <1>4, <2>1
  <2>3. /\ R \o P \in Seq(Items)
        /\ Len(R \o P) = Len(R) + Len(P)
        /\ \A k \in 1..Len(R) : (R \o P)[k] = R[k]
        /\ \A k \in 1..Len(P) : (R \o P)[Len(R) + k] = P[k]
    BY <2>2, ConcatElements
  <2> QED
    BY <1>4, <2>1, <2>3 DEF R
<1>10. \A k \in 1..(Len(stack) - 1) : stack'[k] = stack[k]
  BY <1>2, <1>8, <1>9
<1>11. stack'[Len(stack)] = w
  BY <1>2, <1>8, <1>9
<1>12. \A k \in 1..Len(s) : stack'[Len(stack) + k] = ToBeExecuted(s[Len(s) + 1 - k])
  BY <1>4, <1>9
<1> QED
  BY <1>4, <1>9, <1>10, <1>11, <1>12 DEF s, w

-----------------------------------------------------------------------------
(* The steps                                                                *)

\* The stack the walk starts with: the runtime above the entries.
LEMMA StackStarts ==
  ASSUME entries \in Seq(Modules), SortInit
  PROVE  /\ stack \in Seq(Items)
         /\ Len(entries) \in Nat /\ Len(stack) = Len(entries) + 1
         /\ stack[Len(entries) + 1] = ToBeExecuted(Runtime)
         /\ \A k \in 1..Len(entries) : stack[k] = ToBeExecuted(entries[Len(entries) + 1 - k])
<1> DEFINE P == Pushed(entries)
           r == <<ToBeExecuted(Runtime)>>
<1>1. P \in Seq(Items) /\ Len(P) = Len(entries) /\ Len(entries) \in Nat
      /\ \A k \in 1..Len(entries) : P[k] = ToBeExecuted(entries[Len(entries) + 1 - k])
  BY PushedFacts
<1>2. ToBeExecuted(Runtime) \in Items
  BY RuntimeAssumption DEF ToBeExecuted, Items
<1>3. r \in Seq(Items) /\ Len(r) = 1 /\ r[1] = ToBeExecuted(Runtime)
  BY <1>2
<1>4. stack = P \o r
  BY DEF SortInit
<1> HIDE DEF P, r
<1>5. /\ P \o r \in Seq(Items)
      /\ Len(P \o r) = Len(P) + Len(r)
      /\ \A k \in 1..Len(P) : (P \o r)[k] = P[k]
      /\ \A k \in 1..Len(r) : (P \o r)[Len(P) + k] = r[k]
  <2>1. P \in Seq(Items) /\ r \in Seq(Items)
    BY <1>1, <1>3
  <2> QED
    BY <2>1, ConcatElements
<1>6. Len(P \o r) = Len(entries) + 1
  BY <1>1, <1>3, <1>5
<1>7. (P \o r)[Len(entries) + 1] = ToBeExecuted(Runtime)
  <2>1. 1 \in 1..Len(r)
    BY <1>3
  <2>2. (P \o r)[Len(P) + 1] = r[1]
    BY <1>5, <2>1
  <2> QED
    BY <1>1, <1>3, <2>2
<1>8. \A k \in 1..Len(entries) : (P \o r)[k] = ToBeExecuted(entries[Len(entries) + 1 - k])
  BY <1>1, <1>5
<1> QED
  BY <1>1, <1>4, <1>5, <1>6, <1>7, <1>8

\* The walk starts with nothing waiting and nothing ordered.
LEMMA SortStarts ==
  ASSUME deps \in [Modules -> Seq(Modules)], entries \in Seq(Modules),
         RuntimeImportsExternals, SortInit
  PROVE  SortInv
<1> DEFINE e == Len(entries)
<1>1. /\ stack \in Seq(Items) /\ e \in Nat /\ Len(stack) = e + 1
      /\ stack[e + 1] = ToBeExecuted(Runtime)
      /\ \A k \in 1..e : stack[k] = ToBeExecuted(entries[e + 1 - k])
  BY StackStarts
<1>2. \A k \in 1..(e + 1) : k \in 1..e \/ k = e + 1
  <2>1. \A q \in Nat : \A k \in 1..(q + 1) : k \in 1..q \/ k = q + 1
    OBVIOUS
  <2> QED
    BY <1>1, <2>1, Zenon
<1>3. \A x : ToBeExecuted(x).op = "execute" /\ ToBeExecuted(x).id = x
  BY DEF ToBeExecuted
<1>4. Waiting = {}
  <2>1. \A k \in 1..Len(stack) : stack[k].op # "exit"
    <3> SUFFICES ASSUME NEW k \in 1..(e + 1) PROVE stack[k].op # "exit"
      BY <1>1
    <3>1. CASE k = e + 1
      BY <1>1, <1>3, <3>1
    <3>2. CASE k \in 1..e
      <4>1. stack[k] = ToBeExecuted(entries[e + 1 - k])
        BY <1>1, <3>2
      <4> QED
        BY <1>3, <4>1
    <3> QED
      BY <1>2, <3>1, <3>2
  <2> QED
    BY <2>1 DEF Waiting
<1>5. order = <<>> /\ executed = {} /\ cycles = {} /\ Len(order) = 0 /\ Ordered = {}
  BY DEF SortInit, Ordered
<1>6. SortTypeOK
  BY <1>1, <1>5 DEF SortTypeOK, Items
<1>7. RootsInv
  <2> SUFFICES ASSUME NEW m \in Roots PROVE \E k \in 1..Len(stack) : stack[k] = ToBeExecuted(m)
    BY <1>5 DEF RootsInv
  <2>1. CASE m = Runtime
    <3>1. e + 1 \in 1..Len(stack)
      <4>1. \A q \in Nat : q + 1 \in 1..(q + 1)
        OBVIOUS
      <4> QED
        BY <1>1, <4>1, Zenon
    <3> QED
      BY <1>1, <2>1, <3>1, Zenon
  <2>2. CASE m # Runtime
    <3>1. PICK q \in 1..e : m = entries[q]
      BY <2>2 DEF Roots
    <3>2. e + 1 - q \in 1..e /\ e + 1 - q \in 1..Len(stack) /\ e + 1 - (e + 1 - q) = q
      BY <1>1
    <3> QED
      BY <1>1, <3>1, <3>2
  <2> QED
    BY <2>1, <2>2
<1>8. FirstInv
  <2>1. Top = ToBeExecuted(Runtime)
    BY <1>1, Zenon DEF Top
  <2> QED
    BY <1>5, <2>1 DEF FirstInv, AtStart
<1> QED
  BY <1>4, <1>5, <1>6, <1>7, <1>8
     DEF SortInv, ChainInv, PendingInv, ExecutedInv, OrderInv, CyclesAreReal

\* Skipping a module that was entered before keeps the invariant.
LEMMA SkipKeeps == SortInv /\ Skip => SortInv'
<1> SUFFICES ASSUME SortInv, Skip PROVE SortInv'
  OBVIOUS
<1>1. deps' = deps /\ entries' = entries /\ executed' = executed /\ order' = order
      /\ stack' = Rest /\ stack # <<>> /\ Top.op = "execute" /\ Top.id \in executed
  BY DEF Skip
<1>2. stack \in Seq(Items) /\ SortTypeOK
  BY DEF SortInv, SortTypeOK, Items
<1>3. /\ stack' \in Seq(Items) /\ Len(stack') = Len(stack) - 1 /\ Len(stack) \in Nat \ {0}
      /\ \A k \in 1..(Len(stack) - 1) : stack'[k] = stack[k]
      /\ Top \in Items
  BY <1>1, <1>2, PopFacts
<1>4. Waiting' = Waiting
  BY <1>1, <1>3 DEF Waiting, Top
<1>5. \A i \in Waiting : i \in 1..(Len(stack) - 1) /\ stack'[i] = stack[i]
  BY <1>1, <1>3 DEF Waiting, Top
<1>6. /\ \A m : Imports(m)' = Imports(m)
      /\ \A a, b : Reaches(a, b)' <=> Reaches(a, b)
  BY <1>1, ReachesUnchanged
<1>7. Ordered' = Ordered
  BY <1>1 DEF Ordered
<1>8. \A c \in cycles' : c \subseteq Modules /\ \A a, b \in c : Reaches(a, b)
  <2> SUFFICES ASSUME NEW c \in cycles' PROVE c \subseteq Modules /\ \A a, b \in c : Reaches(a, b)
    OBVIOUS
  <2>1. CASE c \in cycles
    BY <2>1, <1>2 DEF SortInv, SortTypeOK, CyclesAreReal
  <2>2. CASE c \notin cycles
    <3>1. PICK k \in Waiting : stack[k].id = Top.id /\ c = ChainFrom(k)
      BY <2>2 DEF Skip
    <3>2. c \subseteq Modules
      <4>1. \A i \in Waiting : stack[i] \in Items
        BY <1>2, ElementOfSeq DEF Waiting
      <4> QED
        BY <3>1, <4>1 DEF ChainFrom, Items
    <3> SUFFICES ASSUME NEW a \in c, NEW b \in c PROVE Reaches(a, b)
      BY <3>2
    <3>3. PICK i \in Waiting : i >= k /\ a = stack[i].id
      BY <3>1 DEF ChainFrom
    <3>4. PICK j \in Waiting : j >= k /\ b = stack[j].id
      BY <3>1 DEF ChainFrom
    <3>5. Reaches(a, Top.id)
      BY <1>3, <1>5, <3>3 DEF SortInv, ChainInv, Top
    <3>6. Reaches(Top.id, b)
      <4>1. CASE j = k
        BY <4>1, <3>1, <3>4, <3>2, ReachesItself
      <4>2. CASE j # k
        <5>1. k < j /\ j \in 1..Len(stack)
          BY <4>2, <3>4, <1>3, <1>5
        <5> QED
          BY <5>1, <3>1, <3>4 DEF SortInv, ChainInv
      <4> QED
        BY <4>1, <4>2
    <3>7. Top.id \in Modules /\ a \in Modules /\ b \in Modules
      BY <1>3, <3>2 DEF Items
    <3> QED
      BY <3>5, <3>6, <3>7, ReachesTransitive
  <2> QED
    BY <2>1, <2>2
<1>9. SortTypeOK'
  BY <1>1, <1>2, <1>3, <1>8 DEF SortTypeOK, Items
<1>10. ChainInv'
  BY <1>3, <1>4, <1>5, <1>6 DEF SortInv, ChainInv
<1>11. PendingInv'
  <2> SUFFICES ASSUME NEW i \in Waiting, NEW d \in Imports(stack[i].id), d \notin executed
               PROVE  \E k \in 1..Len(stack') : i < k /\ stack'[k] = ToBeExecuted(d)
    BY <1>1, <1>4, <1>5, <1>6 DEF PendingInv
  <2>1. PICK k \in 1..Len(stack) : i < k /\ stack[k] = ToBeExecuted(d)
    BY DEF SortInv, PendingInv
  <2>2. k # Len(stack)
    BY <1>1, <2>1 DEF Top, ToBeExecuted
  <2> QED
    BY <1>3, <2>1, <2>2
<1>12. ExecutedInv'
  BY <1>1, <1>4, <1>5, <1>7 DEF SortInv, ExecutedInv
<1>13. OrderInv'
  BY <1>1, <1>6 DEF SortInv, OrderInv
<1>14. CyclesAreReal'
  BY <1>6, <1>8 DEF CyclesAreReal
<1>15. RootsInv'
  <2>1. Roots' = Roots
    BY <1>1 DEF Roots
  <2> SUFFICES ASSUME NEW m \in Roots, m \notin executed
               PROVE  \E k \in 1..Len(stack') : stack'[k] = ToBeExecuted(m)
    BY <1>1, <1>6, <1>7, <2>1 DEF SortInv, RootsInv
  <2>2. PICK k \in 1..Len(stack) : stack[k] = ToBeExecuted(m)
    BY DEF SortInv, RootsInv
  <2>3. k # Len(stack)
    BY <1>1, <2>2 DEF Top, ToBeExecuted
  <2> QED
    BY <1>3, <2>2, <2>3
<1>16. FirstInv'
  <2>1. RuntimeImportsExternals'
    BY <1>1, <1>6 DEF SortInv, FirstInv, RuntimeImportsExternals
  <2>2. CASE AtStart
    BY <1>1, <2>2 DEF AtStart
  <2>3. CASE InRuntime
    <3>1. PICK p \in Waiting :
             /\ stack[p].id = Runtime
             /\ \A k \in 1..Len(stack) : p < k => stack[k].id \in Imports(Runtime)
             /\ Ordered \subseteq Imports(Runtime)
      BY <2>3 DEF InRuntime
    <3>2. stack'[p].id = Runtime
      BY <1>5, <3>1
    <3>3. \A k \in 1..Len(stack') : p < k => stack'[k].id \in Imports(Runtime)
      BY <1>3, <3>1
    <3>4. InRuntime'
      BY <1>4, <1>6, <1>7, <3>1, <3>2, <3>3 DEF InRuntime
    <3> QED
      BY <2>1, <3>4 DEF FirstInv
  <2>4. CASE PastRuntime
    <3>1. PastRuntime'
      BY <1>1, <1>6, <2>4 DEF PastRuntime
    <3> QED
      BY <2>1, <3>1 DEF FirstInv
  <2> QED
    BY <2>2, <2>3, <2>4 DEF SortInv, FirstInv
<1> QED
  BY <1>9, <1>10, <1>11, <1>12, <1>13, <1>14, <1>15, <1>16 DEF SortInv

\* Entering a module keeps the invariant.
LEMMA EnterKeeps == SortInv /\ Enter => SortInv'
<1> SUFFICES ASSUME SortInv, Enter PROVE SortInv'
  OBVIOUS
<1> DEFINE m == Top.id
           s == deps[Top.id]
           n == Len(stack)
<1>1. deps' = deps /\ entries' = entries /\ executed' = executed \cup {m} /\ order' = order
      /\ cycles' = cycles /\ stack # <<>> /\ Top.op = "execute" /\ m \notin executed
  BY DEF Enter
<1>2. stack \in Seq(Items) /\ SortTypeOK
  BY DEF SortInv, SortTypeOK, Items
<1>3. /\ stack' \in Seq(Items) /\ Len(stack') = n + Len(s) /\ Len(s) \in Nat
      /\ \A k \in 1..(n - 1) : stack'[k] = stack[k]
      /\ stack'[n] = WaitForExit(m)
      /\ \A k \in 1..Len(s) : stack'[n + k] = ToBeExecuted(s[Len(s) + 1 - k])
  BY <1>2, EnterFacts
<1>4. Top \in Items /\ n \in Nat \ {0} /\ m \in Modules /\ stack[n].id = m /\ stack[n].op = "execute"
  BY <1>1, <1>2, PopFacts DEF Items, Top
<1>5. s \in Seq(Modules)
  BY <1>4, <1>2 DEF SortTypeOK
<1>6. /\ \A x : Imports(x)' = Imports(x)
      /\ \A a, b : Reaches(a, b)' <=> Reaches(a, b)
  BY <1>1, ReachesUnchanged
<1>7. Ordered' = Ordered
  BY <1>1 DEF Ordered
<1>8. \A k \in 1..n : stack'[k].id = stack[k].id
  BY <1>3, <1>4 DEF WaitForExit
<1> HIDE DEF n
<1>9. \A k \in (n + 1)..(n + Len(s)) : stack'[k].op = "execute" /\ stack'[k].id \in Imports(m)
  <2> SUFFICES ASSUME NEW k \in (n + 1)..(n + Len(s))
               PROVE  stack'[k].op = "execute" /\ stack'[k].id \in Imports(m)
    OBVIOUS
  <2>1. k - n \in 1..Len(s) /\ n + (k - n) = k /\ Len(s) + 1 - (k - n) \in 1..Len(s)
    <3>1. Len(s) \in Nat /\ n \in Nat
      BY <1>3, <1>4
    <3> HIDE DEF s
    <3> QED
      BY <3>1
  <2>2. stack'[k] = ToBeExecuted(s[Len(s) + 1 - (k - n)])
    BY <1>3, <2>1
  <2> QED
    BY <2>1, <2>2 DEF ToBeExecuted, Imports
<1> HIDE DEF m, s
<1>10. Waiting \subseteq 1..(n - 1)
  BY <1>4 DEF Waiting, n
<1>11. Waiting' = Waiting \cup {n}
  <2>1. \A k \in 1..(n - 1) : k \in Waiting' <=> k \in Waiting
    BY <1>3, <1>4 DEF Waiting, n
  <2>2. n \in Waiting'
    BY <1>3, <1>4 DEF Waiting, WaitForExit
  <2>3. \A k \in (n + 1)..(n + Len(s)) : k \notin Waiting'
    BY <1>9 DEF Waiting
  <2>4. Waiting' \subseteq 1..(n + Len(s))
    BY <1>3 DEF Waiting
  <2>5. \A k \in 1..(n + Len(s)) : k \in 1..(n - 1) \/ k = n \/ k \in (n + 1)..(n + Len(s))
    BY <1>3, <1>4
  <2>6. Waiting' \subseteq Waiting \cup {n}
    BY <2>1, <2>3, <2>4, <2>5
  <2>7. Waiting \cup {n} \subseteq Waiting'
    BY <1>10, <2>1, <2>2
  <2> QED
    BY <2>6, <2>7
<1>12. SortTypeOK'
  BY <1>1, <1>2, <1>3, <1>4 DEF SortTypeOK, Items
<1>13. ChainInv'
  <2> SUFFICES ASSUME NEW i \in Waiting', NEW j \in 1..Len(stack'), i < j
               PROVE  Reaches(stack'[i].id, stack'[j].id)
    BY <1>6 DEF ChainInv
  <2>1. i \in 1..n /\ stack'[i].id = stack[i].id /\ stack[i].id \in Modules
    <3>1. i \in 1..n
      BY <1>4, <1>10, <1>11
    <3>2. stack[i] \in Items
      BY <1>2, <3>1, ElementOfSeq DEF n
    <3> QED
      BY <1>8, <3>1, <3>2 DEF Items
  <2>2. CASE j <= n
    <3>1. i \in Waiting /\ j \in 1..Len(stack) /\ stack'[j].id = stack[j].id
      BY <2>2, <1>4, <1>8, <1>11, <2>1 DEF n
    <3> QED
      BY <2>1, <3>1 DEF SortInv, ChainInv
  <2>3. CASE j > n
    <3>1. stack'[j].id \in Imports(m)
      BY <2>3, <1>3, <1>4, <1>9
    <3>2. Reaches(m, stack'[j].id)
      BY <3>1, <1>4, ReachesImport
    <3>3. CASE i = n
      BY <3>2, <3>3, <2>1, <1>4
    <3>4. CASE i # n
      <4>1. i \in Waiting /\ i < n /\ n \in 1..Len(stack)
        BY <3>4, <2>1, <1>4, <1>11 DEF n
      <4>2. Reaches(stack[i].id, m)
        BY <4>1, <1>4 DEF SortInv, ChainInv
      <4>3. stack'[j].id \in Modules
        BY <3>1, <1>2, <1>4, ImportsAreModules DEF SortTypeOK
      <4> QED
        BY <2>1, <1>4, <4>2, <3>2, <4>3, ReachesTransitive
    <3> QED
      BY <3>3, <3>4
  <2> QED
    BY <2>1, <2>2, <2>3, <1>3, <1>4
<1>14. PendingInv'
  <2> SUFFICES ASSUME NEW i \in Waiting', NEW d \in Imports(stack'[i].id), d \notin executed'
               PROVE  \E k \in 1..Len(stack') : i < k /\ stack'[k] = ToBeExecuted(d)
    BY <1>6 DEF PendingInv
  <2>1. CASE i = n
    <3>1. d \in Imports(m)
      BY <2>1, <1>3 DEF WaitForExit
    <3>2. PICK q \in 1..Len(s) : d = s[q]
      BY <3>1 DEF Imports, s, m
    <3>3. Len(s) + 1 - q \in 1..Len(s) /\ Len(s) + 1 - (Len(s) + 1 - q) = q
      BY <1>3
    <3>4. stack'[n + (Len(s) + 1 - q)] = ToBeExecuted(d)
      BY <1>3, <3>2, <3>3
    <3>5. n + (Len(s) + 1 - q) \in 1..Len(stack') /\ n < n + (Len(s) + 1 - q)
      BY <1>3, <1>4, <3>3
    <3> QED
      BY <2>1, <3>4, <3>5
  <2>2. CASE i # n
    <3>1. i \in Waiting /\ stack'[i].id = stack[i].id
      BY <2>2, <1>11, <1>8, <1>10, <1>4
    <3>2. PICK k \in 1..Len(stack) : i < k /\ stack[k] = ToBeExecuted(d)
      BY <3>1, <1>1 DEF SortInv, PendingInv
    <3>3. k # n
      BY <3>2, <1>1, <1>4 DEF ToBeExecuted
    <3> QED
      BY <3>2, <3>3, <1>3, <1>4 DEF n
  <2> QED
    BY <2>1, <2>2
<1>15. ExecutedInv'
  <2>1. m \notin Ordered /\ \A i \in Waiting : stack[i].id # m
    BY <1>1 DEF SortInv, ExecutedInv
  <2>2. \A i \in Waiting : stack'[i].id = stack[i].id
    BY <1>4, <1>8, <1>10
  <2>3. stack'[n].id = m
    BY <1>3 DEF WaitForExit
  <2>4. /\ Ordered \subseteq executed
        /\ \A i \in Waiting : stack[i].id \in executed \ Ordered
        /\ \A i, j \in Waiting : stack[i].id = stack[j].id => i = j
        /\ \A x \in executed : x \in Ordered \/ \E i \in Waiting : stack[i].id = x
    BY DEF SortInv, ExecutedInv
  <2> QED
    BY <1>1, <1>7, <1>11, <2>1, <2>2, <2>3, <2>4 DEF ExecutedInv
<1>16. OrderInv'
  BY <1>1, <1>6 DEF SortInv, OrderInv
<1>17. CyclesAreReal'
  BY <1>1, <1>6 DEF SortInv, CyclesAreReal
<1>18. RootsInv'
  <2>1. Roots' = Roots
    BY <1>1 DEF Roots
  <2> SUFFICES ASSUME NEW x \in Roots, x \notin executed'
               PROVE  \E k \in 1..Len(stack') : stack'[k] = ToBeExecuted(x)
    BY <1>1, <1>6, <1>7, <2>1 DEF SortInv, RootsInv
  <2>2. PICK k \in 1..Len(stack) : stack[k] = ToBeExecuted(x)
    BY <1>1 DEF SortInv, RootsInv
  <2>3. k # n
    BY <1>1, <1>4, <2>2 DEF ToBeExecuted
  <2> QED
    BY <1>3, <1>4, <2>2, <2>3 DEF n
<1>19. FirstInv'
  <2>1. RuntimeImportsExternals'
    BY <1>1, <1>6 DEF SortInv, FirstInv, RuntimeImportsExternals
  <2>2. CASE AtStart
    <3>1. m = Runtime /\ order = <<>>
      BY <2>2 DEF AtStart, m, ToBeExecuted
    <3>2. n \in Waiting' /\ stack'[n].id = Runtime
      BY <1>3, <1>11, <3>1 DEF WaitForExit
    <3>3. \A k \in 1..Len(stack') : n < k => stack'[k].id \in Imports(Runtime)
      <4>1. \A k \in 1..(n + Len(s)) : n < k => k \in (n + 1)..(n + Len(s))
        BY <1>3, <1>4
      <4> QED
        BY <1>3, <1>9, <3>1, <4>1
    <3>4. Ordered' = {}
      BY <1>7, <3>1 DEF Ordered
    <3>5. InRuntime'
      BY <1>6, <3>2, <3>3, <3>4 DEF InRuntime
    <3> QED
      BY <2>1, <3>5 DEF FirstInv
  <2>3. CASE InRuntime
    <3>1. PICK p \in Waiting :
             /\ stack[p].id = Runtime
             /\ \A k \in 1..Len(stack) : p < k => stack[k].id \in Imports(Runtime)
             /\ Ordered \subseteq Imports(Runtime)
      BY <2>3 DEF InRuntime
    <3>2. p \in 1..(n - 1) /\ p < n /\ n \in 1..Len(stack)
      BY <1>4, <1>10 DEF n
    <3>3. m \in Imports(Runtime)
      BY <1>4, <3>1, <3>2
    <3>4. Len(s) = 0
      BY <3>3 DEF SortInv, FirstInv, RuntimeImportsExternals, s, m
    <3>5. Len(stack') = Len(stack) /\ n = Len(stack)
      BY <1>3, <1>4, <3>4 DEF n
    <3>6. p \in Waiting' /\ stack'[p].id = Runtime
      BY <1>3, <1>11, <3>1, <3>2
    <3>7. \A k \in 1..Len(stack') : p < k => stack'[k].id \in Imports(Runtime)
      BY <1>8, <3>1, <3>5
    <3>8. InRuntime'
      BY <1>6, <1>7, <3>1, <3>6, <3>7 DEF InRuntime
    <3> QED
      BY <2>1, <3>8 DEF FirstInv
  <2>4. CASE PastRuntime
    <3>1. PastRuntime'
      BY <1>1, <1>6, <2>4 DEF PastRuntime
    <3> QED
      BY <2>1, <3>1 DEF FirstInv
  <2> QED
    BY <2>2, <2>3, <2>4 DEF SortInv, FirstInv
<1> QED
  BY <1>12, <1>13, <1>14, <1>15, <1>16, <1>17, <1>18, <1>19 DEF SortInv

\* Leaving a module keeps the invariant: all it imports has left, or waits below it.
LEMMA ExitKeeps == SortInv /\ Exit => SortInv'
<1> SUFFICES ASSUME SortInv, Exit PROVE SortInv'
  OBVIOUS
<1> DEFINE m == Top.id
           n == Len(stack)
           l == Len(order)
<1>1. deps' = deps /\ entries' = entries /\ executed' = executed /\ cycles' = cycles
      /\ order' = Append(order, m) /\ stack' = Rest /\ stack # <<>> /\ Top.op = "exit"
  BY DEF Exit
<1>2. stack \in Seq(Items) /\ SortTypeOK /\ order \in Seq(Modules)
  BY DEF SortInv, SortTypeOK, Items
<1>3. /\ stack' \in Seq(Items) /\ Len(stack') = n - 1 /\ n \in Nat \ {0}
      /\ \A k \in 1..(n - 1) : stack'[k] = stack[k]
      /\ Top \in Items /\ m \in Modules
      /\ stack[n].id = m /\ stack[n].op = "exit"
  BY <1>1, <1>2, PopFacts DEF Items, Top
<1>4. /\ order' \in Seq(Modules) /\ Len(order') = l + 1 /\ l \in Nat
      /\ \A k \in 1..l : order'[k] = order[k]
      /\ order'[l + 1] = m
  BY <1>1, <1>2, <1>3
<1>5. /\ \A x : Imports(x)' = Imports(x)
      /\ \A a, b : Reaches(a, b)' <=> Reaches(a, b)
  BY <1>1, ReachesUnchanged
<1>6. Ordered' = Ordered \cup {m}
  BY <1>4 DEF Ordered
<1>7. n \in Waiting /\ Waiting' = Waiting \ {n}
  BY <1>3 DEF Waiting
<1>8. \A i \in Waiting \ {n} : i \in 1..(n - 1) /\ stack'[i] = stack[i]
  BY <1>3 DEF Waiting
<1> HIDE DEF m, n, l
<1>9. SortTypeOK'
  BY <1>1, <1>2, <1>3, <1>4 DEF SortTypeOK, Items
<1>10. ChainInv'
  BY <1>3, <1>5, <1>7, <1>8 DEF SortInv, ChainInv, n
<1>11. PendingInv'
  <2> SUFFICES ASSUME NEW i \in Waiting', NEW d \in Imports(stack'[i].id), d \notin executed
               PROVE  \E k \in 1..Len(stack') : i < k /\ stack'[k] = ToBeExecuted(d)
    BY <1>1, <1>5 DEF PendingInv
  <2>1. i \in Waiting /\ stack'[i] = stack[i]
    BY <1>7, <1>8
  <2>2. PICK k \in 1..Len(stack) : i < k /\ stack[k] = ToBeExecuted(d)
    BY <2>1 DEF SortInv, PendingInv
  <2>3. k # n
    BY <2>2, <1>3 DEF ToBeExecuted
  <2> QED
    BY <2>2, <2>3, <1>3 DEF n
<1>12. ExecutedInv'
  <2>1. /\ Ordered \subseteq executed
        /\ \A i \in Waiting : stack[i].id \in executed \ Ordered
        /\ \A i, j \in Waiting : stack[i].id = stack[j].id => i = j
        /\ \A x \in executed : x \in Ordered \/ \E i \in Waiting : stack[i].id = x
    BY DEF SortInv, ExecutedInv
  <2>2. m \in executed /\ \A i \in Waiting \ {n} : stack[i].id # m
    BY <2>1, <1>3, <1>7
  <2> QED
    BY <1>1, <1>3, <1>6, <1>7, <1>8, <2>1, <2>2 DEF ExecutedInv
<1>13. Imports(m) \subseteq executed
  <2> SUFFICES ASSUME NEW d \in Imports(m) PROVE d \in executed
    OBVIOUS
  <2>1. d \in executed \/ \E k \in 1..Len(stack) : n < k /\ stack[k] = ToBeExecuted(d)
    BY <1>3, <1>7 DEF SortInv, PendingInv
  <2> QED
    BY <2>1, <1>3 DEF n
<1>14. RootsInv'
  <2>1. Roots' = Roots
    BY <1>1 DEF Roots
  <2>2. \A x \in Ordered' : Imports(x)' \subseteq executed'
    BY <1>1, <1>5, <1>6, <1>13 DEF SortInv, RootsInv
  <2> SUFFICES ASSUME NEW x \in Roots, x \notin executed
               PROVE  \E k \in 1..Len(stack') : stack'[k] = ToBeExecuted(x)
    BY <1>1, <2>1, <2>2 DEF RootsInv
  <2>3. PICK k \in 1..Len(stack) : stack[k] = ToBeExecuted(x)
    BY DEF SortInv, RootsInv
  <2>4. k # n
    BY <1>3, <2>3 DEF ToBeExecuted
  <2> QED
    BY <1>3, <2>3, <2>4 DEF n
<1>15. \A d \in Imports(m) : d \in Ordered \/ Reaches(d, m)
  <2> SUFFICES ASSUME NEW d \in Imports(m), d \notin Ordered PROVE Reaches(d, m)
    OBVIOUS
  <2>1. d \in executed
    BY <1>13
  <2>2. PICK i \in Waiting : stack[i].id = d
    BY <2>1 DEF SortInv, ExecutedInv
  <2>3. CASE i = n
    BY <2>2, <2>3, <1>3, ReachesItself
  <2>4. CASE i # n
    <3>1. i < n /\ n \in 1..Len(stack)
      BY <2>4, <1>3, <1>8 DEF n
    <3> QED
      BY <3>1, <2>2, <1>3 DEF SortInv, ChainInv
  <2> QED
    BY <2>3, <2>4
<1>16. OrderInv'
  <2> SUFFICES ASSUME NEW k \in 1..(l + 1)
               PROVE  /\ \A d \in Imports(order'[k]) :
                            (\E j \in 1..(k - 1) : order'[j] = d) \/ Reaches(d, order'[k])
                      /\ \A j \in 1..(k - 1) : order'[j] # order'[k]
    BY <1>4, <1>5 DEF OrderInv
  <2>1. CASE k \in 1..l
    <3>1. order'[k] = order[k] /\ \A j \in 1..(k - 1) : order'[j] = order[j]
      BY <2>1, <1>4
    <3>2. /\ \A d \in Imports(order[k]) :
                (\E j \in 1..(k - 1) : order[j] = d) \/ Reaches(d, order[k])
          /\ \A j \in 1..(k - 1) : order[j] # order[k]
      BY <2>1 DEF SortInv, OrderInv, l
    <3> QED
      BY <3>1, <3>2
  <2>2. CASE k = l + 1
    <3>1. order'[k] = m /\ k - 1 = l
      BY <2>2, <1>4
    <3>2. \A j \in 1..l : order'[j] \in Ordered
      BY <1>4 DEF Ordered, l
    <3>3. m \notin Ordered
      BY <1>3, <1>7 DEF SortInv, ExecutedInv
    <3>4. \A d \in Ordered : \E j \in 1..l : order'[j] = d
      BY <1>4 DEF Ordered, l
    <3> QED
      BY <3>1, <3>2, <3>3, <3>4, <1>15
  <2> QED
    BY <2>1, <2>2, <1>4
<1>17. CyclesAreReal'
  BY <1>1, <1>5 DEF SortInv, CyclesAreReal
<1>18. FirstInv'
  <2>1. RuntimeImportsExternals'
    BY <1>1, <1>5 DEF SortInv, FirstInv, RuntimeImportsExternals
  <2>2. CASE AtStart
    BY <1>1, <2>2 DEF AtStart, ToBeExecuted
  <2>3. CASE InRuntime
    <3>1. PICK p \in Waiting :
             /\ stack[p].id = Runtime
             /\ \A k \in 1..Len(stack) : p < k => stack[k].id \in Imports(Runtime)
             /\ Ordered \subseteq Imports(Runtime)
      BY <2>3 DEF InRuntime
    <3>2. CASE p = n
      <4>1. l + 1 \in 1..Len(order') /\ order'[l + 1] = Runtime
        BY <1>3, <1>4, <3>1, <3>2
      <4>2. \A k \in 1..Len(order') : k < l + 1 => k \in 1..l
        BY <1>4
      <4>3. \A k \in 1..l : order'[k] \in Imports(Runtime)
        BY <1>4, <3>1 DEF Ordered, l
      <4>4. PastRuntime'
        BY <1>5, <4>1, <4>2, <4>3 DEF PastRuntime
      <4> QED
        BY <2>1, <4>4 DEF FirstInv
    <3>3. CASE p # n
      <4>1. p \in 1..(n - 1) /\ p \in Waiting' /\ stack'[p].id = Runtime
        BY <1>7, <1>8, <3>1, <3>3
      <4>2. p < n /\ n \in 1..Len(stack)
        BY <1>3, <4>1 DEF n
      <4>3. m \in Imports(Runtime)
        BY <1>3, <3>1, <4>2
      <4>4. \A k \in 1..Len(stack') : p < k => stack'[k].id \in Imports(Runtime)
        BY <1>3, <3>1 DEF n
      <4>5. Ordered' \subseteq Imports(Runtime)
        BY <1>6, <3>1, <4>3
      <4>6. InRuntime'
        BY <1>5, <4>1, <4>4, <4>5 DEF InRuntime
      <4> QED
        BY <2>1, <4>6 DEF FirstInv
    <3> QED
      BY <3>2, <3>3
  <2>4. CASE PastRuntime
    <3>1. PICK r \in 1..Len(order) :
             order[r] = Runtime /\ \A k \in 1..Len(order) : k < r => order[k] \in Imports(Runtime)
      BY <2>4 DEF PastRuntime
    <3>2. r \in 1..Len(order') /\ order'[r] = Runtime
      BY <1>4, <3>1 DEF l
    <3>3. \A k \in 1..Len(order') : k < r => order'[k] \in Imports(Runtime)
      <4>1. \A k \in 1..(l + 1) : k < r => k \in 1..l
        BY <1>4 DEF l
      <4> QED
        BY <1>4, <3>1, <4>1 DEF l
    <3>4. PastRuntime'
      BY <1>5, <3>2, <3>3 DEF PastRuntime
    <3> QED
      BY <2>1, <3>4 DEF FirstInv
  <2> QED
    BY <2>2, <2>3, <2>4 DEF SortInv, FirstInv
<1> QED
  BY <1>9, <1>10, <1>11, <1>12, <1>16, <1>17, <1>14, <1>18 DEF SortInv

\* A step that leaves the walk alone keeps the invariant.
LEMMA StutterKeeps == SortInv /\ UNCHANGED sortVars => SortInv'
<1> SUFFICES ASSUME SortInv, UNCHANGED sortVars PROVE SortInv'
  OBVIOUS
<1>1. deps' = deps /\ entries' = entries /\ stack' = stack /\ executed' = executed
      /\ order' = order /\ cycles' = cycles
  BY DEF sortVars
<1>2. /\ \A x : Imports(x)' = Imports(x)
      /\ \A a, b : Reaches(a, b)' <=> Reaches(a, b)
  BY <1>1, ReachesUnchanged
<1>3. Waiting' = Waiting /\ Ordered' = Ordered
  BY <1>1 DEF Waiting, Ordered
<1>4. SortTypeOK'
  BY <1>1 DEF SortInv, SortTypeOK
<1>5. ChainInv' /\ PendingInv'
  BY <1>1, <1>2, <1>3 DEF SortInv, ChainInv, PendingInv
<1>6. ExecutedInv'
  BY <1>1, <1>3 DEF SortInv, ExecutedInv
<1>7. OrderInv' /\ CyclesAreReal'
  BY <1>1, <1>2 DEF SortInv, OrderInv, CyclesAreReal
<1>8. RootsInv'
  BY <1>1, <1>2, <1>3 DEF SortInv, RootsInv, Roots
<1>9. FirstInv'
  <2>1. RuntimeImportsExternals'
    BY <1>1, <1>2 DEF SortInv, FirstInv, RuntimeImportsExternals
  <2>2. AtStart => AtStart'
    BY <1>1 DEF AtStart, Top
  <2>3. InRuntime => InRuntime'
    BY <1>1, <1>2, <1>3 DEF InRuntime
  <2>4. PastRuntime => PastRuntime'
    BY <1>1, <1>2 DEF PastRuntime
  <2> QED
    BY <2>1, <2>2, <2>3, <2>4 DEF SortInv, FirstInv
<1> QED
  BY <1>4, <1>5, <1>6, <1>7, <1>8, <1>9 DEF SortInv

\* The invariant holds throughout the walk.
LEMMA SortInvariant == SortSpec => []SortInv
<1>1. deps \in [Modules -> Seq(Modules)] /\ entries \in Seq(Modules)
      /\ RuntimeImportsExternals /\ SortInit => SortInv
  BY SortStarts
<1>2. SortInv /\ [SortNext]_sortVars => SortInv'
  BY SkipKeeps, EnterKeeps, ExitKeeps, StutterKeeps DEF SortNext
<1> QED
  BY <1>1, <1>2, PTL DEF SortSpec

\* Whatever the imports and the entries, sort_modules gives every module one place
\* in the order, after the modules it imports, except those that lead back to it, and
\* forgets neither the runtime, an entry nor an import.
THEOREM ImportsComeFirst == SortSpec => []ImportsRunFirst
<1>1. SortInv => ImportsRunFirst
  <2>3. ASSUME SortInv, NEW k \in 1..Len(order)
        PROVE  order[k] \in Imports(Runtime) \/ \E j \in 1..k : order[j] = Runtime
    <3>1. CASE AtStart
      BY <2>3, <3>1 DEF AtStart
    <3>2. CASE InRuntime
      BY <3>2 DEF InRuntime, Ordered
    <3>3. CASE PastRuntime
      <4>1. PICK r \in 1..Len(order) :
               order[r] = Runtime /\ \A q \in 1..Len(order) : q < r => order[q] \in Imports(Runtime)
        BY <3>3 DEF PastRuntime
      <4>2. k < r \/ r \in 1..k
        OBVIOUS
      <4> QED
        BY <4>1, <4>2
    <3> QED
      BY <2>3, <3>1, <3>2, <3>3 DEF SortInv, FirstInv
  <2>4. SortInv => OrderInv
    BY DEF SortInv
  <2> SUFFICES ASSUME SortInv, stack = <<>>
               PROVE  Roots \subseteq Ordered /\ \A m \in Ordered : Imports(m) \subseteq Ordered
    BY <2>3, <2>4 DEF OrderInv, ImportsRunFirst
  <2>1. 1..Len(stack) = {} /\ Waiting = {}
    BY DEF Waiting
  <2>2. executed \subseteq Ordered
    BY <2>1 DEF SortInv, ExecutedInv
  <2> QED
    BY <2>1, <2>2 DEF SortInv, RootsInv
<1> QED
  BY <1>1, SortInvariant, PTL

\* Every circular dependency sort_modules reports is one: its modules lead to each
\* other, although the stack also holds modules that are only about to be entered.
THEOREM ReportedCyclesAreReal == SortSpec => []CyclesAreReal
<1>1. SortInv => CyclesAreReal
  BY DEF SortInv
<1> QED
  BY <1>1, SortInvariant, PTL
=============================================================================
