-------------------------- MODULE LinkStageProofs --------------------------
(***************************************************************************)
(* Proofs about the passes of the link stage, for every project: awaits    *)
(* are found, wrappers are closed under imports, and side effects reach    *)
(* the importers.                                                          *)
(***************************************************************************)
EXTENDS LinkStage, ExecutionOrderProofs, SequenceTheorems, WellFoundedInduction, TLAPS

Frames == [at : Modules, next : Nat \ {0}]
Metas == [wrap : {"none", "esm", "cjs"}, required : BOOLEAN, dynamicExports : BOOLEAN, tla : BOOLEAN]
Phases == {"sort", "tla", "exports", "stars", "reexports", "wrap", "strict", "lazy",
           "effects", "importers", "bind"}

\* The variables of the passes have their types, and calls are in progress in recursive passes only.
LinkTypeOK ==
    /\ phase \in Phases /\ cursor \in Modules /\ record \in Nat
    /\ calls \in Seq(Frames)
    /\ visited \subseteq Modules /\ pending \subseteq Modules
    /\ source \in [Modules -> Modules \cup {NoSource}]
    /\ options \in Options
    /\ table \in [Modules -> ModuleInfo]
    /\ metas \in [Modules -> Metas]
    /\ errors \subseteq Modules \X Modules \X Modules
    /\ phase \notin {"tla", "wrap"} => calls = <<>>

\* What the passes leave alone: the records, and the runtime as the code assumes it.
TableInv ==
    /\ \A m \in Modules : table[m].normal \/ table[m].recs = <<>>
    /\ table[Runtime].normal /\ table[Runtime].exports = "esm"
    /\ \A m \in Modules : \A r \in DOMAIN Records(m) :
          Records(m)[r].to = Runtime => Records(m)[r].kind = "import"

-----------------------------------------------------------------------------
(* Top-level await                                                          *)

InProgress(m) == \E k \in DOMAIN calls : calls[k].at = m
Settled(m) == m \in visited /\ ~InProgress(m)
Awaits(m) == table[m].normal /\ table[m].tla

\* A result names a module that awaits and is imported; a module that is not visited, or
\* whose search is in progress, has none.
SourceInv ==
    /\ \A m \in Modules : source[m] # NoSource => source[m] \in AwaitsFrom(m)
    /\ \A m \in Modules : m \notin visited => source[m] = NoSource
    /\ \A k \in DOMAIN calls :
          /\ calls[k].at \in visited /\ source[calls[k].at] = NoSource
          /\ ~Awaits(calls[k].at)

\* The modules being searched lead to each other, the outer to the inner, and are distinct.
CallsInv ==
    \A k \in DOMAIN calls : \A j \in DOMAIN calls :
        /\ k <= j => calls[j].at \in Via(Imported, {calls[k].at})
        /\ k # j => calls[j].at # calls[k].at

\* The imports a search has passed over led to nothing, and the search of none of them is
\* inside this one.
PassedInv ==
    \A k \in DOMAIN calls : \A r \in DOMAIN Records(calls[k].at) :
        LET rec == Records(calls[k].at)[r]
        IN r < calls[k].next /\ rec.kind = "import" =>
              /\ rec.to \in visited /\ source[rec.to] = NoSource
              /\ \A j \in DOMAIN calls : k < j => calls[j].at # rec.to

\* A search that is over and found nothing: the imports are over too and found nothing,
\* unless there is a cycle.
NothingFoundInv ==
    \A m \in Modules : Settled(m) /\ source[m] = NoSource =>
        /\ ~Awaits(m)
        /\ LeadsToCycle(m) \/ \A d \in Imported[m] : Settled(d) /\ source[d] = NoSource

Looked(m) == m < cursor \/ (m = cursor /\ record > 0)
LookedAt(m, r) == m < cursor \/ (m = cursor /\ r < record)

\* What was written about the modules and records that compute_tla has looked at.
VerdictsInv ==
    /\ \A m \in Modules :
          IF table[m].normal /\ Looked(m)
          THEN Settled(m) /\ (metas[m].tla <=> source[m] # NoSource)
          ELSE metas[m].tla = FALSE
    /\ \A e \in errors : e[2] \in Targets(e[1], {"require"}) /\ e[3] \in AwaitsFrom(e[2])
    /\ \A m \in Modules : \A r \in DOMAIN Records(m) :
          LET rec == Records(m)[r]
          IN LookedAt(m, r) /\ rec.kind = "require" =>
                /\ Settled(rec.to)
                /\ source[rec.to] # NoSource => \E e \in errors : e[1] = m /\ e[2] = rec.to

AwaitInv ==
    /\ phase = "sort" =>
          /\ \A m \in Modules : ~metas[m].tla /\ source[m] = NoSource
          /\ errors = {} /\ visited = {}
    /\ phase = "tla" => SourceInv /\ CallsInv /\ PassedInv /\ NothingFoundInv /\ VerdictsInv
    /\ AwaitsAreFound

-----------------------------------------------------------------------------
(* Wrappers                                                                 *)

\* A wrapper fits the exports.
KindInv ==
    \A m \in Modules : metas[m].wrap # "none" =>
        /\ table[m].normal /\ m # Runtime
        /\ metas[m].wrap = "cjs" <=> table[m].exports = "cjs"

\* While exports are promoted, a wrapped module has the exports it will keep.
PromotedInv == \A m \in Modules : metas[m].wrap # "none" => table[m].exports # "none"

\* The wrappers the exports pass gives, for the records and modules it has looked at.
DemandedInv ==
    /\ \A m \in Modules : metas[m].wrap # "none" => m \in OnDemand
    /\ \A m \in Modules : \A r \in DOMAIN Records(m) :
          LET rec == Records(m)[r]
          IN LookedAt(m, r) /\ Demands(rec) /\ table[rec.to].normal => metas[rec.to].wrap # "none"
    /\ \A m \in Modules : m < cursor /\ NeedsCjsWrapper(m) => metas[m].wrap # "none"

\* The same when the pass is over.
AllDemandedInv ==
    /\ \A m \in Modules : \A r \in DOMAIN Records(m) :
          LET rec == Records(m)[r]
          IN Demands(rec) /\ table[rec.to].normal => metas[rec.to].wrap # "none"
    /\ \A m \in Modules : NeedsCjsWrapper(m) => metas[m].wrap # "none"

Beyond == [m \in Modules |-> IF m \in Ends THEN {} ELSE Targets(m, AllKinds)]
Lazily == Via(Beyond, OnDemand)
Strict == {m \in Modules : options.strictGroups /\ table[m].normal /\ table[m].exports = "cjs"}

\* wrap_modules: what it visits runs lazily and is wrapped; what a visited module imports is
\* visited, or is about to be by a call in progress.
VisitedInv ==
    /\ visited \subseteq Lazily
    /\ \A m \in Modules : metas[m].wrap # "none" => m \in Lazily
    /\ \A m \in visited \ Ends : metas[m].wrap # "none"
    /\ \A k \in DOMAIN calls :
          /\ calls[k].at \in visited \ Ends
          /\ \A r \in DOMAIN Records(calls[k].at) :
                r < calls[k].next => Records(calls[k].at)[r].to \in visited
    /\ \A m \in visited \ Ends : InProgress(m) \/ Targets(m, AllKinds) \subseteq visited

\* A module that was looked at is visited if it has a wrapper, and so are its CommonJS imports.
WrapLookedInv ==
    /\ \A m \in Modules : Looked(m) /\ metas[m].wrap # "none" => m \in visited
    /\ \A m \in Modules : \A r \in DOMAIN Records(m) :
          LET rec == Records(m)[r]
          IN LookedAt(m, r) /\ table[rec.to].normal /\ table[rec.to].exports = "cjs" =>
                rec.to \in visited \/ m \in visited \ Ends

WrapInv ==
    /\ KindInv
    /\ phase \in {"sort", "tla"} => \A m \in Modules : metas[m].wrap = "none"
    /\ phase = "exports" => PromotedInv /\ DemandedInv
    /\ phase \in {"stars", "reexports"} =>
          AllDemandedInv /\ \A m \in Modules : metas[m].wrap # "none" => m \in OnDemand
    /\ phase = "wrap" => AllDemandedInv /\ VisitedInv /\ WrapLookedInv
    /\ phase = "strict" => \A m \in Modules : metas[m].wrap # "none" <=> m \in Lazily \ Ends
    /\ phase = "lazy" =>
          \A m \in Modules : metas[m].wrap # "none" <=> m \in Lazily \ Ends \/ m \in Strict
    /\ WrappersAreClosed

-----------------------------------------------------------------------------
(* Side effects                                                             *)

Through == [m \in Modules |-> IF Analyzed(m) THEN Targets(m, AllKinds) ELSE {}]

\* Marked modules lead to effects; what imports a marked module is marked, or will be.
MarkedInv ==
    phase = "importers" =>
        /\ OwnEffects \subseteq visited /\ pending \subseteq visited
        /\ \A m \in visited : table[m].effects = "some" \/ Analyzed(m)
        /\ \A m \in visited : \E d \in Via(Through, {m}) : d \in OwnEffects
        /\ \A m \in visited \ pending : Dependents(m) \subseteq visited

LinkInv == LinkTypeOK /\ TableInv /\ AwaitInv /\ WrapInv /\ MarkedInv

-----------------------------------------------------------------------------
(* What modules lead to                                                     *)

\* The modules of S are among those S leads to.
LEMMA ViaBase ==
  ASSUME NEW next, NEW S \in SUBSET Modules
  PROVE  S \subseteq Via(next, S)
  BY DEF Via

\* What a module that S leads to leads to.
LEMMA ViaStep ==
  ASSUME NEW next \in [Modules -> SUBSET Modules], NEW S, NEW m \in Via(next, S), NEW d \in next[m]
  PROVE  d \in Via(next, S)
  BY DEF Via

\* A closed set that contains S contains all S leads to.
LEMMA ViaLeast ==
  ASSUME NEW next, NEW S, NEW T \in SUBSET Modules, S \subseteq T, \A k \in T : next[k] \subseteq T
  PROVE  Via(next, S) \subseteq T
  BY DEF Via

\* Leading to is transitive.
LEMMA ViaTransitive ==
  ASSUME NEW next, NEW S, NEW m \in Via(next, S)
  PROVE  Via(next, {m}) \subseteq Via(next, S)
  BY DEF Via

\* A module that leads to what S holds leads to what S leads to.
LEMMA ViaSubset ==
  ASSUME NEW next, NEW S, NEW T, T \subseteq Via(next, S)
  PROVE  Via(next, T) \subseteq Via(next, S)
  BY DEF Via

\* The target of a record is a module, and among the targets of its kind.
LEMMA RecordFacts ==
  ASSUME LinkTypeOK, NEW m \in Modules
  PROVE  /\ Records(m) \in Seq(ImportRecord)
         /\ DOMAIN Records(m) = 1..Len(Records(m)) /\ Len(Records(m)) \in Nat
         /\ \A r \in DOMAIN Records(m) :
               /\ Records(m)[r] \in ImportRecord
               /\ Records(m)[r].to \in Modules /\ Records(m)[r].kind \in AllKinds
               /\ \A kinds : Records(m)[r].kind \in kinds => Records(m)[r].to \in Targets(m, kinds)
         /\ \A kinds : Targets(m, kinds) \subseteq Modules
<1>1. table[m] \in ModuleInfo
  BY DEF LinkTypeOK
<1>2. Records(m) \in Seq(ImportRecord)
  BY <1>1 DEF ModuleInfo, Records
<1>3. DOMAIN Records(m) = 1..Len(Records(m)) /\ Len(Records(m)) \in Nat
  BY <1>2
<1>4. \A r \in DOMAIN Records(m) : Records(m)[r] \in ImportRecord
  BY <1>2, <1>3, ElementOfSeq
<1>5. \A r \in DOMAIN Records(m) : Records(m)[r].to \in Modules /\ Records(m)[r].kind \in AllKinds
  BY <1>4 DEF ImportRecord
<1>6. \A r \in DOMAIN Records(m) : \A kinds :
         Records(m)[r].kind \in kinds => Records(m)[r].to \in Targets(m, kinds)
  BY DEF Targets
<1>7. \A kinds : Targets(m, kinds) \subseteq Modules
  BY <1>5 DEF Targets
<1> QED
  BY <1>2, <1>3, <1>4, <1>5, <1>6, <1>7

\* Imports are a graph on the modules.
LEMMA ImportedGraph ==
  ASSUME LinkTypeOK
  PROVE  /\ Imported \in [Modules -> SUBSET Modules]
         /\ \A m \in Modules : Imported[m] = Targets(m, {"import"})
<1>1. \A m \in Modules : Targets(m, {"import"}) \subseteq Modules
  BY RecordFacts
<1> QED
  BY <1>1 DEF Imported

\* What the properties say of the graph depends on the records alone.
LEMMA GraphUnchanged ==
  ASSUME \A m \in Modules : Records(m)' = Records(m)
  PROVE  /\ \A m \in Modules : \A kinds : Targets(m, kinds)' = Targets(m, kinds)
         /\ Imported' = Imported
         /\ \A m \in Modules : LeadsToCycle(m)' = LeadsToCycle(m)
<1>1. \A m \in Modules : \A kinds : Targets(m, kinds)' = Targets(m, kinds)
  BY DEF Targets
<1>2. Imported' = Imported
  BY <1>1 DEF Imported
<1>3. \A S : Via(Imported, S)' = Via(Imported, S)
  BY <1>2 DEF Via
<1>4. \A c \in Modules : InCycle(c)' = InCycle(c)
  BY <1>2, <1>3 DEF InCycle, Via
<1>5. \A m : Via(Imported, {m}) \subseteq Modules
  BY DEF Via
<1> QED
  BY <1>1, <1>2, <1>3, <1>4, <1>5 DEF LeadsToCycle

-----------------------------------------------------------------------------
(* The calls of a recursive pass                                            *)

\* The innermost call, when it returns and when it goes on to the next record.
LEMMA CallerFacts ==
  ASSUME calls \in Seq(Frames), calls # <<>>
  PROVE  /\ Len(calls) \in Nat \ {0} /\ DOMAIN calls = 1..Len(calls)
         /\ Len(calls) \in DOMAIN calls
         /\ Caller = calls[Len(calls)] /\ Caller.at \in Modules /\ Caller.next \in Nat \ {0}
         /\ Returned \in Seq(Frames) /\ DOMAIN Returned = 1..(Len(calls) - 1)
         /\ \A k \in DOMAIN Returned : Returned[k] = calls[k]
         /\ Continued \in Seq(Frames) /\ DOMAIN Continued = DOMAIN calls
         /\ Len(Continued) = Len(calls)
         /\ \A k \in DOMAIN calls :
               /\ Continued[k].at = calls[k].at
               /\ k # Len(calls) => Continued[k] = calls[k]
               /\ k = Len(calls) => Continued[k].next = calls[k].next + 1
<1>1. Len(calls) \in Nat \ {0} /\ DOMAIN calls = 1..Len(calls)
  BY EmptySeq
<1>2. \A k \in 1..Len(calls) : calls[k] \in Frames
  BY ElementOfSeq
<1>3. Caller = calls[Len(calls)] /\ Caller.at \in Modules /\ Caller.next \in Nat \ {0}
  BY <1>1, <1>2 DEF Caller, Frames
<1>4. /\ SubSeq(calls, 1, Len(calls) - 1) \in Seq(Frames)
      /\ Len(SubSeq(calls, 1, Len(calls) - 1)) =
            IF 1 <= Len(calls) - 1 THEN (Len(calls) - 1) - 1 + 1 ELSE 0
      /\ \A i \in 1..((Len(calls) - 1) - 1 + 1) :
            SubSeq(calls, 1, Len(calls) - 1)[i] = calls[1 + i - 1]
  <2>1. \A i \in 1..(Len(calls) - 1) : calls[i] \in Frames
    BY <1>1, <1>2
  <2>2. 1 \in Int /\ Len(calls) - 1 \in Int
    BY <1>1
  <2> QED
    BY <2>1, <2>2, SubSeqProperties
<1>5. Returned \in Seq(Frames)
  BY <1>4 DEF Returned
<1>6. Len(Returned) = Len(calls) - 1
  <2>1. Len(Returned) = IF 1 <= Len(calls) - 1 THEN (Len(calls) - 1) - 1 + 1 ELSE 0
    BY <1>4, Zenon DEF Returned
  <2>2. \A n \in Nat \ {0} : (IF 1 <= n - 1 THEN (n - 1) - 1 + 1 ELSE 0) = n - 1
    OBVIOUS
  <2> QED
    BY <1>1, <2>1, <2>2, Zenon
<1>7. DOMAIN Returned = 1..(Len(calls) - 1)
  BY <1>5, <1>6
<1>8. \A k \in DOMAIN Returned : Returned[k] = calls[k]
  BY <1>1, <1>4, <1>7 DEF Returned
<1>9. /\ Continued = [calls EXCEPT ![Len(calls)] = [calls[Len(calls)] EXCEPT !.next = @ + 1]]
      /\ [calls[Len(calls)] EXCEPT !.next = @ + 1] \in Frames
  BY <1>1, <1>2 DEF Continued, Frames
<1>10. Continued \in Seq(Frames) /\ DOMAIN Continued = DOMAIN calls /\ Len(Continued) = Len(calls)
  BY <1>1, <1>9
<1>11. \A k \in DOMAIN calls :
         /\ Continued[k].at = calls[k].at
         /\ k # Len(calls) => Continued[k] = calls[k]
         /\ k = Len(calls) => Continued[k].next = calls[k].next + 1
  BY <1>1, <1>2, <1>9 DEF Frames
<1> QED
  BY <1>1, <1>3, <1>5, <1>7, <1>8, <1>10, <1>11

\* A further call.
LEMMA CallFacts ==
  ASSUME NEW frames \in Seq(Frames), NEW m \in Modules
  PROVE  /\ Call(frames, m) \in Seq(Frames)
         /\ DOMAIN Call(frames, m) = 1..(Len(frames) + 1)
         /\ DOMAIN frames = 1..Len(frames) /\ Len(frames) \in Nat
         /\ \A k \in DOMAIN frames : Call(frames, m)[k] = frames[k]
         /\ Call(frames, m)[Len(frames) + 1] = [at |-> m, next |-> 1]
<1>1. [at |-> m, next |-> 1] \in Frames
  BY DEF Frames
<1> QED
  BY <1>1 DEF Call

-----------------------------------------------------------------------------
(* The walk of sort_modules                                                 *)

\* A non-empty set of numbers has a least one.
LEMMA LeastNumber ==
  ASSUME NEW T \in SUBSET Nat, T # {}
  PROVE  \E n \in T : \A m \in T : ~(m < n)
<1>1. \E n \in T : \A m \in T : ~(<<m, n>> \in OpToRel(<, Nat))
  BY NatLessThanWellFounded, WFMin
<1>2. \A m, n \in Nat : m < n => <<m, n>> \in OpToRel(<, Nat)
  BY DEF OpToRel
<1> QED
  BY <1>1, <1>2

\* What is selected from a sequence: the recursion has a solution, for every number of
\* elements looked at, and its values are sequences.
LEMMA SelectType ==
  ASSUME NEW S, NEW s \in Seq(S), NEW chosen
  PROVE  Select(s, chosen) \in Seq(S) /\ (s = <<>> => Select(s, chosen) = <<>>)
<1> DEFINE n == Len(s)
           Body(g, k) ==
             IF k = 0 THEN <<>> ELSE IF k \in chosen THEN Append(g[k - 1], s[k]) ELSE g[k - 1]
           Solves(g, m) == g \in [0..m -> Seq(S)] /\ \A k \in 0..m : g[k] = Body(g, k)
           T == {m \in 0..n : ~\E g : Solves(g, m)}
<1>1. n \in Nat
  OBVIOUS
<1>2. T = {}
  <2> SUFFICES ASSUME T # {} PROVE FALSE
    OBVIOUS
  <2>1. T \in SUBSET Nat
    OBVIOUS
  <2> HIDE DEF T
  <2>2. PICK m \in T : \A k \in T : ~(k < m)
    BY <2>1, LeastNumber
  <2>3. m \in 0..n /\ ~\E g : Solves(g, m)
    BY <2>2 DEF T
  <2>4. CASE m = 0
    <3> DEFINE g == [k \in {0} |-> <<>>]
    <3>1. 0..0 = {0}
      OBVIOUS
    <3>2. g \in [0..0 -> Seq(S)] /\ g[0] = <<>>
      BY <3>1
    <3>3. Solves(g, 0)
      BY <3>1, <3>2
    <3> QED
      BY <2>3, <2>4, <3>3
  <2>5. CASE m # 0
    <3>1. m - 1 \in 0..n /\ m - 1 < m /\ m \in 1..n
      BY <1>1, <2>3, <2>5
    <3>2. PICK f : Solves(f, m - 1)
      BY <2>2, <3>1 DEF T
    <3> DEFINE g == [k \in 0..m |-> IF k = m THEN Body(f, m) ELSE f[k]]
    <3>3. Body(f, m) \in Seq(S)
      <4>1. f[m - 1] \in Seq(S) /\ s[m] \in S
        BY <3>1, <3>2
      <4> QED
        BY <4>1, <3>1
    <3>4. \A k \in 0..m : k # m => k \in 0..(m - 1)
      BY <3>1, <1>1
    <3>5. g \in [0..m -> Seq(S)]
      BY <3>2, <3>3, <3>4
    <3>6. \A k \in 0..m : g[k] = Body(g, k)
      <4> SUFFICES ASSUME NEW k \in 0..m PROVE g[k] = Body(g, k)
        OBVIOUS
      <4>1. k # 0 => k - 1 \in 0..m /\ k - 1 # m /\ g[k - 1] = f[k - 1]
        BY <3>1, <1>1
      <4>2. Body(g, k) = Body(f, k)
        BY <4>1
      <4>3. k # m => f[k] = Body(f, k)
        BY <3>2, <3>4
      <4> QED
        BY <4>2, <4>3
    <3>7. Solves(g, m)
      BY <3>5, <3>6
    <3> QED
      BY <2>3, <3>7
  <2> QED
    BY <2>4, <2>5
<1> DEFINE upTo[k \in 0..n] ==
             IF k = 0 THEN <<>> ELSE IF k \in chosen THEN Append(upTo[k - 1], s[k]) ELSE upTo[k - 1]
<1>3. upTo = [k \in 0..n |-> Body(upTo, k)]
  <2>1. n \in 0..n
    BY <1>1
  <2>2. PICK g : Solves(g, n)
    <3>1. n \notin T
      BY <1>2
    <3> QED
      BY <2>1, <3>1
  <2>3. g = [k \in 0..n |-> Body(g, k)]
    BY <2>2
  <2> QED
    BY <2>3
<1>4. Select(s, chosen) = upTo[n]
  BY DEF Select
<1> HIDE DEF upTo
<1>5. \A k \in 0..n : upTo[k] = Body(upTo, k)
  BY <1>3
<1> DEFINE U == {k \in 0..n : upTo[k] \notin Seq(S)}
<1>6. U = {}
  <2> SUFFICES ASSUME U # {} PROVE FALSE
    OBVIOUS
  <2>1. U \in SUBSET Nat
    OBVIOUS
  <2> HIDE DEF U
  <2>2. PICK m \in U : \A k \in U : ~(k < m)
    BY <2>1, LeastNumber
  <2>3. m \in 0..n /\ upTo[m] \notin Seq(S)
    BY <2>2 DEF U
  <2>4. CASE m = 0
    <3>1. upTo[m] = <<>>
      BY <2>3, <2>4, <1>5
    <3> QED
      BY <2>3, <3>1
  <2>5. CASE m # 0
    <3>1. m - 1 \in 0..n /\ m - 1 < m /\ m \in 1..n
      BY <1>1, <2>3, <2>5
    <3>2. upTo[m - 1] \in Seq(S)
      BY <2>2, <3>1 DEF U
    <3>3. s[m] \in S
      BY <3>1
    <3>4. upTo[m] = Body(upTo, m)
      BY <1>5, <2>3
    <3>5. Body(upTo, m) \in Seq(S)
      BY <2>5, <3>2, <3>3
    <3> QED
      BY <2>3, <3>4, <3>5
  <2> QED
    BY <2>4, <2>5
<1>7. upTo[n] \in Seq(S)
  BY <1>1, <1>6
<1>8. s = <<>> => upTo[n] = <<>>
  BY <1>1, <1>5
<1> QED
  BY <1>4, <1>7, <1>8

\* The records the walk follows, and those of a module without any.
LEMMA DepsType ==
  ASSUME NEW recs \in Seq(ImportRecord), NEW splitting
  PROVE  /\ DepsOf(recs, splitting) \in Seq(Modules)
         /\ recs = <<>> => DepsOf(recs, splitting) = <<>>
         /\ \A k \in 1..Len(DepsOf(recs, splitting)) :
               \E r \in DOMAIN recs : DepsOf(recs, splitting)[k] = recs[r].to
<1> DEFINE chosen == {r \in DOMAIN recs : recs[r].kind # "dynamic" \/ ~splitting}
           followed == Select(recs, chosen)
           present == {recs[r] : r \in DOMAIN recs}
<1>0. recs \in Seq(present) /\ present \subseteq ImportRecord
  OBVIOUS
<1> HIDE DEF present
<1>1. followed \in Seq(present) /\ (recs = <<>> => followed = <<>>)
  BY <1>0, SelectType
<1>2. DepsOf(recs, splitting) = [k \in DOMAIN followed |-> followed[k].to]
  BY DEF DepsOf
<1> HIDE DEF followed
<1>3. DOMAIN followed = 1..Len(followed) /\ Len(followed) \in Nat
  BY <1>1
<1>4. \A k \in DOMAIN followed : followed[k].to \in Modules
  BY <1>0, <1>1 DEF ImportRecord
<1>5. [k \in DOMAIN followed |-> followed[k].to] \in Seq(Modules)
  BY <1>3, <1>4
<1>6. followed = <<>> => [k \in DOMAIN followed |-> followed[k].to] = <<>>
  BY <1>3
<1>7. \A k \in DOMAIN followed : \E r \in DOMAIN recs : followed[k].to = recs[r].to
  BY <1>1 DEF present
<1>8. Len(DepsOf(recs, splitting)) = Len(followed)
  BY <1>2, <1>3, <1>5
<1> QED
  BY <1>1, <1>2, <1>3, <1>5, <1>6, <1>7, <1>8

\* The entries are modules.
LEMMA EntriesType ==
  ASSUME NEW p, p.user \in Seq(Modules)
  PROVE  EntriesOf(p) \in Seq(Modules)
<1> DEFINE IsDynamic(m) ==
             \E k \in Modules : \E r \in DOMAIN p.table[k].recs :
                 p.table[k].recs[r].to = m /\ p.table[k].recs[r].kind = "dynamic"
           IsUser(m) == \E k \in DOMAIN p.user : p.user[k] = m
           chosen == {m \in Modules : ~IsUser(m) /\ p.table[m].normal /\ IsDynamic(m)}
           all == [m \in Modules |-> m]
<1>1. PICK n \in Nat : Modules = 1..n
  BY ModulesAssumption
<1>2. all \in Seq(Modules)
  BY <1>1
<1>3. EntriesOf(p) = p.user \o Select(all, chosen)
  BY DEF EntriesOf
<1> HIDE DEF all, chosen
<1>4. Select(all, chosen) \in Seq(Modules)
  BY <1>2, SelectType
<1> QED
  BY <1>3, <1>4

\* The initial states of the link stage are initial states of the walk.
LEMMA WalkStarts ==
  Init => /\ deps \in [Modules -> Seq(Modules)] /\ entries \in Seq(Modules)
          /\ RuntimeImportsExternals /\ SortInit
<1> SUFFICES ASSUME Init
             PROVE  /\ deps \in [Modules -> Seq(Modules)] /\ entries \in Seq(Modules)
                    /\ RuntimeImportsExternals
  BY DEF Init
<1>1. PICK f \in DOMAIN Families : \E p \in Families[f] :
         table = p.table /\ options = p.options /\ entries = EntriesOf(p)
  BY DEF Init
<1>2. PICK p \in Families[f] : table = p.table /\ options = p.options /\ entries = EntriesOf(p)
  BY <1>1
<1>3. /\ table \in [Modules -> ModuleInfo] /\ p.user \in Seq(Modules)
      /\ \A m \in Modules : table[m].normal \/ table[m].recs = <<>>
      /\ \A r \in DOMAIN table[Runtime].recs : ~table[table[Runtime].recs[r].to].normal
  BY <1>2, FamiliesAssumption
<1>4. entries \in Seq(Modules)
  BY <1>2, <1>3, EntriesType
<1>5. \A m \in Modules : table[m].recs \in Seq(ImportRecord)
  BY <1>3 DEF ModuleInfo
<1>6. \A m \in Modules :
         /\ DepsOf(table[m].recs, options.splitting) \in Seq(Modules)
         /\ table[m].recs = <<>> => DepsOf(table[m].recs, options.splitting) = <<>>
         /\ \A k \in 1..Len(DepsOf(table[m].recs, options.splitting)) :
               \E r \in DOMAIN table[m].recs :
                   DepsOf(table[m].recs, options.splitting)[k] = table[m].recs[r].to
  BY <1>5, DepsType
<1>7. \A m \in Modules : deps[m] = DepsOf(table[m].recs, options.splitting)
  BY DEF Init, Records
<1>8. deps \in [Modules -> Seq(Modules)]
  BY <1>6 DEF Init, Records
<1>9. \A d \in Imports(Runtime) : d \in Modules /\ ~table[d].normal
  <2> SUFFICES ASSUME NEW k \in 1..Len(deps[Runtime])
               PROVE  deps[Runtime][k] \in Modules /\ ~table[deps[Runtime][k]].normal
    BY DEF Imports
  <2>1. deps[Runtime] \in Seq(Modules)
    BY <1>8, RuntimeAssumption
  <2>2. PICK r \in DOMAIN table[Runtime].recs : deps[Runtime][k] = table[Runtime].recs[r].to
    <3>1. Runtime \in Modules /\ deps[Runtime] = DepsOf(table[Runtime].recs, options.splitting)
      BY <1>7, RuntimeAssumption
    <3>2. \E r \in DOMAIN table[Runtime].recs : deps[Runtime][k] = table[Runtime].recs[r].to
      BY <1>6, <3>1
    <3> QED
      BY <3>2
  <2> QED
    BY <1>3, <2>1, <2>2
<1>10. RuntimeImportsExternals
  BY <1>3, <1>6, <1>7, <1>9 DEF RuntimeImportsExternals
<1> QED
  BY <1>4, <1>8, <1>10

-----------------------------------------------------------------------------
(* Types                                                                    *)

\* The module tables the link stage gets.
LEMMA InitType == Init => LinkTypeOK /\ TableInv
<1> SUFFICES ASSUME Init PROVE LinkTypeOK /\ TableInv
  OBVIOUS
<1>1. PICK f \in DOMAIN Families : \E p \in Families[f] : table = p.table /\ options = p.options
  BY DEF Init
<1>2. PICK p \in Families[f] : table = p.table /\ options = p.options
  BY <1>1
<1>3. /\ table \in [Modules -> ModuleInfo] /\ options \in Options
      /\ \A m \in Modules : table[m].normal \/ table[m].recs = <<>>
      /\ table[Runtime].normal /\ table[Runtime].exports = "esm"
      /\ \A m \in Modules : \A r \in DOMAIN table[m].recs :
            table[m].recs[r].to = Runtime => table[m].recs[r].kind = "import"
  BY <1>2, FamiliesAssumption
<1>4. TableInv
  BY <1>3 DEF TableInv, Records
<1>5. 1 \in Modules
  BY RuntimeAssumption, ModulesAssumption
<1>6. metas \in [Modules -> Metas]
  BY DEF Init, Metas
<1>7. calls \in Seq(Frames) /\ calls = <<>>
  BY DEF Init
<1> QED
  BY <1>3, <1>4, <1>5, <1>6, <1>7 DEF Init, LinkTypeOK, Phases, NoSource

\* The next module has an index; a pass that enters starts at the first.
LEMMA CursorType ==
  ASSUME LinkTypeOK
  PROVE  /\ 1 \in Modules /\ cursor + 1 \in Nat /\ cursor \in Nat \ {0}
         /\ \A m \in Modules : m \in Nat \ {0}
         /\ cursor + 1 \notin Modules => \A m \in Modules : m <= cursor
  BY RuntimeAssumption, ModulesAssumption DEF LinkTypeOK

\* Going on to the next module, or handing over after the last.
LEMMA NextModuleFacts ==
  ASSUME LinkTypeOK, NEW next \in Phases, NextModule(next)
  PROVE  /\ cursor' \in Modules /\ record' = 0 /\ visited' \subseteq Modules /\ phase' \in Phases
         /\ \/ phase' = phase /\ cursor' = cursor + 1 /\ visited' = visited
            \/ /\ phase' = next /\ cursor' = 1 /\ visited' = {}
               /\ \A m \in Modules : m <= cursor
<1>1. 1 \in Modules /\ (cursor + 1 \notin Modules => \A m \in Modules : m <= cursor)
  BY CursorType
<1>2. phase \in Phases /\ visited \subseteq Modules
  BY DEF LinkTypeOK
<1>3. CASE /\ cursor + 1 \in Modules
           /\ phase' = phase /\ cursor' = cursor + 1 /\ record' = 0 /\ visited' = visited
  BY <1>2, <1>3
<1>4. CASE cursor + 1 \notin Modules /\ Enters(next)
  <2>1. phase' = next /\ cursor' = 1 /\ record' = 0 /\ visited' = {}
    BY <1>4 DEF Enters
  <2> QED
    BY <1>1, <1>4, <2>1
<1> QED
  BY <1>3, <1>4 DEF NextModule

\* A call of find_tla_source keeps the types.
LEMMA FindTlaSourceType ==
  ASSUME LinkTypeOK, NEW m \in Modules, FindTlaSource(m)
  PROVE  visited' \subseteq Modules /\ calls' \in Seq(Frames)
         /\ source' \in [Modules -> Modules \cup {NoSource}]
<1>1. calls \in Seq(Frames) /\ Call(calls, m) \in Seq(Frames)
  BY CallFacts DEF LinkTypeOK
<1> QED
  BY <1>1 DEF FindTlaSource, LinkTypeOK

\* What the types say of one module.
LEMMA ModuleFacts ==
  ASSUME LinkTypeOK, NEW m \in Modules
  PROVE  /\ table[m] \in ModuleInfo /\ table[m].normal \in BOOLEAN /\ table[m].tla \in BOOLEAN
         /\ table[m].exports \in {"none", "esm", "cjs"}
         /\ table[m].effects \in {"none", "some", "declared"}
         /\ metas[m] \in Metas /\ metas[m].wrap \in {"none", "esm", "cjs"}
         /\ metas[m].tla \in BOOLEAN /\ metas[m].dynamicExports \in BOOLEAN
         /\ metas[m].required \in BOOLEAN
<1>1. table[m] \in ModuleInfo /\ metas[m] \in Metas
  BY DEF LinkTypeOK
<1>2. /\ table[m].normal \in BOOLEAN /\ table[m].tla \in BOOLEAN
      /\ table[m].exports \in {"none", "esm", "cjs"}
      /\ table[m].effects \in {"none", "some", "declared"}
  BY <1>1 DEF ModuleInfo
<1>3. /\ metas[m].wrap \in {"none", "esm", "cjs"} /\ metas[m].tla \in BOOLEAN
      /\ metas[m].dynamicExports \in BOOLEAN /\ metas[m].required \in BOOLEAN
  BY <1>1 DEF Metas
<1> QED
  BY <1>1, <1>2, <1>3

\* The steps of compute_tla keep the types.
LEMMA ComputeTlaType ==
  ASSUME LinkTypeOK, TableInv, compute_tla \/ find_tla_source
  PROVE  LinkTypeOK' /\ table' = table /\ entries' = entries
<1>1. table' = table /\ entries' = entries /\ pending' = pending /\ options' = options /\ phase = "tla"
  BY DEF compute_tla, find_tla_source, sortVars
<1>2. CASE find_tla_source
  <2>1. calls # <<>> /\ UNCHANGED <<phase, cursor, record, metas, errors>>
    BY <1>2 DEF find_tla_source, control
  <2>2. /\ Caller.at \in Modules /\ Returned \in Seq(Frames) /\ Continued \in Seq(Frames)
    BY <2>1, CallerFacts DEF LinkTypeOK
  <2>3. CallerInRecords => CallerRecord.to \in Modules
    BY <2>2, RecordFacts DEF CallerInRecords, CallerRecord
  <2>4. visited' \subseteq Modules /\ calls' \in Seq(Frames)
        /\ source' \in [Modules -> Modules \cup {NoSource}]
    <3>1. CASE CallerInRecords /\ FindTlaSource(CallerRecord.to)
      BY <2>3, <3>1, FindTlaSourceType
    <3>2. CASE /\ CallerInRecords
               /\ source' = [source EXCEPT ![Caller.at] = source[CallerRecord.to]]
               /\ calls' = Returned /\ visited' = visited
      BY <2>2, <2>3, <3>2 DEF LinkTypeOK
    <3>3. CASE calls' \in {Continued, Returned} /\ UNCHANGED <<visited, source>>
      BY <2>2, <3>3 DEF LinkTypeOK
    <3> QED
      BY <1>2, <3>1, <3>2, <3>3 DEF find_tla_source
  <2> QED
    BY <1>1, <2>1, <2>4 DEF LinkTypeOK
<1>3. CASE compute_tla
  <2>1. calls = <<>> /\ cursor \in Modules
    BY <1>3 DEF compute_tla, LinkTypeOK
  <2>2. InRecords => Records(cursor)[record].to \in Modules
    BY <2>1, RecordFacts DEF InRecords
  <2>3. CASE /\ \E m \in Modules : FindTlaSource(m)
             /\ UNCHANGED <<control, metas, errors>>
    <3>1. PICK m \in Modules : FindTlaSource(m)
      BY <2>3
    <3>2. visited' \subseteq Modules /\ calls' \in Seq(Frames)
          /\ source' \in [Modules -> Modules \cup {NoSource}]
      BY <3>1, FindTlaSourceType
    <3>3. UNCHANGED <<phase, cursor, record, metas, errors>>
      BY <2>3 DEF control
    <3> QED
      BY <1>1, <3>2, <3>3 DEF LinkTypeOK
  <2>4. CASE /\ metas' = [metas EXCEPT ![cursor].tla = source[cursor] # NoSource]
             /\ NextRecord /\ UNCHANGED <<walk, errors>>
    <3>1. metas' \in [Modules -> Metas]
      <4>1. [metas[cursor] EXCEPT !.tla = source[cursor] # NoSource] \in Metas
        BY <2>1, ModuleFacts DEF Metas
      <4>2. metas' = [metas EXCEPT ![cursor] = [metas[cursor] EXCEPT !.tla = source[cursor] # NoSource]]
        BY <2>4
      <4> QED
        BY <2>1, <4>1, <4>2 DEF LinkTypeOK
    <3> QED
      BY <1>1, <2>4, <3>1 DEF LinkTypeOK, NextRecord, walk
  <2>5. CASE /\ InRecords
             /\ errors' = errors \cup ErrorsOf(cursor, Records(cursor)[record])
             /\ NextRecord /\ UNCHANGED <<walk, metas>>
    <3>1. ErrorsOf(cursor, Records(cursor)[record]) \subseteq Modules \X Modules \X Modules
      <4>1. source[Records(cursor)[record].to] \in Modules \cup {NoSource}
        BY <2>2, <2>5 DEF LinkTypeOK
      <4> QED
        BY <2>1, <2>2, <2>5, <4>1 DEF ErrorsOf
    <3> QED
      BY <1>1, <2>5, <3>1 DEF LinkTypeOK, NextRecord, walk
  <2>6. CASE NextModule("exports") /\ UNCHANGED <<calls, source, metas, errors>>
    <3>1. cursor' \in Modules /\ record' \in Nat /\ visited' \subseteq Modules
          /\ phase' \in Phases
      <4>1. "exports" \in Phases
        BY DEF Phases
      <4> QED
        BY <2>6, <4>1, NextModuleFacts
    <3> QED
      BY <1>1, <2>1, <2>6, <3>1 DEF LinkTypeOK
  <2> QED
    BY <1>3, <2>1, <2>2, <2>3, <2>4, <2>5, <2>6 DEF compute_tla
<1> QED
  BY <1>2, <1>3

\* What a record promotes the exports of its target to.
LEMMA ExportsWithType ==
  ASSUME LinkTypeOK, NEW rec \in ImportRecord
  PROVE  /\ rec.to \in Modules
         /\ ExportsWith(rec) \in {"none", "esm", "cjs"}
         /\ Demands(rec) => ExportsWith(rec) \in {"esm", "cjs"}
         /\ table[rec.to].exports # "none" => ExportsWith(rec) = table[rec.to].exports
<1>1. rec.to \in Modules
  BY DEF ImportRecord
<1> QED
  BY <1>1, ModuleFacts DEF ExportsWith

\* The steps of determine_module_exports_kind keep the types.
LEMMA ExportsKindType ==
  ASSUME LinkTypeOK, TableInv, determine_module_exports_kind
  PROVE  /\ LinkTypeOK' /\ entries' = entries
         /\ \A m \in Modules : table'[m] = [table[m] EXCEPT !.exports = table'[m].exports]
<1>1. /\ UNCHANGED <<calls, pending, source, options, errors, entries>> /\ calls = <<>>
      /\ phase = "exports"
  BY DEF determine_module_exports_kind, sortVars, LinkTypeOK
<1>2. \A m \in Modules : table[m] \in ModuleInfo /\ metas[m] \in Metas
  BY ModuleFacts
<1>3. CASE record = 0 /\ NextRecord /\ UNCHANGED <<visited, table, metas>>
  <2>1. \A m \in Modules : table[m] = [table[m] EXCEPT !.exports = table[m].exports]
    BY <1>2 DEF ModuleInfo
  <2> QED
    BY <1>1, <1>3, <2>1 DEF NextRecord, LinkTypeOK
<1>4. CASE InRecords /\ ApplyRecord(Records(cursor)[record]) /\ NextRecord /\ UNCHANGED visited
  <2> DEFINE rec == Records(cursor)[record]
  <2>1. rec \in ImportRecord
    BY <1>4, RecordFacts DEF InRecords, LinkTypeOK
  <2>2. /\ rec.to \in Modules /\ ExportsWith(rec) \in {"none", "esm", "cjs"}
        /\ Demands(rec) => ExportsWith(rec) \in {"esm", "cjs"}
    BY <2>1, ExportsWithType
  <2> HIDE DEF rec
  <2>3. /\ table' = IF table[rec.to].normal
                   THEN [table EXCEPT ![rec.to] = [table[rec.to] EXCEPT !.exports = ExportsWith(rec)]]
                   ELSE table
        /\ metas' = IF table[rec.to].normal /\ Demands(rec)
                    THEN [metas EXCEPT ![rec.to] = [metas[rec.to] EXCEPT !.wrap = ExportsWith(rec)]]
                    ELSE metas
    BY <1>4 DEF ApplyRecord, rec
  <2>4. [table[rec.to] EXCEPT !.exports = ExportsWith(rec)] \in ModuleInfo
    BY <1>2, <2>2 DEF ModuleInfo
  <2>5. Demands(rec) => [metas[rec.to] EXCEPT !.wrap = ExportsWith(rec)] \in Metas
    BY <1>2, <2>2 DEF Metas
  <2>6. table' \in [Modules -> ModuleInfo] /\ metas' \in [Modules -> Metas]
    BY <2>2, <2>3, <2>4, <2>5 DEF LinkTypeOK
  <2>7. \A m \in Modules : table'[m] = [table[m] EXCEPT !.exports = table'[m].exports]
    BY <1>2, <2>2, <2>3 DEF LinkTypeOK, ModuleInfo
  <2> QED
    BY <1>1, <1>4, <2>6, <2>7 DEF NextRecord, LinkTypeOK
<1>5. CASE /\ metas' = IF NeedsCjsWrapper(cursor) THEN [metas EXCEPT ![cursor].wrap = "cjs"] ELSE metas
           /\ NextModule("stars") /\ UNCHANGED table
  <2>1. [metas[cursor] EXCEPT !.wrap = "cjs"] \in Metas /\ cursor \in Modules
    BY <1>2 DEF LinkTypeOK, Metas
  <2>2. metas' \in [Modules -> Metas]
    BY <1>5, <2>1 DEF LinkTypeOK
  <2>3. cursor' \in Modules /\ record' \in Nat /\ visited' \subseteq Modules
        /\ phase' \in Phases
    <3>1. "stars" \in Phases
      BY DEF Phases
    <3>2. NextModule("stars")
      BY <1>5
    <3> QED
      BY <3>1, <3>2, NextModuleFacts
  <2>4. \A m \in Modules : table[m] = [table[m] EXCEPT !.exports = table[m].exports]
    BY <1>2 DEF ModuleInfo
  <2> QED
    BY <1>1, <1>5, <2>2, <2>3, <2>4 DEF LinkTypeOK
<1> QED
  BY <1>3, <1>4, <1>5 DEF determine_module_exports_kind

\* Marking modules changes nothing else about them.
LEMMA MarkDynamicFacts ==
  ASSUME LinkTypeOK, NEW S, MarkDynamic(S)
  PROVE  /\ metas' \in [Modules -> Metas]
         /\ \A m \in Modules : /\ metas'[m].wrap = metas[m].wrap /\ metas'[m].tla = metas[m].tla
                               /\ metas'[m].dynamicExports = (metas[m].dynamicExports \/ m \in S)
<1>1. \A m \in Modules : metas[m] \in Metas
  BY ModuleFacts
<1>2. \A m \in Modules :
         /\ metas'[m] = [metas[m] EXCEPT !.dynamicExports = metas[m].dynamicExports \/ m \in S]
         /\ metas'[m] \in Metas
  BY <1>1 DEF MarkDynamic, Metas
<1>3. metas' = [m \in Modules |-> [metas[m] EXCEPT !.dynamicExports = @ \/ m \in S]]
  BY DEF MarkDynamic
<1>4. metas' \in [Modules -> Metas]
  BY <1>2, <1>3
<1>5. \A m \in Modules : /\ metas'[m].wrap = metas[m].wrap /\ metas'[m].tla = metas[m].tla
                         /\ metas'[m].dynamicExports = (metas[m].dynamicExports \/ m \in S)
  BY <1>1, <1>2 DEF Metas
<1> QED
  BY <1>4, <1>5

\* The two steps of determine_has_dynamic_exports touch the marks and the worklist only.
LEMMA DynamicExportsType ==
  ASSUME LinkTypeOK, mark_star_exports \/ determine_has_dynamic_exports
  PROVE  /\ LinkTypeOK' /\ UNCHANGED <<calls, source, options, table, errors, entries>> /\ calls = <<>>
         /\ \A m \in Modules : metas'[m].wrap = metas[m].wrap /\ metas'[m].tla = metas[m].tla
         /\ \/ phase = "stars" /\ phase' = "reexports"
            \/ phase = "reexports" /\ phase' = "reexports"
            \/ phase = "reexports" /\ phase' = "wrap" /\ cursor' = 1 /\ record' = 0 /\ visited' = {}
<1>1. /\ UNCHANGED <<calls, source, options, table, errors, entries>>
      /\ phase \in {"stars", "reexports"}
  BY DEF mark_star_exports, determine_has_dynamic_exports, sortVars
<1>2. calls = <<>>
  BY <1>1 DEF LinkTypeOK
<1>3. 1 \in Modules
  BY CursorType
<1>4. \A m \in Modules : Stars(m) \subseteq Modules
  BY RecordFacts DEF Stars
<1>5. CASE mark_star_exports
  <2>1. /\ MarkDynamic(MarkedFirst) /\ pending' = MarkedFirst /\ phase = "stars" /\ Enters("reexports")
    BY <1>5 DEF mark_star_exports
  <2>2. MarkedFirst \subseteq Modules
    BY <1>4 DEF MarkedFirst, Exporting
  <2>3. phase' = "reexports" /\ cursor' = 1 /\ record' = 0 /\ visited' = {}
    BY <2>1 DEF Enters
  <2>4. /\ metas' \in [Modules -> Metas]
        /\ \A m \in Modules : metas'[m].wrap = metas[m].wrap /\ metas'[m].tla = metas[m].tla
    BY <2>1, MarkDynamicFacts
  <2> QED
    BY <1>1, <1>2, <1>3, <2>1, <2>2, <2>3, <2>4 DEF LinkTypeOK, Phases
<1>6. CASE /\ determine_has_dynamic_exports /\ pending = {} /\ Enters("wrap")
           /\ UNCHANGED <<pending, metas>>
  <2>1. phase = "reexports" /\ phase' = "wrap" /\ cursor' = 1 /\ record' = 0 /\ visited' = {}
    BY <1>6 DEF determine_has_dynamic_exports, Enters
  <2> QED
    BY <1>1, <1>2, <1>3, <1>6, <2>1 DEF LinkTypeOK, Phases
<1>7. CASE /\ determine_has_dynamic_exports
           /\ \E m \in pending :
                 LET added == {k \in StarImporters(m) : ~metas[k].dynamicExports}
                 IN MarkDynamic(added) /\ pending' = (pending \ {m}) \cup added
           /\ UNCHANGED <<control, visited>>
  <2>1. PICK m \in pending : \E added \in SUBSET StarImporters(m) :
           MarkDynamic(added) /\ pending' = (pending \ {m}) \cup added
    BY <1>7
  <2>2. PICK added \in SUBSET StarImporters(m) :
           MarkDynamic(added) /\ pending' = (pending \ {m}) \cup added
    BY <2>1
  <2>3. pending' \subseteq Modules
    BY <2>2 DEF LinkTypeOK, StarImporters, Exporting
  <2>4. phase = "reexports" /\ UNCHANGED <<phase, cursor, record, visited>>
    BY <1>7 DEF determine_has_dynamic_exports, control
  <2>5. /\ metas' \in [Modules -> Metas]
        /\ \A k \in Modules : metas'[k].wrap = metas[k].wrap /\ metas'[k].tla = metas[k].tla
    BY <2>2, MarkDynamicFacts
  <2> QED
    BY <1>1, <1>2, <2>3, <2>4, <2>5 DEF LinkTypeOK
<1> QED
  BY <1>5, <1>6, <1>7 DEF determine_has_dynamic_exports

\* A call of wrap_module_recursively.
LEMMA WrapCallFacts ==
  ASSUME LinkTypeOK, NEW frames \in Seq(Frames), NEW m \in Modules, NEW required \in BOOLEAN,
         WrapModuleRecursively(frames, m, required)
  PROVE  /\ visited' = visited \cup {m}
         /\ metas' \in [Modules -> Metas] /\ calls' \in Seq(Frames)
         /\ \A k \in Modules : metas'[k].tla = metas[k].tla
         /\ \A k \in Modules : metas'[k].wrap = IF k = m /\ Entered(m) THEN WrapFor(m) ELSE metas[k].wrap
         /\ calls' = IF Entered(m) THEN Call(frames, m) ELSE frames
<1>1. \A k \in Modules : metas[k] \in Metas
  BY ModuleFacts
<1>2. WrapFor(m) \in {"none", "esm", "cjs"}
  BY ModuleFacts DEF WrapFor
<1> DEFINE new == [metas[m] EXCEPT !.wrap = IF Entered(m) THEN WrapFor(m) ELSE metas[m].wrap,
                                   !.required = metas[m].required \/ required]
<1>3. /\ new \in Metas /\ new.tla = metas[m].tla
      /\ new.wrap = IF Entered(m) THEN WrapFor(m) ELSE metas[m].wrap
  BY <1>1, <1>2, ModuleFacts DEF Metas
<1>4. metas' = [metas EXCEPT ![m] = new] /\ visited' = visited \cup {m}
      /\ calls' = IF Entered(m) THEN Call(frames, m) ELSE frames
  BY DEF WrapModuleRecursively, LinkTypeOK
<1> HIDE DEF new
<1>5. metas' \in [Modules -> Metas] /\ \A k \in Modules : metas'[k] = IF k = m THEN new ELSE metas[k]
  BY <1>3, <1>4 DEF LinkTypeOK
<1>6. calls' \in Seq(Frames)
  BY <1>4, CallFacts
<1> QED
  BY <1>3, <1>4, <1>5, <1>6

\* The steps of wrap_modules keep the types.
LEMMA WrapModulesType ==
  ASSUME LinkTypeOK, wrap_modules \/ wrap_module_recursively
  PROVE  /\ LinkTypeOK' /\ UNCHANGED <<options, table, errors, entries>>
         /\ \A m \in Modules : metas'[m].tla = metas[m].tla
<1>1. UNCHANGED <<pending, source, options, table, errors, entries>> /\ phase = "wrap"
  BY DEF wrap_modules, wrap_module_recursively, sortVars
<1>2. CASE /\ \E frames \in Seq(Frames), m \in Modules, required \in BOOLEAN :
                 WrapModuleRecursively(frames, m, required)
           /\ phase' = phase /\ cursor' = cursor /\ record' \in Nat
  <2>1. PICK frames \in Seq(Frames), m \in Modules, required \in BOOLEAN :
           WrapModuleRecursively(frames, m, required)
    BY <1>2
  <2>2. /\ visited' \subseteq Modules /\ metas' \in [Modules -> Metas] /\ calls' \in Seq(Frames)
        /\ \A k \in Modules : metas'[k].tla = metas[k].tla
    BY <2>1, WrapCallFacts DEF LinkTypeOK
  <2> QED
    BY <1>1, <1>2, <2>2 DEF LinkTypeOK
<1>3. CASE wrap_module_recursively
  <2>1. calls # <<>> /\ UNCHANGED <<phase, cursor, record>>
    BY <1>3 DEF wrap_module_recursively, control
  <2>2. Caller.at \in Modules /\ Returned \in Seq(Frames) /\ Continued \in Seq(Frames)
    BY <2>1, CallerFacts DEF LinkTypeOK
  <2>3. CASE /\ CallerInRecords
             /\ WrapModuleRecursively(Continued, CallerRecord.to, CallerRecord.kind = "require")
    <3>1. CallerRecord.to \in Modules
      BY <2>2, <2>3, RecordFacts DEF CallerInRecords, CallerRecord
    <3> QED
      BY <1>2, <2>1, <2>2, <2>3, <3>1 DEF LinkTypeOK
  <2>4. CASE calls' = Returned /\ UNCHANGED <<visited, metas>>
    BY <1>1, <2>1, <2>2, <2>4 DEF LinkTypeOK
  <2> QED
    BY <1>3, <2>3, <2>4 DEF wrap_module_recursively
<1>4. CASE wrap_modules
  <2>1. calls = <<>> /\ calls \in Seq(Frames) /\ cursor \in Modules /\ record \in Nat
    BY <1>4 DEF wrap_modules, LinkTypeOK
  <2>2. Len(Records(cursor)) + 1 \in Nat
    BY <2>1, RecordFacts
  <2>3. CASE /\ WrapModuleRecursively(calls, cursor, FALSE)
             /\ record' = Len(Records(cursor)) + 1 /\ UNCHANGED <<phase, cursor>>
    BY <1>2, <2>1, <2>2, <2>3
  <2>4. CASE NextRecord /\ UNCHANGED <<calls, visited, metas>>
    BY <1>1, <2>1, <2>4 DEF LinkTypeOK, NextRecord
  <2>5. CASE InRecords /\ WrapCjsImportee(Records(cursor)[record]) /\ NextRecord
    <3> DEFINE rec == Records(cursor)[record]
    <3>1. rec.to \in Modules
      BY <2>1, <2>5, RecordFacts DEF InRecords
    <3>2. phase' = phase /\ cursor' = cursor /\ record' \in Nat
      BY <2>1, <2>5 DEF NextRecord
    <3>3. CASE WrapModuleRecursively(calls, rec.to, rec.kind = "require")
      BY <1>2, <2>1, <3>1, <3>2, <3>3
    <3>4. CASE /\ metas' = [metas EXCEPT ![rec.to].required =
                              @ \/ (table[rec.to].normal /\ rec.kind = "require")]
               /\ UNCHANGED <<visited, calls>>
      <4>1. metas[rec.to] \in Metas /\ metas[rec.to].required \in BOOLEAN
        BY <3>1, ModuleFacts
      <4> DEFINE new == [metas[rec.to] EXCEPT !.required =
                            @ \/ (table[rec.to].normal /\ rec.kind = "require")]
      <4>2. new \in Metas /\ new.tla = metas[rec.to].tla
        BY <4>1 DEF Metas
      <4>3. metas' = [metas EXCEPT ![rec.to] = new]
        BY <3>4
      <4> HIDE DEF new
      <4>4. metas' \in [Modules -> Metas] /\ \A k \in Modules : metas'[k].tla = metas[k].tla
        BY <3>1, <4>2, <4>3 DEF LinkTypeOK
      <4> QED
        BY <1>1, <3>2, <3>4, <4>4 DEF LinkTypeOK
    <3> QED
      BY <2>5, <3>3, <3>4 DEF WrapCjsImportee
  <2>6. CASE NextModule("strict") /\ UNCHANGED <<calls, metas>>
    <3>1. "strict" \in Phases
      BY DEF Phases
    <3>2. cursor' \in Modules /\ record' = 0 /\ visited' \subseteq Modules /\ phase' \in Phases
      BY <2>6, <3>1, NextModuleFacts
    <3> QED
      BY <1>1, <2>1, <2>6, <3>2 DEF LinkTypeOK
  <2> QED
    BY <1>4, <2>3, <2>4, <2>5, <2>6 DEF wrap_modules
<1> QED
  BY <1>3, <1>4

\* wrap_all_cjs gives wrappers to CommonJS modules.
LEMMA WrapAllFacts ==
  ASSUME LinkTypeOK, wrap_all_cjs
  PROVE  /\ LinkTypeOK' /\ UNCHANGED <<options, table, errors, entries>>
         /\ phase = "strict" /\ phase' = "lazy"
         /\ \A m \in Modules :
               /\ metas'[m].tla = metas[m].tla
               /\ metas'[m].wrap = IF m \in Strict THEN "cjs" ELSE metas[m].wrap
<1>1. /\ UNCHANGED <<calls, pending, source, options, table, errors, entries>> /\ phase = "strict"
      /\ phase' = "lazy" /\ cursor' = 1 /\ record' = 0 /\ visited' = {}
  BY DEF wrap_all_cjs, sortVars, Enters
<1>2. \A m \in Modules : metas[m] \in Metas
  BY ModuleFacts
<1>3. metas' = [m \in Modules |-> IF m \in Strict THEN [metas[m] EXCEPT !.wrap = "cjs"] ELSE metas[m]]
  BY DEF wrap_all_cjs, Strict
<1>4. metas' \in [Modules -> Metas]
  BY <1>2, <1>3 DEF Metas
<1>5. \A m \in Modules :
         /\ metas'[m].tla = metas[m].tla
         /\ metas'[m].wrap = IF m \in Strict THEN "cjs" ELSE metas[m].wrap
  BY <1>2, <1>3 DEF Metas
<1>6. 1 \in Modules
  BY CursorType
<1> QED
  BY <1>1, <1>4, <1>5, <1>6 DEF LinkTypeOK, Phases

Generated(m) == table[m].normal /\ table[m].lazy # "no" /\ table[m].exports # "cjs"

\* generate_lazy_export makes data ES modules, and takes the wrapper from JSON.
LEMMA LazyExportFacts ==
  ASSUME LinkTypeOK, generate_lazy_export
  PROVE  /\ LinkTypeOK' /\ UNCHANGED <<options, errors, entries>>
         /\ phase = "lazy" /\ phase' = "effects"
         /\ \A m \in Modules :
               /\ table'[m] = [table[m] EXCEPT !.exports = table'[m].exports]
               /\ table'[m].exports = IF Generated(m) THEN "esm" ELSE table[m].exports
               /\ metas'[m].tla = metas[m].tla
               /\ metas'[m].wrap = IF Generated(m) /\ table[m].lazy = "json" THEN "none" ELSE metas[m].wrap
<1>1. /\ UNCHANGED <<calls, pending, source, options, errors, entries>> /\ phase = "lazy"
      /\ phase' = "effects" /\ cursor' = 1 /\ record' = 0 /\ visited' = {}
  BY DEF generate_lazy_export, sortVars, Enters
<1>2. \A m \in Modules : metas[m] \in Metas /\ table[m] \in ModuleInfo
  BY ModuleFacts
<1>3. /\ table' = [m \in Modules |-> IF Generated(m) THEN [table[m] EXCEPT !.exports = "esm"] ELSE table[m]]
      /\ metas' = [m \in Modules |->
                     IF Generated(m) /\ table[m].lazy = "json"
                     THEN [metas[m] EXCEPT !.wrap = "none"] ELSE metas[m]]
  BY DEF generate_lazy_export, Generated
<1>4. metas' \in [Modules -> Metas]
  BY <1>2, <1>3 DEF Metas
<1>5. table' \in [Modules -> ModuleInfo]
  BY <1>2, <1>3 DEF ModuleInfo
<1>6. \A m \in Modules :
         /\ metas'[m].tla = metas[m].tla
         /\ metas'[m].wrap = IF Generated(m) /\ table[m].lazy = "json" THEN "none" ELSE metas[m].wrap
  BY <1>2, <1>3 DEF Metas
<1>7. \A m \in Modules :
         /\ table'[m] = [table[m] EXCEPT !.exports = table'[m].exports]
         /\ table'[m].exports = IF Generated(m) THEN "esm" ELSE table[m].exports
  BY <1>2, <1>3 DEF ModuleInfo
<1>8. 1 \in Modules
  BY CursorType
<1> QED
  BY <1>1, <1>4, <1>5, <1>6, <1>7, <1>8 DEF LinkTypeOK, Phases

\* The steps of determine_side_effects.
LEMMA SideEffectsType ==
  ASSUME LinkTypeOK, mark_own_effects \/ determine_side_effects
  PROVE  /\ LinkTypeOK' /\ UNCHANGED <<options, metas, errors, entries>>
         /\ phase \in {"effects", "importers"} /\ phase' \in {"importers", "bind"}
         /\ \A m \in Modules : table'[m] = [table[m] EXCEPT !.effects = table'[m].effects]
<1>1. /\ UNCHANGED <<calls, source, options, metas, errors, entries>>
      /\ phase \in {"effects", "importers"}
  BY DEF mark_own_effects, determine_side_effects, sortVars
<1>2. \A m \in Modules : table[m] \in ModuleInfo
  BY ModuleFacts
<1>3. \A m \in Modules : table[m] = [table[m] EXCEPT !.effects = table[m].effects]
  BY <1>2 DEF ModuleInfo
<1>4. 1 \in Modules
  BY CursorType
<1>5. CASE mark_own_effects
  <2>1. /\ phase' = "importers" /\ cursor' = 1 /\ record' = 0 /\ table' = table
        /\ visited' = OwnEffects /\ pending' = OwnEffects
    BY <1>5 DEF mark_own_effects
  <2>2. OwnEffects \subseteq Modules
    BY DEF OwnEffects
  <2> QED
    BY <1>1, <1>3, <1>4, <2>1, <2>2 DEF LinkTypeOK, Phases
<1>6. CASE (\E m \in pending : Propagate(m)) /\ UNCHANGED <<control, table>> /\ phase = "importers"
  <2>1. UNCHANGED <<phase, cursor, record, table>>
    BY <1>6 DEF control
  <2>2. visited' \subseteq Modules /\ pending' \subseteq Modules
    BY <1>6 DEF Propagate, Dependents, LinkTypeOK
  <2> QED
    BY <1>1, <1>3, <1>6, <2>1, <2>2 DEF LinkTypeOK
<1>7. CASE /\ pending = {} /\ Enters("bind") /\ UNCHANGED pending
           /\ table' = [m \in Modules |->
                          IF Analyzed(m) /\ m \in visited THEN [table[m] EXCEPT !.effects = "some"]
                          ELSE table[m]]
  <2>1. phase' = "bind" /\ cursor' = 1 /\ record' = 0 /\ visited' = {}
    BY <1>7 DEF Enters
  <2>2. table' \in [Modules -> ModuleInfo]
    BY <1>2, <1>7 DEF ModuleInfo
  <2>3. \A m \in Modules : table'[m] = [table[m] EXCEPT !.effects = table'[m].effects]
    BY <1>2, <1>7 DEF ModuleInfo
  <2> QED
    BY <1>1, <1>4, <1>7, <2>1, <2>2, <2>3 DEF LinkTypeOK, Phases
<1> QED
  BY <1>5, <1>6, <1>7 DEF determine_side_effects

\* The steps before the passes, and after them.
LEMMA SortedType ==
  ASSUME LinkTypeOK, sort_modules \/ sorted \/ linked \/ UNCHANGED vars
  PROVE  /\ LinkTypeOK'
         /\ UNCHANGED <<options, table, metas, errors, source, calls, pending>>
         /\ \/ phase = "sort" /\ sorted
            \/ UNCHANGED <<phase, cursor, record, visited>>
         /\ entries' = entries
<1>1. 1 \in Modules
  BY CursorType
<1>2. CASE sorted
  <2>1. /\ phase = "sort" /\ cursor' = 1 /\ record' = 0 /\ visited' = {}
        /\ phase' \in {"tla", "exports"}
        /\ UNCHANGED <<calls, pending, source, options, table, metas, errors, entries>>
    BY <1>2 DEF sorted, Enters, sortVars
  <2>2. calls = <<>>
    BY <2>1 DEF LinkTypeOK
  <2> QED
    BY <1>1, <1>2, <2>1, <2>2 DEF LinkTypeOK, Phases
<1>3. CASE sort_modules
  <2>1. /\ UNCHANGED <<phase, cursor, record, calls, visited, pending, source, options, table, metas, errors>>
    BY <1>3 DEF sort_modules, control, walk
  <2>2. entries' = entries
    BY <1>3 DEF sort_modules, SortNext, Skip, Enter, Exit
  <2> QED
    BY <2>1, <2>2 DEF LinkTypeOK
<1>4. CASE linked \/ UNCHANGED vars
  <2>1. UNCHANGED <<entries, phase, cursor, record, calls, visited, pending, source, options, table,
                    metas, errors>>
    BY <1>4 DEF linked, vars
  <2> QED
    BY <2>1 DEF LinkTypeOK
<1> QED
  BY <1>2, <1>3, <1>4

Kept(m) ==
    /\ table'[m].recs = table[m].recs /\ table'[m].normal = table[m].normal
    /\ table'[m].tla = table[m].tla /\ table'[m].lazy = table[m].lazy
    /\ table'[m].usesModule = table[m].usesModule

\* The fields of a module that only its exports or its effects change.
LEMMA KeptFacts ==
  ASSUME LinkTypeOK, NEW m \in Modules,
         \/ table'[m] = table[m]
         \/ table'[m] = [table[m] EXCEPT !.exports = table'[m].exports]
         \/ table'[m] = [table[m] EXCEPT !.effects = table'[m].effects]
  PROVE  Kept(m)
<1>1. table[m] \in ModuleInfo
  BY ModuleFacts
<1> QED
  BY <1>1 DEF Kept, ModuleInfo

\* Every step keeps the types, the records and the kinds of modules.
LEMMA TypeStep ==
  ASSUME LinkTypeOK, TableInv, [Next]_vars
  PROVE  LinkTypeOK' /\ (\A m \in Modules : Kept(m)) /\ entries' = entries
<1>1. CASE compute_tla \/ find_tla_source
  BY <1>1, ComputeTlaType, KeptFacts
<1>2. CASE determine_module_exports_kind
  BY <1>2, ExportsKindType, KeptFacts
<1>3. CASE mark_star_exports \/ determine_has_dynamic_exports
  BY <1>3, DynamicExportsType, KeptFacts
<1>4. CASE wrap_modules \/ wrap_module_recursively
  BY <1>4, WrapModulesType, KeptFacts
<1>5. CASE wrap_all_cjs
  BY <1>5, WrapAllFacts, KeptFacts
<1>6. CASE generate_lazy_export
  BY <1>6, LazyExportFacts, KeptFacts
<1>7. CASE mark_own_effects \/ determine_side_effects
  BY <1>7, SideEffectsType, KeptFacts
<1>8. CASE sort_modules \/ sorted \/ linked \/ UNCHANGED vars
  BY <1>8, SortedType, KeptFacts
<1> QED
  BY <1>1, <1>2, <1>3, <1>4, <1>5, <1>6, <1>7, <1>8 DEF Next

\* Exports are promoted from "none" only, until data gets its exports.
LEMMA ExportsStep ==
  ASSUME LinkTypeOK, TableInv, [Next]_vars, NEW m \in Modules
  PROVE  /\ table[m].exports = "cjs" => table'[m].exports = "cjs"
         /\ table[m].exports = "esm" => table'[m].exports = "esm"
         /\ phase # "exports" => (table'[m].exports = "cjs" <=> table[m].exports = "cjs")
         /\ phase \notin {"exports", "lazy"} => table'[m].exports = table[m].exports
<1>0. table[m] \in ModuleInfo
  BY ModuleFacts
<1>1. CASE determine_module_exports_kind
  <2>1. phase = "exports"
    BY <1>1 DEF determine_module_exports_kind
  <2>2. CASE table' = table
    BY <2>1, <2>2
  <2>3. CASE InRecords /\ ApplyRecord(Records(cursor)[record])
    <3> DEFINE rec == Records(cursor)[record]
    <3>1. rec \in ImportRecord
      BY <2>3, RecordFacts DEF InRecords, LinkTypeOK
    <3>2. /\ rec.to \in Modules
          /\ table[rec.to].exports # "none" => ExportsWith(rec) = table[rec.to].exports
      BY <3>1, ExportsWithType
    <3> HIDE DEF rec
    <3>3. table' = IF table[rec.to].normal
                   THEN [table EXCEPT ![rec.to] = [table[rec.to] EXCEPT !.exports = ExportsWith(rec)]]
                   ELSE table
      BY <2>3 DEF ApplyRecord, rec
    <3>4. table'[m].exports = table[m].exports \/ (m = rec.to /\ table'[m].exports = ExportsWith(rec))
      BY <1>0, <3>2, <3>3 DEF LinkTypeOK, ModuleInfo
    <3> QED
      BY <2>1, <3>2, <3>4
  <2> QED
    BY <1>1, <2>2, <2>3 DEF determine_module_exports_kind
<1>2. CASE generate_lazy_export
  BY <1>2, LazyExportFacts DEF Generated
<1>3. CASE table' = table
  BY <1>3
<1>4. CASE mark_own_effects \/ determine_side_effects
  <2>1. table'[m] = [table[m] EXCEPT !.effects = table'[m].effects]
    BY <1>4, SideEffectsType
  <2>2. table'[m].exports = table[m].exports
    BY <1>0, <2>1 DEF ModuleInfo
  <2> QED
    BY <2>2
<1>5. CASE compute_tla \/ find_tla_source
  BY <1>5, <1>3, ComputeTlaType
<1>6. CASE mark_star_exports \/ determine_has_dynamic_exports
  BY <1>6, <1>3, DynamicExportsType
<1>7. CASE wrap_modules \/ wrap_module_recursively
  BY <1>7, <1>3, WrapModulesType
<1>8. CASE wrap_all_cjs
  BY <1>8, <1>3, WrapAllFacts
<1>9. CASE sort_modules \/ sorted \/ linked \/ UNCHANGED vars
  BY <1>9, <1>3, SortedType
<1> QED
  BY <1>1, <1>2, <1>4, <1>5, <1>6, <1>7, <1>8, <1>9 DEF Next

\* What the code assumes of the table stays so.
LEMMA TableStep ==
  ASSUME LinkTypeOK, TableInv, [Next]_vars
  PROVE  TableInv'
<1>1. \A m \in Modules : Kept(m)
  BY TypeStep
<1>2. table'[Runtime].exports = "esm"
  BY RuntimeAssumption, ExportsStep DEF TableInv
<1>3. \A m \in Modules : table'[m].recs = table[m].recs /\ table'[m].normal = table[m].normal
  BY <1>1 DEF Kept
<1> QED
  BY <1>2, <1>3, RuntimeAssumption DEF TableInv, Records

\* The passes follow each other in the order of LinkStage::link.
LEMMA PhaseStep ==
  ASSUME LinkTypeOK, [Next]_vars
  PROVE  /\ compute_tla \/ find_tla_source => phase = "tla" /\ phase' \in {"tla", "exports"}
         /\ determine_module_exports_kind => phase = "exports" /\ phase' \in {"exports", "stars"}
         /\ mark_star_exports => phase = "stars" /\ phase' = "reexports"
         /\ determine_has_dynamic_exports => phase = "reexports" /\ phase' \in {"reexports", "wrap"}
         /\ wrap_modules \/ wrap_module_recursively => phase = "wrap" /\ phase' \in {"wrap", "strict"}
         /\ wrap_all_cjs => phase = "strict" /\ phase' = "lazy"
         /\ generate_lazy_export => phase = "lazy" /\ phase' = "effects"
         /\ mark_own_effects => phase = "effects" /\ phase' = "importers"
         /\ determine_side_effects => phase = "importers" /\ phase' \in {"importers", "bind"}
<1>1. compute_tla \/ find_tla_source => phase = "tla" /\ phase' \in {"tla", "exports"}
  BY DEF compute_tla, find_tla_source, control, NextRecord, NextModule, Enters
<1>2. determine_module_exports_kind => phase = "exports" /\ phase' \in {"exports", "stars"}
  BY DEF determine_module_exports_kind, NextRecord, NextModule, Enters
<1>3. /\ mark_star_exports => phase = "stars" /\ phase' = "reexports"
      /\ determine_has_dynamic_exports => phase = "reexports" /\ phase' \in {"reexports", "wrap"}
  BY DEF mark_star_exports, determine_has_dynamic_exports, control, Enters
<1>4. wrap_modules \/ wrap_module_recursively => phase = "wrap" /\ phase' \in {"wrap", "strict"}
  BY DEF wrap_modules, wrap_module_recursively, control, NextRecord, NextModule, Enters
<1>5. /\ wrap_all_cjs => phase = "strict" /\ phase' = "lazy"
      /\ generate_lazy_export => phase = "lazy" /\ phase' = "effects"
      /\ mark_own_effects => phase = "effects" /\ phase' = "importers"
      /\ determine_side_effects => phase = "importers" /\ phase' \in {"importers", "bind"}
  BY DEF wrap_all_cjs, generate_lazy_export, mark_own_effects, determine_side_effects, control, Enters
<1> QED
  BY <1>1, <1>2, <1>3, <1>4, <1>5

-----------------------------------------------------------------------------
(* Side effects                                                             *)

\* Modules without effects of their own, and what they import.
LEMMA ThroughGraph ==
  ASSUME LinkTypeOK
  PROVE  /\ Through \in [Modules -> SUBSET Modules]
         /\ \A m \in Modules : Analyzed(m) => Through[m] = Targets(m, AllKinds)
         /\ \A m \in Modules : ~Analyzed(m) => Through[m] = {}
<1>1. \A m \in Modules : Targets(m, AllKinds) \subseteq Modules
  BY RecordFacts
<1> QED
  BY <1>1 DEF Through

\* The marks stay right while importers are looked at.
LEMMA MarkedStep ==
  ASSUME LinkTypeOK, TableInv, MarkedInv, [Next]_vars
  PROVE  MarkedInv'
<1>1. CASE mark_own_effects
  <2>1. /\ visited' = OwnEffects /\ pending' = OwnEffects /\ table' = table /\ metas' = metas
        /\ phase' = "importers"
    BY <1>1 DEF mark_own_effects
  <2>2. /\ OwnEffects' = OwnEffects /\ Through' = Through
        /\ \A m : Analyzed(m)' = Analyzed(m) /\ Dependents(m)' = Dependents(m)
    BY <2>1 DEF OwnEffects, Through, Analyzed, Dependents, ReexportsAtRunTime, Targets, Stars, Records
  <2>3. \A m \in OwnEffects : m \in Modules /\ (table[m].effects = "some" \/ Analyzed(m))
    BY DEF OwnEffects
  <2>4. \A m \in OwnEffects : m \in Via(Through, {m})
    BY <2>3, ViaBase
  <2>5. \A m \in OwnEffects : \E d \in Via(Through, {m}) : d \in OwnEffects
    BY <2>4
  <2>6. \A m : Via(Through, {m})' = Via(Through, {m})
    BY <2>2 DEF Via
  <2> QED
    BY <2>1, <2>2, <2>3, <2>5, <2>6 DEF MarkedInv
<1>2. CASE /\ phase = "importers" /\ table' = table /\ metas' = metas
           /\ \/ UNCHANGED <<visited, pending>>
              \/ \E m \in pending : Propagate(m)
  <2>1. /\ OwnEffects' = OwnEffects /\ Through' = Through
        /\ \A m : Analyzed(m)' = Analyzed(m) /\ Dependents(m)' = Dependents(m)
    BY <1>2 DEF OwnEffects, Through, Analyzed, Dependents, ReexportsAtRunTime, Targets, Stars, Records
  <2>2. \A m : Via(Through, {m})' = Via(Through, {m})
    BY <2>1 DEF Via
  <2>3. CASE UNCHANGED <<visited, pending>>
    BY <1>2, <2>1, <2>2, <2>3 DEF MarkedInv
  <2>4. CASE \E m \in pending : Propagate(m)
    <3>1. PICK m \in pending : Propagate(m)
      BY <2>4
    <3>2. /\ visited' = visited \cup Dependents(m)
          /\ pending' = (pending \ {m}) \cup (Dependents(m) \ visited)
      BY <3>1 DEF Propagate
    <3>3. /\ OwnEffects \subseteq visited /\ pending \subseteq visited
          /\ \A k \in visited : table[k].effects = "some" \/ Analyzed(k)
          /\ \A k \in visited : \E d \in Via(Through, {k}) : d \in OwnEffects
          /\ \A k \in visited \ pending : Dependents(k) \subseteq visited
      BY <1>2 DEF MarkedInv
    <3>4. \A k \in Dependents(m) : k \in Modules /\ Analyzed(k) /\ m \in Through[k]
      BY ThroughGraph DEF Dependents
    <3>5. \A k \in Dependents(m) : m \in Via(Through, {k})
      <4> SUFFICES ASSUME NEW k \in Dependents(m) PROVE m \in Via(Through, {k})
        OBVIOUS
      <4>1. k \in Via(Through, {k})
        BY <3>4, ViaBase
      <4> QED
        BY <3>4, <4>1, ThroughGraph, ViaStep
    <3>6. \A k \in Dependents(m) : \E d \in Via(Through, {k}) : d \in OwnEffects
      <4> SUFFICES ASSUME NEW k \in Dependents(m) PROVE \E d \in Via(Through, {k}) : d \in OwnEffects
        OBVIOUS
      <4>1. m \in visited
        BY <3>3
      <4>2. PICK d \in Via(Through, {m}) : d \in OwnEffects
        BY <3>3, <4>1
      <4>3. Via(Through, {m}) \subseteq Via(Through, {k})
        BY <3>5, ViaTransitive
      <4> QED
        BY <4>2, <4>3
    <3>7. \A k \in visited' \ pending' : Dependents(k) \subseteq visited'
      BY <3>2, <3>3
    <3>8. /\ OwnEffects \subseteq visited' /\ pending' \subseteq visited'
          /\ \A k \in visited' : table[k].effects = "some" \/ Analyzed(k)
          /\ \A k \in visited' : \E d \in Via(Through, {k}) : d \in OwnEffects
      BY <3>2, <3>3, <3>4, <3>6
    <3>9. \A k \in visited' : \E d \in Via(Through, {k})' : d \in OwnEffects'
      BY <2>1, <2>2, <3>8
    <3> QED
      BY <1>2, <2>1, <3>7, <3>8, <3>9 DEF MarkedInv
  <2> QED
    BY <1>2, <2>3, <2>4
<1>3. CASE phase' # "importers"
  BY <1>3 DEF MarkedInv
<1>4. CASE determine_side_effects
  <2>1. phase = "importers" /\ metas' = metas
    BY <1>4 DEF determine_side_effects
  <2>2. CASE (\E m \in pending : Propagate(m)) /\ UNCHANGED <<control, table>>
    BY <1>2, <2>1, <2>2
  <2>3. CASE Enters("bind")
    BY <1>3, <2>3 DEF Enters
  <2> QED
    BY <1>4, <2>2, <2>3 DEF determine_side_effects
<1>5. CASE sort_modules \/ sorted \/ linked \/ UNCHANGED vars
  <2>1. CASE sorted
    BY <1>3, <2>1 DEF sorted, Enters
  <2>2. CASE phase' = phase /\ UNCHANGED <<visited, pending, table, metas>>
    BY <1>2, <1>3, <2>2
  <2> QED
    BY <1>5, <2>1, <2>2, SortedType
<1> QED
  BY <1>1, <1>3, <1>4, <1>5, PhaseStep DEF Next

\* The verdicts the last step writes.
LEMMA VerdictsStep ==
  ASSUME LinkTypeOK, TableInv, MarkedInv, [Next]_vars, phase = "importers", phase' # phase
  PROVE  \A m \in Modules :
            table'[m].effects = "some" <=>
                \/ table[m].effects = "some"
                \/ Analyzed(m) /\ \E d \in Via(Through, {m}) : d \in OwnEffects
<1>1. determine_side_effects
  BY PhaseStep, SortedType DEF Next
<1>2. /\ pending = {}
      /\ table' = [m \in Modules |->
                     IF Analyzed(m) /\ m \in visited THEN [table[m] EXCEPT !.effects = "some"]
                     ELSE table[m]]
  BY <1>1 DEF determine_side_effects, control
<1>3. \A m \in Modules : table'[m].effects = "some" <=>
                            table[m].effects = "some" \/ (Analyzed(m) /\ m \in visited)
  <2>1. \A m \in Modules : table[m] \in ModuleInfo
    BY ModuleFacts
  <2> QED
    BY <1>2, <2>1 DEF ModuleInfo
<1>4. /\ OwnEffects \subseteq visited /\ visited \subseteq Modules
      /\ \A m \in visited : \E d \in Via(Through, {m}) : d \in OwnEffects
      /\ \A m \in visited : Dependents(m) \subseteq visited
  BY <1>2 DEF MarkedInv, LinkTypeOK
<1>5. ASSUME NEW m \in Modules, m \notin visited, NEW d \in Via(Through, {m})
      PROVE  d \notin visited
  <2> DEFINE T == Modules \ visited
  <2>1. \A k \in T : Through[k] \subseteq T
    <3> SUFFICES ASSUME NEW k \in T, NEW e \in Through[k], e \in visited PROVE FALSE
      BY ThroughGraph
    <3>1. Analyzed(k) /\ e \in Targets(k, AllKinds)
      BY ThroughGraph
    <3>2. k \in Dependents(e)
      BY <3>1 DEF Dependents
    <3> QED
      BY <1>4, <3>2
  <2>2. {m} \subseteq T /\ T \in SUBSET Modules
    BY <1>5
  <2> HIDE DEF T
  <2>3. Via(Through, {m}) \subseteq T
    BY <2>1, <2>2, ViaLeast
  <2> QED
    BY <1>5, <2>3 DEF T
<1>6. \A m \in Modules : m \in visited <=> \E d \in Via(Through, {m}) : d \in OwnEffects
  BY <1>4, <1>5
<1> QED
  BY <1>3, <1>6

-----------------------------------------------------------------------------
(* Wrappers                                                                 *)

\* The options stay as they are.
LEMMA OptionsStep ==
  ASSUME [Next]_vars
  PROVE  options' = options
<1>1. sort_modules \/ sorted \/ linked \/ UNCHANGED vars => options' = options
  BY DEF sort_modules, sorted, linked, vars
<1>2. compute_tla \/ find_tla_source \/ determine_module_exports_kind => options' = options
  BY DEF compute_tla, find_tla_source, determine_module_exports_kind
<1>3. /\ mark_star_exports \/ determine_has_dynamic_exports => options' = options
      /\ wrap_modules \/ wrap_module_recursively => options' = options
  BY DEF mark_star_exports, determine_has_dynamic_exports, wrap_modules, wrap_module_recursively
<1>4. /\ wrap_all_cjs \/ generate_lazy_export => options' = options
      /\ mark_own_effects \/ determine_side_effects => options' = options
  BY DEF wrap_all_cjs, generate_lazy_export, mark_own_effects, determine_side_effects
<1> QED
  BY <1>1, <1>2, <1>3, <1>4 DEF Next

\* What runs on demand depends on the records and on which modules are CommonJS.
LEMMA DemandUnchanged ==
  ASSUME \A m \in Modules : Kept(m), entries' = entries, options' = options,
         \A m \in Modules : table'[m].exports = "cjs" <=> table[m].exports = "cjs"
  PROVE  /\ \A m \in Modules : NeedsCjsWrapper(m)' <=> NeedsCjsWrapper(m)
         /\ \A rec : Demands(rec)' <=> Demands(rec)
         /\ \A m \in Modules : \A kinds : Targets(m, kinds)' = Targets(m, kinds)
         /\ OnDemand' = OnDemand /\ Ends' = Ends /\ Lazily' = Lazily /\ Strict' = Strict
<1>1. \A m \in Modules : Records(m)' = Records(m)
  BY DEF Kept, Records
<1>2. \A m \in Modules : \A kinds : Targets(m, kinds)' = Targets(m, kinds)
  BY <1>1, GraphUnchanged
<1>3. \A m \in Modules : table'[m].normal = table[m].normal /\ table'[m].usesModule = table[m].usesModule
  BY DEF Kept
<1>4. \A m : IsEntry(m)' <=> IsEntry(m)
  BY DEF IsEntry
<1>5. \A m \in Modules : NeedsCjsWrapper(m)' <=> NeedsCjsWrapper(m)
  BY <1>3, <1>4 DEF NeedsCjsWrapper
<1>6. \A rec : Demands(rec)' <=> Demands(rec)
  BY DEF Demands
<1>7. OnDemand' = OnDemand
  BY <1>2, <1>5 DEF OnDemand
<1>8. Ends' = Ends
  BY <1>3 DEF Ends
<1>9. Beyond' = Beyond
  BY <1>2, <1>8 DEF Beyond
<1>10. Lazily' = Lazily
  BY <1>7, <1>9 DEF Lazily, Via
<1>11. Strict' = Strict
  BY <1>3 DEF Strict
<1> QED
  BY <1>2, <1>5, <1>6, <1>7, <1>8, <1>10, <1>11

\* Before the exports are looked at nothing is wrapped.
LEMMA WrapBeforeExports ==
  ASSUME LinkTypeOK, TableInv, WrapInv, [Next]_vars, phase \in {"sort", "tla"}
  PROVE  WrapInv'
<1>1. \A m \in Modules : metas[m].wrap = "none" /\ metas[m] \in Metas
  BY ModuleFacts DEF WrapInv
<1>2. /\ phase' \in {"sort", "tla", "exports"}
      /\ phase' = "exports" => cursor' = 1 /\ record' = 0
      /\ \A m \in Modules : metas'[m].wrap = "none"
  <2>1. CASE compute_tla
    <3>1. \A m \in Modules : metas'[m].wrap = "none"
      <4>1. CASE metas' = metas
        BY <1>1, <4>1
      <4>2. CASE metas' = [metas EXCEPT ![cursor].tla = source[cursor] # NoSource]
        BY <1>1, <4>2 DEF LinkTypeOK, Metas
      <4> QED
        BY <2>1, <4>1, <4>2 DEF compute_tla
    <3>2. phase' = "exports" => cursor' = 1 /\ record' = 0
      BY <2>1 DEF compute_tla, NextModule, Enters, control, NextRecord
    <3> QED
      BY <2>1, <3>1, <3>2, PhaseStep
  <2>2. CASE find_tla_source
    BY <1>1, <2>2 DEF find_tla_source, control
  <2>3. CASE sort_modules \/ sorted \/ linked \/ UNCHANGED vars
    <3>1. metas' = metas /\ (UNCHANGED phase \/ sorted)
      BY <2>3, SortedType
    <3>2. sorted => phase' \in {"tla", "exports"} /\ cursor' = 1 /\ record' = 0
      BY DEF sorted, Enters
    <3> QED
      BY <1>1, <3>1, <3>2
  <2> QED
    BY <2>1, <2>2, <2>3, PhaseStep DEF Next
<1>3. LinkTypeOK'
  BY TypeStep
<1>4. KindInv' /\ PromotedInv'
  BY <1>2 DEF KindInv, PromotedInv
<1>5. phase' = "exports" => DemandedInv'
  <2> SUFFICES ASSUME phase' = "exports" PROVE DemandedInv'
    OBVIOUS
  <2>1. \A m \in Modules : ~(m < cursor')
    BY <1>2, CursorType
  <2>2. \A m \in Modules : \A r \in (DOMAIN Records(m))' : ~LookedAt(m, r)'
    <3> SUFFICES ASSUME NEW m \in Modules, NEW r \in (DOMAIN Records(m))' PROVE ~LookedAt(m, r)'
      OBVIOUS
    <3>1. Len(Records(m))' \in Nat /\ (DOMAIN Records(m))' = 1..Len(Records(m))'
      BY <1>3, RecordFacts
    <3>2. r \in Nat /\ ~(r < 0)
      BY <3>1
    <3> QED
      BY <1>2, <2>1, <3>2 DEF LookedAt
  <2> QED
    BY <1>2, <2>1, <2>2 DEF DemandedInv
<1> QED
  BY <1>2, <1>4, <1>5 DEF WrapInv, WrappersAreClosed

\* One record of the exports pass.
LEMMA WrapApplyRecord ==
  ASSUME LinkTypeOK, TableInv, KindInv, PromotedInv, DemandedInv, [Next]_vars,
         InRecords, ApplyRecord(Records(cursor)[record]), cursor' = cursor, record' = record + 1
  PROVE  KindInv' /\ PromotedInv' /\ DemandedInv'
<1> DEFINE rec == Records(cursor)[record]
<1>1. /\ rec \in ImportRecord /\ cursor \in Modules /\ record \in DOMAIN Records(cursor)
      /\ rec.to \in Modules /\ \A kinds : rec.kind \in kinds => rec.to \in Targets(cursor, kinds)
  BY RecordFacts DEF InRecords, LinkTypeOK
<1>2. /\ ExportsWith(rec) \in {"none", "esm", "cjs"}
      /\ Demands(rec) => ExportsWith(rec) \in {"esm", "cjs"}
      /\ table[rec.to].exports # "none" => ExportsWith(rec) = table[rec.to].exports
  BY <1>1, ExportsWithType
<1>3. Demands(rec) => rec.to # Runtime
  BY <1>1 DEF TableInv, Demands
<1>4. ExportsWith(rec) = "cjs" /\ table[rec.to].exports # "cjs" => Demands(rec)
  BY DEF ExportsWith
<1> HIDE DEF rec
<1>5. /\ table' = IF table[rec.to].normal
                  THEN [table EXCEPT ![rec.to] = [table[rec.to] EXCEPT !.exports = ExportsWith(rec)]]
                  ELSE table
      /\ metas' = IF table[rec.to].normal /\ Demands(rec)
                  THEN [metas EXCEPT ![rec.to] = [metas[rec.to] EXCEPT !.wrap = ExportsWith(rec)]]
                  ELSE metas
  BY DEF ApplyRecord, rec
<1>6. \A k \in Modules :
         /\ table[k] \in ModuleInfo /\ metas[k] \in Metas
         /\ table[k].exports \in {"none", "esm", "cjs"} /\ metas[k].wrap \in {"none", "esm", "cjs"}
  BY ModuleFacts
<1>7. \A k \in Modules :
         /\ table'[k].exports = IF k = rec.to /\ table[k].normal THEN ExportsWith(rec) ELSE table[k].exports
         /\ metas'[k].wrap = IF k = rec.to /\ table[k].normal /\ Demands(rec) THEN ExportsWith(rec)
                             ELSE metas[k].wrap
  BY <1>1, <1>5, <1>6 DEF LinkTypeOK, ModuleInfo, Metas
<1>8. /\ \A k \in Modules : Kept(k)
      /\ options' = options /\ entries' = entries
  BY TypeStep, OptionsStep
<1>9. /\ \A k \in Modules : Records(k)' = Records(k) /\ table'[k].normal = table[k].normal
      /\ \A k \in Modules : table'[k].usesModule = table[k].usesModule
  BY <1>8 DEF Kept, Records
<1>10. \A k \in Modules : table[k].exports = "cjs" => table'[k].exports = "cjs"
  BY <1>2, <1>7
<1>11. \A k \in Modules : \A kinds : Targets(k, kinds)' = Targets(k, kinds)
  BY <1>9, GraphUnchanged
<1>12. \A k : Demands(k)' = Demands(k)
  BY <1>8 DEF Demands
<1>13. \A k \in Modules : NeedsCjsWrapper(k) => NeedsCjsWrapper(k)'
  <2>1. \A k : IsEntry(k)' <=> IsEntry(k)
    BY <1>8 DEF IsEntry
  <2> QED
    BY <1>8, <1>9, <1>10, <2>1 DEF NeedsCjsWrapper
<1>14. \A k \in Modules : NeedsCjsWrapper(k)' /\ ~NeedsCjsWrapper(k) =>
          k = rec.to /\ table[k].normal /\ Demands(rec)
  <2>1. \A k : IsEntry(k)' <=> IsEntry(k)
    BY <1>8 DEF IsEntry
  <2>2. \A k \in Modules : NeedsCjsWrapper(k)' /\ ~NeedsCjsWrapper(k) =>
           table'[k].exports = "cjs" /\ table[k].exports # "cjs"
    BY <1>8, <1>9, <2>1 DEF NeedsCjsWrapper
  <2> QED
    BY <1>4, <1>7, <2>2
<1>15. OnDemand \subseteq OnDemand'
  BY <1>8, <1>10, <1>11, <1>13 DEF OnDemand
<1>16. Demands(rec) => rec.to \in OnDemand'
  <2> SUFFICES ASSUME Demands(rec) PROVE rec.to \in OnDemand'
    OBVIOUS
  <2>1. rec.to \in Targets(cursor, IF options.splitting THEN {"require"} ELSE {"require", "dynamic"})
    BY <1>1 DEF Demands
  <2>2. rec.to \in OnDemand
    BY <1>1, <2>1 DEF OnDemand
  <2> QED
    BY <1>15, <2>2
<1>17. KindInv'
  BY <1>2, <1>3, <1>7, <1>9 DEF KindInv, PromotedInv
<1>18. PromotedInv'
  BY <1>2, <1>7 DEF PromotedInv
<1>19. \A k \in Modules : metas'[k].wrap # "none" => k \in OnDemand'
  BY <1>7, <1>15, <1>16 DEF DemandedInv
<1>20. \A k \in Modules : metas[k].wrap # "none" => metas'[k].wrap # "none"
  BY <1>2, <1>7
<1>21. ASSUME NEW m \in Modules, NEW r \in DOMAIN Records(m), LookedAt(m, r)',
              Demands(Records(m)[r]), table[Records(m)[r].to].normal
       PROVE  metas'[Records(m)[r].to].wrap # "none"
  <2>1. Records(m)[r].to \in Modules /\ r \in Nat /\ record \in Nat
    BY RecordFacts DEF LinkTypeOK
  <2>2. LookedAt(m, r) \/ (m = cursor /\ r = record)
    BY <1>21, <2>1, CursorType DEF LookedAt
  <2>3. CASE LookedAt(m, r)
    <3>1. metas[Records(m)[r].to].wrap # "none"
      BY <1>21, <2>3 DEF DemandedInv
    <3> QED
      BY <1>20, <2>1, <3>1
  <2>4. CASE m = cursor /\ r = record
    BY <1>2, <1>7, <1>21, <2>1, <2>4 DEF rec
  <2> QED
    BY <2>2, <2>3, <2>4
<1>22. ASSUME NEW m \in Modules, m < cursor, NeedsCjsWrapper(m)'
       PROVE  metas'[m].wrap # "none"
  <2>1. CASE NeedsCjsWrapper(m)
    BY <1>20, <1>22, <2>1 DEF DemandedInv
  <2>2. CASE ~NeedsCjsWrapper(m)
    BY <1>2, <1>7, <1>14, <1>22, <2>2
  <2> QED
    BY <2>1, <2>2
<1>23. \A m \in Modules : \A r \in DOMAIN Records(m) :
          LookedAt(m, r)' /\ Demands(Records(m)[r]) /\ table'[Records(m)[r].to].normal =>
              metas'[Records(m)[r].to].wrap # "none"
  <2>1. \A m \in Modules : \A r \in DOMAIN Records(m) : Records(m)[r].to \in Modules
    BY RecordFacts
  <2> QED
    BY <1>9, <1>21, <2>1
<1>24. \A m \in Modules : m < cursor' /\ NeedsCjsWrapper(m)' => metas'[m].wrap # "none"
  BY <1>22
<1>25. DemandedInv'
  BY <1>9, <1>12, <1>19, <1>23, <1>24 DEF DemandedInv
<1> QED
  BY <1>17, <1>18, <1>25

\* A module whose records the exports pass has looked at.
LEMMA WrapEndOfModule ==
  ASSUME LinkTypeOK, TableInv, KindInv, PromotedInv, DemandedInv, [Next]_vars,
         record # 0, RecordsDone, table' = table,
         metas' = IF NeedsCjsWrapper(cursor) THEN [metas EXCEPT ![cursor].wrap = "cjs"] ELSE metas
  PROVE  /\ KindInv' /\ PromotedInv'
         /\ \A m \in Modules : metas'[m].wrap # "none" => m \in OnDemand'
         /\ \A m \in Modules : \A r \in DOMAIN Records(m) :
               m <= cursor /\ Demands(Records(m)[r]) /\ table[Records(m)[r].to].normal =>
                   metas'[Records(m)[r].to].wrap # "none"
         /\ \A m \in Modules : m <= cursor /\ NeedsCjsWrapper(m)' => metas'[m].wrap # "none"
<1>1. /\ cursor \in Modules /\ \A k \in Modules : metas[k] \in Metas
      /\ \A k \in Modules : table[k].exports \in {"none", "esm", "cjs"}
  BY ModuleFacts DEF LinkTypeOK
<1>2. \A k \in Modules : metas'[k].wrap = IF k = cursor /\ NeedsCjsWrapper(k) THEN "cjs" ELSE metas[k].wrap
  BY <1>1 DEF LinkTypeOK, Metas
<1>3. \A k \in Modules : NeedsCjsWrapper(k) =>
         table[k].normal /\ table[k].exports = "cjs" /\ k # Runtime /\ k \in OnDemand
  BY DEF NeedsCjsWrapper, TableInv, OnDemand
<1>4. options' = options /\ entries' = entries /\ \A k \in Modules : Kept(k)
  BY OptionsStep, TypeStep
<1>5. OnDemand' = OnDemand /\ \A k \in Modules : NeedsCjsWrapper(k)' <=> NeedsCjsWrapper(k)
  BY <1>4, DemandUnchanged
<1>6. KindInv' /\ PromotedInv'
  BY <1>2, <1>3 DEF KindInv, PromotedInv
<1>7. \A m \in Modules : metas'[m].wrap # "none" => m \in OnDemand'
  BY <1>2, <1>3, <1>5 DEF DemandedInv
<1>8. ASSUME NEW m \in Modules, NEW r \in DOMAIN Records(m), m <= cursor
      PROVE  LookedAt(m, r)
  <2>1. m \in Nat /\ cursor \in Nat /\ record \in Nat
    BY <1>1, CursorType DEF LinkTypeOK
  <2>2. DOMAIN Records(m) = 1..Len(Records(m)) /\ Len(Records(m)) \in Nat
    BY RecordFacts
  <2>3. table[m].normal
    <3>1. ~table[m].normal => Records(m) = <<>>
      BY DEF TableInv, Records
    <3>2. Records(m) = <<>> => DOMAIN Records(m) = {}
      BY EmptySeq
    <3> QED
      BY <3>1, <3>2
  <2>4. m = cursor => r < record
    BY <2>1, <2>2, <2>3 DEF RecordsDone
  <2> QED
    BY <1>8, <2>1, <2>4 DEF LookedAt
<1>9. \A m \in Modules : \A r \in DOMAIN Records(m) :
         m <= cursor /\ Demands(Records(m)[r]) /\ table[Records(m)[r].to].normal =>
             metas[Records(m)[r].to].wrap # "none"
  BY <1>8 DEF DemandedInv
<1>10. \A m \in Modules : \A r \in DOMAIN Records(m) : Records(m)[r].to \in Modules
  BY RecordFacts
<1>11. \A m \in Modules : metas[m].wrap # "none" => metas'[m].wrap # "none"
  BY <1>2
<1>12. \A m \in Modules : m <= cursor /\ NeedsCjsWrapper(m)' => metas'[m].wrap # "none"
  <2> SUFFICES ASSUME NEW m \in Modules, m <= cursor, NeedsCjsWrapper(m)
               PROVE  metas'[m].wrap # "none"
    BY <1>5
  <2>1. m \in Nat /\ cursor \in Nat
    BY <1>1, CursorType
  <2>2. m < cursor \/ m = cursor
    BY <2>1
  <2>3. m < cursor => metas[m].wrap # "none"
    BY DEF DemandedInv
  <2> QED
    BY <1>2, <1>11, <2>2, <2>3
<1> QED
  BY <1>6, <1>7, <1>9, <1>10, <1>11, <1>12

\* The exports pass gives their wrappers to the modules that are asked for.
LEMMA WrapExportsStep ==
  ASSUME LinkTypeOK, TableInv, WrapInv, [Next]_vars, determine_module_exports_kind
  PROVE  WrapInv'
<1>1. phase = "exports" /\ KindInv /\ PromotedInv /\ DemandedInv
  BY DEF determine_module_exports_kind, WrapInv
<1>2. CASE record = 0 /\ NextRecord /\ UNCHANGED <<visited, table, metas>>
  <2>1. /\ options' = options /\ entries' = entries /\ \A k \in Modules : Kept(k)
        /\ phase' = phase /\ cursor' = cursor /\ record' = 1
    BY <1>2, OptionsStep, TypeStep DEF NextRecord
  <2>2. /\ OnDemand' = OnDemand /\ \A rec : Demands(rec)' <=> Demands(rec)
        /\ \A k \in Modules : NeedsCjsWrapper(k)' <=> NeedsCjsWrapper(k)
    BY <1>2, <2>1, DemandUnchanged
  <2>3. \A m \in Modules : \A r \in DOMAIN Records(m) : LookedAt(m, r)' => LookedAt(m, r)
    BY <2>1, RecordFacts DEF LookedAt
  <2>4. \A m \in Modules : Records(m)' = Records(m)
    BY <1>2 DEF Records
  <2>5. \A m \in Modules : metas'[m].wrap # "none" => m \in OnDemand'
    BY <1>1, <1>2, <2>2 DEF DemandedInv
  <2>6. \A m \in Modules : \A r \in DOMAIN Records(m) :
           LookedAt(m, r)' /\ Demands(Records(m)[r])' /\ table[Records(m)[r].to].normal =>
               metas[Records(m)[r].to].wrap # "none"
    BY <1>1, <2>2, <2>3, <2>4 DEF DemandedInv
  <2>7. \A m \in Modules : m < cursor /\ NeedsCjsWrapper(m)' => metas[m].wrap # "none"
    BY <1>1, <2>2 DEF DemandedInv
  <2>8. DemandedInv'
    BY <1>2, <2>1, <2>4, <2>5, <2>6, <2>7 DEF DemandedInv
  <2>9. KindInv' /\ PromotedInv'
    BY <1>1, <1>2 DEF KindInv, PromotedInv
  <2> QED
    BY <1>1, <2>1, <2>8, <2>9 DEF WrapInv, WrappersAreClosed
<1>3. CASE InRecords /\ ApplyRecord(Records(cursor)[record]) /\ NextRecord
  <2>1. phase' = phase /\ cursor' = cursor /\ record' = record + 1
    BY <1>3 DEF NextRecord
  <2>2. KindInv' /\ PromotedInv' /\ DemandedInv'
    BY <1>1, <1>3, <2>1, WrapApplyRecord
  <2> QED
    BY <1>1, <2>1, <2>2 DEF WrapInv, WrappersAreClosed
<1>4. CASE /\ record # 0 /\ RecordsDone
           /\ metas' = IF NeedsCjsWrapper(cursor) THEN [metas EXCEPT ![cursor].wrap = "cjs"] ELSE metas
           /\ NextModule("stars") /\ UNCHANGED table
  <2>1. /\ KindInv' /\ PromotedInv'
        /\ \A m \in Modules : metas'[m].wrap # "none" => m \in OnDemand'
        /\ \A m \in Modules : \A r \in DOMAIN Records(m) :
              m <= cursor /\ Demands(Records(m)[r]) /\ table[Records(m)[r].to].normal =>
                  metas'[Records(m)[r].to].wrap # "none"
        /\ \A m \in Modules : m <= cursor /\ NeedsCjsWrapper(m)' => metas'[m].wrap # "none"
    BY <1>1, <1>4, WrapEndOfModule
  <2>2. /\ options' = options /\ \A m \in Modules : Records(m)' = Records(m)
        /\ \A rec : Demands(rec)' <=> Demands(rec)
    BY <1>4, OptionsStep DEF Records, Demands
  <2>3. "stars" \in Phases
    BY DEF Phases
  <2>4. \/ phase' = phase /\ cursor' = cursor + 1 /\ record' = 0
        \/ phase' = "stars" /\ \A m \in Modules : m <= cursor
    BY <1>4, <2>3, NextModuleFacts
  <2>5. CASE phase' = phase /\ cursor' = cursor + 1 /\ record' = 0
    <3>1. cursor \in Nat /\ \A m \in Modules : m \in Nat
      BY CursorType
    <3>2. \A m \in Modules : \A r \in DOMAIN Records(m) : LookedAt(m, r)' => m <= cursor
      BY <2>5, <3>1, RecordFacts DEF LookedAt
    <3>3. \A m \in Modules : m < cursor' => m <= cursor
      BY <2>5, <3>1
    <3>4. \A m \in Modules : \A r \in DOMAIN Records(m) :
             LookedAt(m, r)' /\ Demands(Records(m)[r])' /\ table[Records(m)[r].to].normal =>
                 metas'[Records(m)[r].to].wrap # "none"
      BY <2>1, <2>2, <3>2
    <3>5. DemandedInv'
      BY <1>4, <2>1, <2>2, <3>3, <3>4 DEF DemandedInv
    <3> QED
      BY <1>1, <2>1, <2>5, <3>5 DEF WrapInv, WrappersAreClosed
  <2>6. CASE phase' = "stars" /\ \A m \in Modules : m <= cursor
    <3>1. \A m \in Modules : \A r \in DOMAIN Records(m) :
             Demands(Records(m)[r])' /\ table[Records(m)[r].to].normal =>
                 metas'[Records(m)[r].to].wrap # "none"
      BY <2>1, <2>2, <2>6
    <3>2. AllDemandedInv'
      BY <1>4, <2>1, <2>2, <2>6, <3>1 DEF AllDemandedInv
    <3> QED
      BY <2>1, <2>6, <3>2 DEF WrapInv, WrappersAreClosed
  <2> QED
    BY <2>4, <2>5, <2>6
<1> QED
  BY <1>2, <1>3, <1>4 DEF determine_module_exports_kind

\* What lies beyond a module, for the modules wrap_module_recursively enters.
LEMMA BeyondGraph ==
  ASSUME LinkTypeOK
  PROVE  /\ Beyond \in [Modules -> SUBSET Modules]
         /\ \A m \in Modules \ Ends : Beyond[m] = Targets(m, AllKinds)
         /\ \A m \in Ends : m \in Modules /\ Beyond[m] = {}
         /\ OnDemand \subseteq Lazily /\ Lazily \subseteq Modules
         /\ \A m \in Lazily \ Ends : Targets(m, AllKinds) \subseteq Lazily
<1>1. \A m \in Modules : Targets(m, AllKinds) \subseteq Modules
  BY RecordFacts
<1>2. /\ Beyond \in [Modules -> SUBSET Modules]
      /\ \A m \in Modules \ Ends : Beyond[m] = Targets(m, AllKinds)
      /\ \A m \in Ends : m \in Modules /\ Beyond[m] = {}
  BY <1>1 DEF Beyond, Ends
<1>3. OnDemand \in SUBSET Modules
  BY DEF OnDemand
<1>4. OnDemand \subseteq Lazily
  BY <1>3, ViaBase DEF Lazily
<1>5. Lazily \subseteq Modules
  BY DEF Lazily, Via
<1>6. \A m \in Lazily \ Ends : Targets(m, AllKinds) \subseteq Lazily
  <2> SUFFICES ASSUME NEW m \in Lazily \ Ends, NEW d \in Targets(m, AllKinds) PROVE d \in Lazily
    OBVIOUS
  <2>1. d \in Beyond[m] /\ m \in Via(Beyond, OnDemand)
    BY <1>2, <1>5 DEF Lazily
  <2> QED
    BY <1>2, <2>1, ViaStep DEF Lazily
<1> QED
  BY <1>2, <1>4, <1>5, <1>6

\* The passes between leave wrappers alone; the walk starts with nothing visited.
LEMMA WrapDynamicStep ==
  ASSUME LinkTypeOK, TableInv, WrapInv, [Next]_vars, mark_star_exports \/ determine_has_dynamic_exports
  PROVE  WrapInv'
<1>1. /\ UNCHANGED <<calls, options, table, entries>> /\ calls = <<>>
      /\ \A m \in Modules : metas'[m].wrap = metas[m].wrap
      /\ phase \in {"stars", "reexports"}
      /\ \/ phase' = "reexports"
         \/ phase' = "wrap" /\ cursor' = 1 /\ record' = 0 /\ visited' = {}
  BY DynamicExportsType
<1>2. KindInv /\ AllDemandedInv /\ \A m \in Modules : metas[m].wrap # "none" => m \in OnDemand
  BY <1>1 DEF WrapInv
<1>3. \A m \in Modules : Kept(m)
  BY TypeStep
<1>4. /\ \A m \in Modules : NeedsCjsWrapper(m)' <=> NeedsCjsWrapper(m)
      /\ \A rec : Demands(rec)' <=> Demands(rec)
      /\ OnDemand' = OnDemand /\ Lazily' = Lazily
  BY <1>1, <1>3, DemandUnchanged
<1>5. KindInv'
  BY <1>1, <1>2 DEF KindInv
<1>6. \A m \in Modules : Records(m)' = Records(m)
  BY <1>1 DEF Records
<1>7. \A m \in Modules : \A r \in DOMAIN Records(m) : Records(m)[r].to \in Modules
  BY RecordFacts
<1>8. AllDemandedInv'
  <2>1. \A m \in Modules : \A r \in DOMAIN Records(m) :
           Demands(Records(m)[r]) /\ table[Records(m)[r].to].normal => metas'[Records(m)[r].to].wrap # "none"
    BY <1>1, <1>2, <1>7 DEF AllDemandedInv
  <2>2. \A m \in Modules : NeedsCjsWrapper(m)' => metas'[m].wrap # "none"
    BY <1>1, <1>2, <1>4 DEF AllDemandedInv
  <2> QED
    BY <1>1, <1>4, <1>6, <2>1, <2>2 DEF AllDemandedInv
<1>9. CASE phase' = "reexports"
  BY <1>1, <1>2, <1>4, <1>5, <1>8, <1>9 DEF WrapInv, WrappersAreClosed
<1>10. CASE phase' = "wrap" /\ cursor' = 1 /\ record' = 0 /\ visited' = {}
  <2>1. DOMAIN calls' = {}
    BY <1>1, EmptySeq
  <2>2. \A m \in Modules : metas'[m].wrap # "none" => m \in Lazily'
    BY <1>1, <1>2, <1>4, BeyondGraph
  <2>3. VisitedInv'
    BY <1>10, <2>1, <2>2 DEF VisitedInv
  <2>4. \A m \in Modules : ~Looked(m)' /\ \A r \in DOMAIN Records(m) : ~LookedAt(m, r)'
    BY <1>10, CursorType, RecordFacts DEF Looked, LookedAt
  <2>5. WrapLookedInv'
    BY <1>6, <2>4 DEF WrapLookedInv
  <2> QED
    BY <1>5, <1>8, <1>10, <2>3, <2>5 DEF WrapInv, WrappersAreClosed
<1> QED
  BY <1>1, <1>9, <1>10

\* A call for a module that runs lazily, from calls that have not looked beyond what is visited.
LEMMA WrapCallInv ==
  ASSUME LinkTypeOK, TableInv, KindInv, AllDemandedInv, VisitedInv, [Next]_vars, table' = table,
         NEW frames \in Seq(Frames), NEW m \in Lazily, NEW required \in BOOLEAN,
         WrapModuleRecursively(frames, m, required),
         DOMAIN frames = DOMAIN calls,
         \A k \in DOMAIN calls : frames[k].at = calls[k].at,
         \A k \in DOMAIN calls : \A r \in DOMAIN Records(calls[k].at) :
            r < frames[k].next => Records(calls[k].at)[r].to \in visited \cup {m}
  PROVE  /\ KindInv' /\ AllDemandedInv' /\ VisitedInv'
         /\ visited' = visited \cup {m}
         /\ \A k \in Modules : metas'[k].wrap # "none" /\ metas[k].wrap = "none" => k \in visited'
<1>1. m \in Modules
  BY BeyondGraph
<1>2. /\ visited' = visited \cup {m}
      /\ \A k \in Modules : metas'[k].wrap = IF k = m /\ Entered(m) THEN WrapFor(m) ELSE metas[k].wrap
      /\ calls' = IF Entered(m) THEN Call(frames, m) ELSE frames
  BY <1>1, WrapCallFacts
<1>3. /\ Call(frames, m) \in Seq(Frames)
      /\ DOMAIN Call(frames, m) = 1..(Len(frames) + 1)
      /\ DOMAIN frames = 1..Len(frames) /\ Len(frames) \in Nat
      /\ \A k \in DOMAIN frames : Call(frames, m)[k] = frames[k]
      /\ Call(frames, m)[Len(frames) + 1] = [at |-> m, next |-> 1]
  BY <1>1, CallFacts
<1>4. options' = options /\ entries' = entries /\ \A k \in Modules : Kept(k)
  BY OptionsStep, TypeStep
<1>5. /\ \A k \in Modules : NeedsCjsWrapper(k)' <=> NeedsCjsWrapper(k)
      /\ \A rec : Demands(rec)' <=> Demands(rec)
      /\ \A k \in Modules : \A kinds : Targets(k, kinds)' = Targets(k, kinds)
      /\ Ends' = Ends /\ Lazily' = Lazily
  BY <1>4, DemandUnchanged
<1>6. \A k \in Modules : Records(k)' = Records(k)
  BY DEF Records
<1>7. \A k \in Modules : \A r \in DOMAIN Records(k) : Records(k)[r].to \in Modules
  BY RecordFacts
<1>8. \A k \in Modules : metas[k].wrap \in {"none", "esm", "cjs"} /\ table[k].exports \in {"none", "esm", "cjs"}
  BY ModuleFacts
<1>9. /\ Entered(m) => m \notin visited /\ table[m].normal /\ m # Runtime
      /\ WrapFor(m) # "none" /\ (metas[m].wrap # "none" => WrapFor(m) = metas[m].wrap)
      /\ metas[m].wrap = "none" => (WrapFor(m) = "cjs" <=> table[m].exports = "cjs")
  BY <1>1, <1>8 DEF Entered, Ends, WrapFor
<1>10. KindInv'
  BY <1>1, <1>2, <1>9 DEF KindInv
<1>11. \A k \in Modules : metas[k].wrap # "none" => metas'[k].wrap # "none"
  BY <1>2, <1>9
<1>12. AllDemandedInv'
  <2>1. \A k \in Modules : \A r \in DOMAIN Records(k) :
           Demands(Records(k)[r]) /\ table[Records(k)[r].to].normal => metas'[Records(k)[r].to].wrap # "none"
    BY <1>7, <1>11 DEF AllDemandedInv
  <2>2. \A k \in Modules : NeedsCjsWrapper(k)' => metas'[k].wrap # "none"
    BY <1>5, <1>11 DEF AllDemandedInv
  <2> QED
    BY <1>5, <1>6, <2>1, <2>2 DEF AllDemandedInv
<1>13. visited' \subseteq Lazily
  BY <1>2 DEF VisitedInv
<1>14. \A k \in Modules : metas'[k].wrap # "none" => k \in Lazily
  BY <1>2 DEF VisitedInv
<1>15. \A k \in visited' \ Ends : metas'[k].wrap # "none"
  <2>1. \A k \in visited \ Ends : k \in Modules /\ metas[k].wrap # "none"
    BY DEF VisitedInv, LinkTypeOK
  <2>2. m \notin visited \cup Ends => metas'[m].wrap # "none"
    BY <1>1, <1>2, <1>9 DEF Entered
  <2> QED
    BY <1>2, <1>11, <2>1, <2>2
<1>16. ASSUME NEW k \in DOMAIN calls'
       PROVE  /\ calls'[k].at \in visited' \ Ends
              /\ \A r \in DOMAIN Records(calls'[k].at) :
                    r < calls'[k].next => Records(calls'[k].at)[r].to \in visited'
  <2>1. CASE k \in DOMAIN frames
    <3>1. calls'[k] = frames[k] /\ k \in DOMAIN calls
      BY <1>2, <1>3, <2>1
    <3>2. calls[k].at \in visited \ Ends
      BY <3>1 DEF VisitedInv
    <3> QED
      BY <1>2, <3>1, <3>2
  <2>2. CASE k \notin DOMAIN frames
    <3>1. Entered(m) /\ calls'[k] = [at |-> m, next |-> 1]
      BY <1>2, <1>3, <1>16, <2>2
    <3>2. m \in visited' \ Ends
      BY <1>2, <3>1 DEF Entered
    <3>3. \A r \in DOMAIN Records(m) : ~(r < 1)
      BY <1>1, RecordFacts
    <3> QED
      BY <3>1, <3>2, <3>3
  <2> QED
    BY <2>1, <2>2
<1>17. ASSUME NEW k \in visited' \ Ends
       PROVE  InProgress(k)' \/ Targets(k, AllKinds) \subseteq visited'
  <2>1. CASE k \in visited
    <3>1. InProgress(k) \/ Targets(k, AllKinds) \subseteq visited
      BY <1>17, <2>1 DEF VisitedInv
    <3>2. ASSUME InProgress(k) PROVE InProgress(k)'
      <4>1. PICK j \in DOMAIN calls : calls[j].at = k
        BY <3>2 DEF InProgress
      <4>2. j \in DOMAIN calls' /\ calls'[j] = frames[j]
        BY <1>2, <1>3, <4>1
      <4> QED
        BY <4>1, <4>2 DEF InProgress
    <3> QED
      BY <1>2, <3>1, <3>2
  <2>2. CASE k \notin visited
    <3>1. k = m /\ Entered(m)
      BY <1>2, <1>17, <2>2 DEF Entered
    <3>2. Len(frames) + 1 \in DOMAIN calls' /\ calls'[Len(frames) + 1].at = m
      BY <1>2, <1>3, <3>1
    <3> QED
      BY <3>1, <3>2 DEF InProgress
  <2> QED
    BY <2>1, <2>2
<1>18. VisitedInv'
  <2>1. \A k \in DOMAIN calls' : calls'[k].at \in Modules
    BY <1>13, <1>16, BeyondGraph
  <2>2. \A k \in visited' \ Ends : k \in Modules
    BY <1>13, BeyondGraph
  <2>3. \A k \in visited' \ Ends : InProgress(k)' \/ Targets(k, AllKinds)' \subseteq visited'
    BY <1>5, <1>17, <2>2
  <2>4. \A k \in DOMAIN calls' :
           /\ calls'[k].at \in visited' \ Ends
           /\ \A r \in DOMAIN table'[calls'[k].at].recs :
                 r < calls'[k].next => table'[calls'[k].at].recs[r].to \in visited'
    BY <1>16 DEF Records
  <2> QED
    BY <1>5, <1>13, <1>14, <1>15, <2>3, <2>4 DEF VisitedInv, Records
<1>19. \A k \in Modules : metas'[k].wrap # "none" /\ metas[k].wrap = "none" => k \in visited'
  BY <1>2
<1> QED
  BY <1>2, <1>10, <1>12, <1>18, <1>19

\* What was looked at stays visited; what is looked at now has to be.
LEMMA WrapLookedStep ==
  ASSUME LinkTypeOK, TableInv, WrapLookedInv, [Next]_vars, table' = table, visited \subseteq visited',
         \A k \in Modules : metas'[k].wrap # "none" /\ metas[k].wrap = "none" => k \in visited',
         \A k \in Modules : Looked(k)' /\ metas[k].wrap # "none" => Looked(k) \/ k \in visited',
         \A k \in Modules : \A r \in DOMAIN Records(k) :
            /\ LookedAt(k, r)'
            /\ table[Records(k)[r].to].normal /\ table[Records(k)[r].to].exports = "cjs"
            => LookedAt(k, r) \/ Records(k)[r].to \in visited' \/ k \in visited' \ Ends
  PROVE  WrapLookedInv'
<1>1. Ends' = Ends /\ \A k \in Modules : Records(k)' = Records(k)
  BY DEF Ends, Records
<1>2. \A k \in Modules : Looked(k)' /\ metas'[k].wrap # "none" => k \in visited'
  BY DEF WrapLookedInv
<1>3. \A k \in Modules : \A r \in DOMAIN Records(k) :
         /\ LookedAt(k, r)'
         /\ table[Records(k)[r].to].normal /\ table[Records(k)[r].to].exports = "cjs"
         => Records(k)[r].to \in visited' \/ k \in visited' \ Ends
  BY DEF WrapLookedInv
<1> QED
  BY <1>1, <1>2, <1>3 DEF WrapLookedInv

\* One step of a call that is in progress.
LEMMA WrapRecursiveStep ==
  ASSUME LinkTypeOK, TableInv, WrapInv, [Next]_vars, wrap_module_recursively
  PROVE  WrapInv'
<1>1. /\ phase = "wrap" /\ calls # <<>> /\ UNCHANGED <<phase, cursor, record, table>>
      /\ KindInv /\ AllDemandedInv /\ VisitedInv /\ WrapLookedInv
  BY DEF wrap_module_recursively, control, WrapInv
<1>2. calls \in Seq(Frames)
  BY DEF LinkTypeOK
<1>3. /\ Len(calls) \in Nat \ {0} /\ DOMAIN calls = 1..Len(calls) /\ Len(calls) \in DOMAIN calls
      /\ Caller = calls[Len(calls)] /\ Caller.at \in Modules /\ Caller.next \in Nat \ {0}
      /\ DOMAIN Returned = 1..(Len(calls) - 1) /\ \A k \in DOMAIN Returned : Returned[k] = calls[k]
      /\ Continued \in Seq(Frames) /\ DOMAIN Continued = DOMAIN calls
      /\ \A k \in DOMAIN calls :
            /\ Continued[k].at = calls[k].at
            /\ k # Len(calls) => Continued[k] = calls[k]
            /\ k = Len(calls) => Continued[k].next = calls[k].next + 1
  BY <1>1, <1>2, CallerFacts
<1>4. /\ \A k : Looked(k)' <=> Looked(k)
      /\ \A k, r : LookedAt(k, r)' <=> LookedAt(k, r)
  BY <1>1 DEF Looked, LookedAt
<1>5. /\ DOMAIN Records(Caller.at) = 1..Len(Records(Caller.at)) /\ Len(Records(Caller.at)) \in Nat
      /\ \A r \in DOMAIN Records(Caller.at) :
            /\ Records(Caller.at)[r].to \in Modules /\ Records(Caller.at)[r].to \in Targets(Caller.at, AllKinds)
  BY <1>3, RecordFacts
<1>6. /\ Caller.at \in visited \ Ends
      /\ \A r \in DOMAIN Records(Caller.at) : r < Caller.next => Records(Caller.at)[r].to \in visited
  BY <1>1, <1>3 DEF VisitedInv
<1>7. CASE /\ CallerInRecords
           /\ WrapModuleRecursively(Continued, CallerRecord.to, CallerRecord.kind = "require")
  <2>1. /\ Caller.next \in DOMAIN Records(Caller.at)
        /\ CallerRecord.to = Records(Caller.at)[Caller.next].to
    BY <1>7 DEF CallerInRecords, CallerRecord
  <2>2. CallerRecord.to \in Lazily
    BY <1>1, <1>5, <1>6, <2>1, BeyondGraph DEF VisitedInv
  <2>3. \A k \in DOMAIN calls : \A r \in DOMAIN Records(calls[k].at) :
           r < Continued[k].next => Records(calls[k].at)[r].to \in visited \cup {CallerRecord.to}
    <3> SUFFICES ASSUME NEW k \in DOMAIN calls, NEW r \in DOMAIN Records(calls[k].at), r < Continued[k].next
                 PROVE  Records(calls[k].at)[r].to \in visited \cup {CallerRecord.to}
      OBVIOUS
    <3>1. CASE k # Len(calls)
      BY <1>1, <1>3, <3>1 DEF VisitedInv
    <3>2. CASE k = Len(calls)
      <4>1. r \in Nat /\ r < Caller.next + 1 /\ r \in DOMAIN Records(Caller.at)
        BY <1>3, <1>5, <3>2
      <4>2. r < Caller.next \/ r = Caller.next
        BY <1>3, <4>1
      <4> QED
        BY <1>3, <1>6, <2>1, <3>2, <4>1, <4>2
    <3> QED
      BY <3>1, <3>2
  <2>4. PICK required \in BOOLEAN : WrapModuleRecursively(Continued, CallerRecord.to, required)
    BY <1>7
  <2>5. /\ KindInv' /\ AllDemandedInv' /\ VisitedInv'
        /\ visited' = visited \cup {CallerRecord.to}
        /\ \A k \in Modules : metas'[k].wrap # "none" /\ metas[k].wrap = "none" => k \in visited'
    BY <1>1, <1>3, <1>7, <2>2, <2>3, <2>4, WrapCallInv
  <2>6. WrapLookedInv'
    BY <1>1, <1>4, <2>5, WrapLookedStep
  <2> QED
    BY <1>1, <2>5, <2>6 DEF WrapInv, WrappersAreClosed
<1>8. CASE ~CallerInRecords /\ calls' = Returned /\ UNCHANGED <<visited, metas>>
  <2>1. options' = options /\ entries' = entries /\ \A k \in Modules : Kept(k)
    BY OptionsStep, TypeStep
  <2>2. /\ \A k \in Modules : NeedsCjsWrapper(k)' <=> NeedsCjsWrapper(k)
        /\ \A rec : Demands(rec)' <=> Demands(rec)
        /\ \A k \in Modules : \A kinds : Targets(k, kinds)' = Targets(k, kinds)
        /\ Ends' = Ends /\ Lazily' = Lazily
    BY <1>1, <2>1, DemandUnchanged
  <2>3. \A k \in Modules : Records(k)' = Records(k)
    BY <1>1 DEF Records
  <2>4. KindInv' /\ AllDemandedInv'
    BY <1>1, <1>8, <2>2, <2>3 DEF KindInv, AllDemandedInv
  <2>5. WrapLookedInv'
    BY <1>1, <1>4, <1>8, WrapLookedStep
  <2>6. Targets(Caller.at, AllKinds) \subseteq visited
    <3>1. \A r \in DOMAIN Records(Caller.at) : r < Caller.next
      BY <1>3, <1>5, <1>8 DEF CallerInRecords
    <3> QED
      BY <1>6, <3>1 DEF Targets
  <2>7. ASSUME NEW k \in visited \ Ends
        PROVE  InProgress(k)' \/ Targets(k, AllKinds) \subseteq visited
    <3>1. CASE InProgress(k)
      <4>1. PICK j \in DOMAIN calls : calls[j].at = k
        BY <3>1 DEF InProgress
      <4>2. CASE j = Len(calls)
        BY <1>3, <2>6, <4>1, <4>2
      <4>3. CASE j # Len(calls)
        <5>1. j \in DOMAIN Returned
          BY <1>3, <4>3
        <5> QED
          BY <1>3, <1>8, <4>1, <5>1 DEF InProgress
      <4> QED
        BY <4>2, <4>3
    <3>2. CASE Targets(k, AllKinds) \subseteq visited
      BY <3>2
    <3> QED
      BY <1>1, <3>1, <3>2 DEF VisitedInv
  <2>8. \A k \in DOMAIN calls' :
           /\ calls'[k].at \in visited \ Ends
           /\ \A r \in DOMAIN table[calls'[k].at].recs :
                 r < calls'[k].next => table[calls'[k].at].recs[r].to \in visited
    <3>1. \A k \in DOMAIN calls' : k \in DOMAIN calls /\ calls'[k] = calls[k]
      BY <1>3, <1>8
    <3> QED
      BY <1>1, <3>1 DEF VisitedInv, Records
  <2>9. \A k \in visited \ Ends : InProgress(k)' \/ Targets(k, AllKinds)' \subseteq visited
    <3>1. \A k \in visited \ Ends : k \in Modules
      BY DEF LinkTypeOK
    <3> QED
      BY <2>2, <2>7, <3>1
  <2>10. VisitedInv'
    BY <1>1, <1>8, <2>2, <2>8, <2>9 DEF VisitedInv, Records
  <2> QED
    BY <1>1, <2>4, <2>5, <2>10 DEF WrapInv, WrappersAreClosed
<1> QED
  BY <1>7, <1>8 DEF wrap_module_recursively

\* When every module was looked at, exactly the modules that run lazily are wrapped.
LEMMA WrapOver ==
  ASSUME LinkTypeOK, TableInv, KindInv, AllDemandedInv, VisitedInv, WrapLookedInv, calls = <<>>,
         \A m \in Modules : metas[m].wrap # "none" => Looked(m),
         \A m \in Modules : \A r \in DOMAIN Records(m) : LookedAt(m, r)
  PROVE  \A m \in Modules : metas[m].wrap # "none" <=> m \in Lazily \ Ends
<1> DEFINE T == visited \cup Ends
<1>1. T \in SUBSET Modules
  BY DEF LinkTypeOK, Ends
<1>2. \A m \in visited \ Ends : Targets(m, AllKinds) \subseteq visited
  <2>1. DOMAIN calls = {}
    BY EmptySeq
  <2> QED
    BY <2>1 DEF VisitedInv, InProgress
<1>3. \A m \in Modules : metas[m].wrap # "none" => m \in visited
  BY DEF WrapLookedInv
<1>4. ASSUME NEW d \in OnDemand PROVE d \in T
  <2>0. d \in Modules
    BY DEF OnDemand
  <2>1. CASE ~table[d].normal
    BY <2>0, <2>1 DEF Ends
  <2>2. CASE table[d].normal
    <3>1. PICK m \in Modules :
            \/ d \in Targets(m, IF options.splitting THEN {"require"} ELSE {"require", "dynamic"})
            \/ d \in Targets(m, AllKinds) /\ table[d].exports = "cjs"
            \/ d = m /\ NeedsCjsWrapper(m)
      BY DEF OnDemand
    <3>2. CASE d \in Targets(m, IF options.splitting THEN {"require"} ELSE {"require", "dynamic"})
      <4>1. PICK r \in DOMAIN Records(m) :
              /\ Records(m)[r].to = d
              /\ Records(m)[r].kind \in IF options.splitting THEN {"require"} ELSE {"require", "dynamic"}
        BY <3>2 DEF Targets
      <4>2. Demands(Records(m)[r])
        BY <4>1 DEF Demands, LinkTypeOK, Options
      <4>3. metas[d].wrap # "none"
        BY <2>2, <4>1, <4>2 DEF AllDemandedInv
      <4> QED
        BY <1>3, <2>0, <4>3
    <3>3. CASE d \in Targets(m, AllKinds) /\ table[d].exports = "cjs"
      <4>1. PICK r \in DOMAIN Records(m) : Records(m)[r].to = d
        BY <3>3 DEF Targets
      <4>2. d \in visited \/ m \in visited \ Ends
        BY <2>2, <3>3, <4>1 DEF WrapLookedInv
      <4> QED
        BY <1>2, <3>3, <4>2
    <3>4. CASE d = m /\ NeedsCjsWrapper(m)
      <4>1. metas[d].wrap # "none"
        BY <3>4 DEF AllDemandedInv
      <4> QED
        BY <1>3, <2>0, <4>1
    <3> QED
      BY <3>1, <3>2, <3>3, <3>4
  <2> QED
    BY <2>1, <2>2
<1>5. \A m \in T : Beyond[m] \subseteq T
  BY <1>1, <1>2, BeyondGraph
<1> HIDE DEF T
<1>6. Lazily \subseteq T
  BY <1>1, <1>4, <1>5, ViaLeast DEF Lazily
<1>7. \A m \in Modules : m \in Lazily \ Ends => metas[m].wrap # "none"
  BY <1>6 DEF T, VisitedInv
<1>8. \A m \in Modules : metas[m].wrap # "none" => m \in Lazily \ Ends
  BY DEF VisitedInv, KindInv, Ends
<1> QED
  BY <1>7, <1>8

\* One step of wrap_modules.
LEMMA WrapModulesStep ==
  ASSUME LinkTypeOK, TableInv, WrapInv, [Next]_vars, wrap_modules
  PROVE  WrapInv'
<1>1. /\ phase = "wrap" /\ calls = <<>> /\ UNCHANGED table
      /\ KindInv /\ AllDemandedInv /\ VisitedInv /\ WrapLookedInv
  BY DEF wrap_modules, WrapInv
<1>2. cursor \in Modules /\ cursor \in Nat \ {0} /\ record \in Nat /\ \A m \in Modules : m \in Nat \ {0}
  BY CursorType DEF LinkTypeOK
<1>3. \A m \in Modules :
         /\ DOMAIN Records(m) = 1..Len(Records(m)) /\ Len(Records(m)) \in Nat
         /\ \A r \in DOMAIN Records(m) : Records(m)[r].to \in Modules /\ r \in Nat \ {0}
         /\ \A r \in DOMAIN Records(m) : Records(m)[r].to \in Targets(m, AllKinds)
  BY RecordFacts
<1>4. /\ DOMAIN calls = {} /\ calls \in Seq(Frames)
  BY <1>1, EmptySeq DEF LinkTypeOK
<1>5. options' = options /\ entries' = entries /\ \A k \in Modules : Kept(k)
  BY OptionsStep, TypeStep
<1>6. /\ \A k \in Modules : NeedsCjsWrapper(k)' <=> NeedsCjsWrapper(k)
      /\ \A rec : Demands(rec)' <=> Demands(rec)
      /\ \A k \in Modules : \A kinds : Targets(k, kinds)' = Targets(k, kinds)
      /\ Ends' = Ends /\ Lazily' = Lazily
  BY <1>1, <1>5, DemandUnchanged
<1>7. \A k \in Modules : Records(k)' = Records(k)
  BY <1>1 DEF Records
<1>8. ASSUME NEW m \in Lazily, NEW required \in BOOLEAN, WrapModuleRecursively(calls, m, required)
      PROVE  /\ KindInv' /\ AllDemandedInv' /\ VisitedInv' /\ visited' = visited \cup {m}
             /\ \A k \in Modules : metas'[k].wrap # "none" /\ metas[k].wrap = "none" => k \in visited'
  BY <1>1, <1>4, <1>8, WrapCallInv
<1>9. ASSUME UNCHANGED <<calls, visited>>, \A k \in Modules : metas'[k].wrap = metas[k].wrap
      PROVE  KindInv' /\ AllDemandedInv' /\ VisitedInv'
  <2>1. KindInv'
    BY <1>1, <1>9 DEF KindInv
  <2>2. AllDemandedInv'
    <3>1. \A k \in Modules : \A r \in DOMAIN Records(k) :
             Demands(Records(k)[r]) /\ table[Records(k)[r].to].normal => metas'[Records(k)[r].to].wrap # "none"
      BY <1>1, <1>3, <1>9 DEF AllDemandedInv
    <3>2. \A k \in Modules : NeedsCjsWrapper(k)' => metas'[k].wrap # "none"
      BY <1>1, <1>6, <1>9 DEF AllDemandedInv
    <3> QED
      BY <1>1, <1>6, <1>7, <3>1, <3>2 DEF AllDemandedInv
  <2>3. \A k \in visited \ Ends : k \in Modules
    BY DEF LinkTypeOK
  <2>4. \A k \in visited \ Ends : Targets(k, AllKinds)' \subseteq visited
    BY <1>1, <1>4, <1>6, <2>3 DEF VisitedInv, InProgress
  <2> QED
    BY <1>1, <1>4, <1>6, <1>9, <2>1, <2>2, <2>3, <2>4 DEF VisitedInv
<1>10. CASE /\ table[cursor].normal /\ record = 0 /\ metas[cursor].wrap # "none"
            /\ WrapModuleRecursively(calls, cursor, FALSE)
            /\ record' = Len(Records(cursor)) + 1 /\ UNCHANGED <<phase, cursor>>
  <2>1. cursor \in Lazily /\ cursor \notin Ends
    BY <1>1, <1>2, <1>10 DEF VisitedInv, KindInv, Ends
  <2>2. /\ KindInv' /\ AllDemandedInv' /\ VisitedInv' /\ visited' = visited \cup {cursor}
        /\ \A k \in Modules : metas'[k].wrap # "none" /\ metas[k].wrap = "none" => k \in visited'
    BY <1>8, <1>10, <2>1
  <2>3. \A k \in Modules : Looked(k)' => Looked(k) \/ k \in visited'
    BY <1>2, <1>10, <2>2 DEF Looked
  <2>4. \A k \in Modules : \A r \in DOMAIN Records(k) : LookedAt(k, r)' => LookedAt(k, r) \/ k \in visited' \ Ends
    BY <1>2, <1>10, <2>1, <2>2 DEF LookedAt
  <2>5. WrapLookedInv'
    BY <1>1, <2>2, <2>3, <2>4, WrapLookedStep
  <2> QED
    BY <1>1, <1>10, <2>2, <2>5 DEF WrapInv, WrappersAreClosed
<1>11. CASE /\ table[cursor].normal /\ record = 0 /\ metas[cursor].wrap = "none"
            /\ NextRecord /\ UNCHANGED <<calls, visited, metas>>
  <2>1. phase' = phase /\ cursor' = cursor /\ record' = 1
    BY <1>11 DEF NextRecord
  <2>2. KindInv' /\ AllDemandedInv' /\ VisitedInv'
    BY <1>9, <1>11
  <2>3. \A k \in Modules : Looked(k)' /\ metas[k].wrap # "none" => Looked(k)
    BY <1>2, <1>11, <2>1 DEF Looked
  <2>4. \A k \in Modules : \A r \in DOMAIN Records(k) : LookedAt(k, r)' => LookedAt(k, r)
    BY <1>3, <2>1 DEF LookedAt
  <2>5. WrapLookedInv'
    BY <1>1, <1>11, <2>3, <2>4, WrapLookedStep
  <2> QED
    BY <1>1, <2>1, <2>2, <2>5 DEF WrapInv, WrappersAreClosed
<1>12. CASE InRecords /\ WrapCjsImportee(Records(cursor)[record]) /\ NextRecord
  <2> DEFINE to == Records(cursor)[record].to
  <2>1. phase' = phase /\ cursor' = cursor /\ record' = record + 1
    BY <1>12 DEF NextRecord
  <2>2. record \in DOMAIN Records(cursor) /\ record \in Nat \ {0} /\ to \in Modules /\ to \in Targets(cursor, AllKinds)
    BY <1>2, <1>3, <1>12 DEF InRecords
  <2>3. \A k \in Modules : Looked(k)' => Looked(k)
    BY <1>2, <2>1, <2>2 DEF Looked
  <2>4. \A k \in Modules : \A r \in DOMAIN Records(k) : LookedAt(k, r)' => LookedAt(k, r) \/ (k = cursor /\ r = record)
    BY <1>2, <1>3, <2>1, <2>2 DEF LookedAt
  <2>5. CASE table[to].normal /\ table[to].exports = "cjs"
    <3>1. to \in Lazily
      <4>1. to \in OnDemand
        BY <1>2, <2>2, <2>5 DEF OnDemand
      <4> QED
        BY <4>1, BeyondGraph
    <3>2. PICK required \in BOOLEAN : WrapModuleRecursively(calls, to, required)
      BY <1>12, <2>5 DEF WrapCjsImportee
    <3>3. /\ KindInv' /\ AllDemandedInv' /\ VisitedInv' /\ visited' = visited \cup {to}
          /\ \A k \in Modules : metas'[k].wrap # "none" /\ metas[k].wrap = "none" => k \in visited'
      BY <1>8, <3>1, <3>2
    <3>4. \A k \in Modules : \A r \in DOMAIN Records(k) :
             LookedAt(k, r)' => LookedAt(k, r) \/ Records(k)[r].to \in visited'
      BY <2>4, <3>3
    <3>5. WrapLookedInv'
      BY <1>1, <2>3, <3>3, <3>4, WrapLookedStep
    <3> QED
      BY <1>1, <2>1, <3>3, <3>5 DEF WrapInv, WrappersAreClosed
  <2>6. CASE ~(table[to].normal /\ table[to].exports = "cjs")
    <3>1. /\ metas' = [metas EXCEPT ![to].required =
                         @ \/ (table[to].normal /\ Records(cursor)[record].kind = "require")]
          /\ UNCHANGED <<visited, calls>>
      BY <1>12, <2>6 DEF WrapCjsImportee
    <3>2. \A k \in Modules : metas[k] \in Metas
      BY ModuleFacts
    <3>3. \A k \in Modules : metas'[k].wrap = metas[k].wrap
      BY <2>2, <3>1, <3>2 DEF LinkTypeOK, Metas
    <3>4. KindInv' /\ AllDemandedInv' /\ VisitedInv'
      BY <1>9, <3>1, <3>3
    <3>5. \A k \in Modules : \A r \in DOMAIN Records(k) :
             /\ LookedAt(k, r)'
             /\ table[Records(k)[r].to].normal /\ table[Records(k)[r].to].exports = "cjs"
             => LookedAt(k, r)
      BY <2>4, <2>6
    <3>6. WrapLookedInv'
      BY <1>1, <2>3, <3>1, <3>3, <3>5, WrapLookedStep
    <3> QED
      BY <1>1, <2>1, <3>4, <3>6 DEF WrapInv, WrappersAreClosed
  <2> QED
    BY <2>5, <2>6
<1>13. CASE RecordsDone /\ NextModule("strict") /\ UNCHANGED <<calls, metas>>
  <2>1. "strict" \in Phases
    BY DEF Phases
  <2>2. /\ record' = 0
        /\ \/ phase' = phase /\ cursor' = cursor + 1 /\ visited' = visited
           \/ phase' = "strict" /\ \A m \in Modules : m <= cursor
    BY <1>13, <2>1, NextModuleFacts
  <2>3. \A k \in Modules : k <= cursor /\ metas[k].wrap # "none" => Looked(k)
    <3> SUFFICES ASSUME NEW k \in Modules, k <= cursor, metas[k].wrap # "none" PROVE Looked(k)
      OBVIOUS
    <3>1. table[k].normal
      BY <1>1 DEF KindInv
    <3>2. k = cursor => record > 0
      BY <1>2, <1>3, <1>13, <3>1 DEF RecordsDone
    <3> QED
      BY <1>2, <3>2 DEF Looked
  <2>4. \A k \in Modules : \A r \in DOMAIN Records(k) : k <= cursor => LookedAt(k, r)
    <3> SUFFICES ASSUME NEW k \in Modules, NEW r \in DOMAIN Records(k), k <= cursor PROVE LookedAt(k, r)
      OBVIOUS
    <3>1. table[k].normal
      <4>1. ~table[k].normal => Records(k) = <<>>
        BY DEF TableInv, Records
      <4>2. Records(k) = <<>> => DOMAIN Records(k) = {}
        BY EmptySeq
      <4> QED
        BY <4>1, <4>2
    <3>2. k = cursor => r < record
      BY <1>2, <1>3, <1>13, <3>1 DEF RecordsDone
    <3> QED
      BY <1>2, <3>2 DEF LookedAt
  <2>5. CASE phase' = phase /\ cursor' = cursor + 1 /\ visited' = visited
    <3>1. KindInv' /\ AllDemandedInv' /\ VisitedInv'
      BY <1>9, <1>13, <2>5
    <3>2. \A k \in Modules : Looked(k)' => k <= cursor
      BY <1>2, <2>2, <2>5 DEF Looked
    <3>3. \A k \in Modules : \A r \in DOMAIN Records(k) : LookedAt(k, r)' => k <= cursor
      <4>1. \A k \in Modules : \A r \in DOMAIN Records(k) : ~(r < 0)
        BY <1>3
      <4>2. \A k \in Modules : k < cursor + 1 => k <= cursor
        BY <1>2
      <4> QED
        BY <2>2, <2>5, <4>1, <4>2 DEF LookedAt
    <3>4. WrapLookedInv'
      BY <1>1, <1>13, <2>3, <2>4, <2>5, <3>2, <3>3, WrapLookedStep
    <3> QED
      BY <1>1, <2>5, <3>1, <3>4 DEF WrapInv, WrappersAreClosed
  <2>6. CASE phase' = "strict" /\ \A m \in Modules : m <= cursor
    <3>1. \A m \in Modules : metas[m].wrap # "none" <=> m \in Lazily \ Ends
      BY <1>1, <2>3, <2>4, <2>6, WrapOver
    <3>2. KindInv'
      BY <1>1, <1>13 DEF KindInv
    <3>3. \A m \in Modules : metas'[m].wrap # "none" <=> m \in Lazily' \ Ends'
      BY <1>6, <1>13, <3>1
    <3> QED
      BY <2>6, <3>2, <3>3 DEF WrapInv, WrappersAreClosed
  <2> QED
    BY <2>2, <2>5, <2>6
<1> QED
  BY <1>10, <1>11, <1>12, <1>13 DEF wrap_modules

\* The last passes that touch wrappers: CommonJS modules get theirs, JSON loses it.
LEMMA WrapSettledStep ==
  ASSUME LinkTypeOK, TableInv, WrapInv, [Next]_vars,
         wrap_all_cjs \/ generate_lazy_export \/ mark_own_effects \/ determine_side_effects
  PROVE  WrapInv'
<1>1. KindInv /\ phase \in {"strict", "lazy", "effects", "importers"}
  BY PhaseStep DEF WrapInv
<1>2. options' = options /\ entries' = entries /\ \A k \in Modules : Kept(k)
  BY OptionsStep, TypeStep
<1>3. \A m \in Modules : table'[m].exports = "cjs" <=> table[m].exports = "cjs"
  BY <1>1, ExportsStep
<1>4. Ends' = Ends /\ Lazily' = Lazily /\ Strict' = Strict
  BY <1>2, <1>3, DemandUnchanged
<1>5. \A m \in Modules : table'[m].normal = table[m].normal /\ table'[m].lazy = table[m].lazy
  BY <1>2 DEF Kept
<1>6. \A m \in Modules : IsJson(m)' <=> IsJson(m)
  BY <1>3, <1>5 DEF IsJson
<1>7. ASSUME phase' \in {"effects", "importers", "bind"}, KindInv',
             \A m \in Modules : metas'[m].wrap # "none" <=> (m \in Lazily \ Ends /\ ~IsJson(m)) \/ m \in Strict
      PROVE  WrapInv'
  <2>1. \A m \in Modules : metas'[m].wrap # "none" <=> (m \in Lazily' \ Ends' /\ ~IsJson(m)') \/ m \in Strict'
    BY <1>4, <1>6, <1>7
  <2>2. \A m \in Modules : metas'[m].wrap # "none" => (metas'[m].wrap = "cjs" <=> table'[m].exports = "cjs")
    BY <1>7 DEF KindInv
  <2>3. WrappersAreClosed'
    BY <2>1, <2>2 DEF WrappersAreClosed, Lazily, Beyond, Strict
  <2> QED
    BY <1>7, <2>3 DEF WrapInv
<1>8. CASE wrap_all_cjs
  <2>1. /\ phase = "strict" /\ phase' = "lazy" /\ UNCHANGED table
        /\ \A m \in Modules : metas'[m].wrap = IF m \in Strict THEN "cjs" ELSE metas[m].wrap
    BY <1>8, WrapAllFacts
  <2>2. \A m \in Modules : metas[m].wrap # "none" <=> m \in Lazily \ Ends
    BY <2>1 DEF WrapInv
  <2>3. \A m \in Strict : table[m].normal /\ table[m].exports = "cjs" /\ m # Runtime
    BY DEF Strict, TableInv
  <2>4. KindInv'
    BY <1>1, <2>1, <2>3 DEF KindInv
  <2>5. \A m \in Modules : metas'[m].wrap # "none" <=> m \in Lazily' \ Ends' \/ m \in Strict'
    BY <1>4, <2>1, <2>2
  <2> QED
    BY <2>1, <2>4, <2>5 DEF WrapInv, WrappersAreClosed
<1>9. CASE generate_lazy_export
  <2>1. /\ phase = "lazy" /\ phase' = "effects"
        /\ \A m \in Modules :
              metas'[m].wrap = IF Generated(m) /\ table[m].lazy = "json" THEN "none" ELSE metas[m].wrap
    BY <1>9, LazyExportFacts
  <2>2. \A m \in Modules : metas[m].wrap # "none" <=> m \in Lazily \ Ends \/ m \in Strict
    BY <2>1 DEF WrapInv
  <2>3. \A m \in Modules : metas[m].wrap # "none" /\ IsJson(m) => Generated(m) /\ m \notin Strict
    BY <1>1 DEF IsJson, Generated, Strict, KindInv
  <2>4. \A m \in Modules : Generated(m) /\ table[m].lazy = "json" => IsJson(m)
    BY DEF IsJson, Generated
  <2>5. \A m \in Modules : IsJson(m) => table[m].lazy = "json" /\ m \notin Strict
    BY DEF IsJson, Strict
  <2>6. \A m \in Modules : metas'[m].wrap # "none" <=> metas[m].wrap # "none" /\ ~IsJson(m)
    BY <2>1, <2>3, <2>4, <2>5
  <2>7. \A m \in Modules : metas'[m].wrap # "none" <=> (m \in Lazily \ Ends /\ ~IsJson(m)) \/ m \in Strict
    BY <2>2, <2>5, <2>6
  <2>8. KindInv'
    BY <1>1, <1>3, <1>5, <2>1 DEF KindInv
  <2> QED
    BY <1>7, <2>1, <2>7, <2>8
<1>10. CASE mark_own_effects \/ determine_side_effects
  <2>1. phase \in {"effects", "importers"} /\ phase' \in {"importers", "bind"} /\ metas' = metas
    BY <1>10, SideEffectsType
  <2>2. \A m \in Modules : metas[m].wrap # "none" <=> (m \in Lazily \ Ends /\ ~IsJson(m)) \/ m \in Strict
    BY <2>1 DEF WrapInv, WrappersAreClosed, Lazily, Beyond, Strict
  <2>3. KindInv'
    BY <1>1, <1>3, <1>5, <2>1 DEF KindInv
  <2> QED
    BY <1>7, <2>1, <2>2, <2>3
<1> QED
  BY <1>8, <1>9, <1>10

\* A step that changes nothing about the modules.
LEMMA WrapStutter ==
  ASSUME LinkTypeOK, TableInv, WrapInv, [Next]_vars, phase \notin {"sort", "tla"},
         sort_modules \/ sorted \/ linked \/ UNCHANGED vars
  PROVE  WrapInv'
<1>1. UNCHANGED <<options, table, metas, calls, phase, cursor, record, visited, entries>>
  BY SortedType
<1>2. \A k \in Modules : Kept(k)
  BY TypeStep
<1>3. /\ \A m \in Modules : NeedsCjsWrapper(m)' <=> NeedsCjsWrapper(m)
      /\ \A rec : Demands(rec)' <=> Demands(rec)
      /\ \A m \in Modules : \A kinds : Targets(m, kinds)' = Targets(m, kinds)
      /\ OnDemand' = OnDemand /\ Ends' = Ends /\ Lazily' = Lazily /\ Strict' = Strict
  BY <1>1, <1>2, DemandUnchanged
<1>4. \A m \in Modules : Records(m)' = Records(m)
  BY <1>1 DEF Records
<1>5. /\ \A m : Looked(m)' <=> Looked(m)
      /\ \A m, r : LookedAt(m, r)' <=> LookedAt(m, r)
      /\ \A m : InProgress(m)' <=> InProgress(m)
      /\ \A m : IsJson(m)' <=> IsJson(m)
  BY <1>1 DEF Looked, LookedAt, InProgress, IsJson
<1>6. (KindInv => KindInv') /\ (PromotedInv => PromotedInv')
  BY <1>1 DEF KindInv, PromotedInv
<1>7. DemandedInv => DemandedInv'
  BY <1>1, <1>3, <1>4, <1>5 DEF DemandedInv
<1>8. AllDemandedInv => AllDemandedInv'
  BY <1>1, <1>3, <1>4 DEF AllDemandedInv
<1>9. WrapLookedInv => WrapLookedInv'
  BY <1>1, <1>3, <1>4, <1>5 DEF WrapLookedInv
<1>10. VisitedInv => VisitedInv'
  <2>1. visited \subseteq Modules
    BY DEF LinkTypeOK
  <2> SUFFICES ASSUME VisitedInv PROVE VisitedInv'
    OBVIOUS
  <2>2. \A m \in visited \ Ends : InProgress(m)' \/ Targets(m, AllKinds)' \subseteq visited
    BY <1>3, <1>5, <2>1 DEF VisitedInv
  <2> QED
    BY <1>1, <1>3, <2>2 DEF VisitedInv, Records
<1>11. WrappersAreClosed => WrappersAreClosed'
  <2> SUFFICES ASSUME WrappersAreClosed, phase \in {"effects", "importers", "bind"}
               PROVE  WrappersAreClosed'
    BY <1>1 DEF WrappersAreClosed
  <2>1. \A m \in Modules :
           /\ metas[m].wrap # "none" <=> (m \in Lazily \ Ends /\ ~IsJson(m)) \/ m \in Strict
           /\ metas[m].wrap # "none" => (metas[m].wrap = "cjs" <=> table[m].exports = "cjs")
    BY DEF WrappersAreClosed, Lazily, Beyond, Strict
  <2>2. \A m \in Modules :
           /\ metas'[m].wrap # "none" <=> (m \in Lazily' \ Ends' /\ ~IsJson(m)') \/ m \in Strict'
           /\ metas'[m].wrap # "none" => (metas'[m].wrap = "cjs" <=> table'[m].exports = "cjs")
    BY <1>1, <1>3, <1>5, <2>1
  <2> QED
    BY <2>2 DEF WrappersAreClosed, Lazily, Beyond, Strict
<1> QED
  BY <1>1, <1>3, <1>6, <1>7, <1>8, <1>9, <1>10, <1>11 DEF WrapInv

\* Every step keeps what is known of the wrappers.
LEMMA WrapStep ==
  ASSUME LinkTypeOK, TableInv, WrapInv, [Next]_vars
  PROVE  WrapInv'
<1>1. CASE phase \in {"sort", "tla"}
  BY <1>1, WrapBeforeExports
<1>2. CASE phase \notin {"sort", "tla"}
  <2>1. CASE determine_module_exports_kind
    BY <2>1, WrapExportsStep
  <2>2. CASE mark_star_exports \/ determine_has_dynamic_exports
    BY <2>2, WrapDynamicStep
  <2>3. CASE wrap_modules
    BY <2>3, WrapModulesStep
  <2>4. CASE wrap_module_recursively
    BY <2>4, WrapRecursiveStep
  <2>5. CASE wrap_all_cjs \/ generate_lazy_export \/ mark_own_effects \/ determine_side_effects
    BY <2>5, WrapSettledStep
  <2>6. CASE sort_modules \/ sorted \/ linked \/ UNCHANGED vars
    BY <1>2, <2>6, WrapStutter
  <2>7. ~(compute_tla \/ find_tla_source)
    BY <1>2, PhaseStep
  <2> QED
    BY <2>1, <2>2, <2>3, <2>4, <2>5, <2>6, <2>7 DEF Next
<1> QED
  BY <1>1, <1>2

-----------------------------------------------------------------------------
(* Top-level await                                                          *)

\* What leads to an await depends on the records and the kinds of modules.
LEMMA AwaitsUnchanged ==
  ASSUME \A m \in Modules : Kept(m)
  PROVE  /\ \A m \in Modules : \A kinds : Targets(m, kinds)' = Targets(m, kinds)
         /\ \A m \in Modules : Records(m)' = Records(m)
         /\ Imported' = Imported
         /\ \A m \in Modules : Via(Imported, {m})' = Via(Imported, {m})
         /\ \A m \in Modules : LeadsToCycle(m)' = LeadsToCycle(m)
         /\ \A m \in Modules : AwaitsFrom(m)' = AwaitsFrom(m)
         /\ \A m \in Modules : Awaits(m)' <=> Awaits(m)
<1>1. \A m \in Modules : Records(m)' = Records(m)
  BY DEF Kept, Records
<1>2. /\ \A m \in Modules : \A kinds : Targets(m, kinds)' = Targets(m, kinds)
      /\ Imported' = Imported
      /\ \A m \in Modules : LeadsToCycle(m)' = LeadsToCycle(m)
  BY <1>1, GraphUnchanged
<1>3. \A m \in Modules : Via(Imported, {m})' = Via(Imported, {m})
  BY <1>2 DEF Via
<1>4. \A m \in Modules : Awaits(m)' <=> Awaits(m)
  BY DEF Kept, Awaits
<1>5. \A m \in Modules : AwaitsFrom(m)' = AwaitsFrom(m)
  <2>1. \A m \in Modules : Via(Imported, {m}) \subseteq Modules
    BY DEF Via
  <2>2. \A m \in Modules : AwaitsFrom(m) = {a \in Via(Imported, {m}) : Awaits(a)}
    BY DEF AwaitsFrom, Awaits
  <2>3. \A m \in Modules : AwaitsFrom(m)' = {a \in Via(Imported, {m})' : Awaits(a)'}
    BY DEF AwaitsFrom, Awaits
  <2> QED
    BY <1>3, <1>4, <2>1, <2>2, <2>3
<1> QED
  BY <1>1, <1>2, <1>3, <1>4, <1>5

\* The passes after compute_tla leave its verdicts alone.
LEMMA VerdictsKept ==
  ASSUME LinkTypeOK, TableInv, [Next]_vars, phase \notin {"sort", "tla"}
  PROVE  /\ phase' \notin {"sort", "tla"} /\ errors' = errors
         /\ \A m \in Modules : metas'[m].tla = metas[m].tla
<1>0. \A m \in Modules : metas[m] \in Metas
  BY ModuleFacts
<1>1. CASE determine_module_exports_kind
  <2>1. errors' = errors /\ cursor \in Modules
    BY <1>1 DEF determine_module_exports_kind, LinkTypeOK
  <2>2. CASE metas' = metas
    BY <1>1, <2>1, <2>2, PhaseStep
  <2>3. CASE metas' = [metas EXCEPT ![cursor].wrap = "cjs"]
    <3>1. \A m \in Modules : metas'[m].tla = metas[m].tla
      BY <1>0, <2>1, <2>3 DEF LinkTypeOK, Metas
    <3> QED
      BY <1>1, <2>1, <3>1, PhaseStep
  <2>4. CASE InRecords /\ ApplyRecord(Records(cursor)[record])
    <3> DEFINE rec == Records(cursor)[record]
    <3>1. rec.to \in Modules
      BY <2>1, <2>4, RecordFacts DEF InRecords
    <3> HIDE DEF rec
    <3>2. metas' = IF table[rec.to].normal /\ Demands(rec)
                   THEN [metas EXCEPT ![rec.to] = [metas[rec.to] EXCEPT !.wrap = ExportsWith(rec)]]
                   ELSE metas
      BY <2>4 DEF ApplyRecord, rec
    <3>3. \A m \in Modules : metas'[m].tla = metas[m].tla
      BY <1>0, <3>1, <3>2 DEF LinkTypeOK, Metas
    <3> QED
      BY <1>1, <2>1, <3>3, PhaseStep
  <2> QED
    BY <1>1, <2>2, <2>3, <2>4 DEF determine_module_exports_kind
<1>2. CASE mark_star_exports \/ determine_has_dynamic_exports
  BY <1>2, DynamicExportsType
<1>3. CASE wrap_modules \/ wrap_module_recursively
  BY <1>3, WrapModulesType, PhaseStep
<1>4. CASE wrap_all_cjs
  BY <1>4, WrapAllFacts
<1>5. CASE generate_lazy_export
  BY <1>5, LazyExportFacts
<1>6. CASE mark_own_effects \/ determine_side_effects
  BY <1>6, SideEffectsType
<1>7. CASE sort_modules \/ sorted \/ linked \/ UNCHANGED vars
  BY <1>7, SortedType
<1>8. ~(compute_tla \/ find_tla_source)
  BY PhaseStep
<1> QED
  BY <1>1, <1>2, <1>3, <1>4, <1>5, <1>6, <1>7, <1>8 DEF Next

\* The verdicts do not depend on anything a step that keeps the modules and the errors changes.
LEMMA FoundFrom ==
  ASSUME LinkTypeOK, \A m \in Modules : Kept(m), errors' = errors,
         \A m \in Modules : metas'[m].tla = metas[m].tla,
         \A m \in Modules : metas[m].tla => AwaitsFrom(m) # {},
         \A m \in Modules : table[m].normal /\ AwaitsFrom(m) # {} =>
            \E c \in Modules : metas[c].tla /\ (c = m \/ (LeadsToCycle(m) /\ c \in Via(Imported, {m}))),
         \A e \in errors : e[2] \in Targets(e[1], {"require"}) /\ e[3] \in AwaitsFrom(e[2]),
         \A m, d \in Modules :
            d \in Targets(m, {"require"}) /\ AwaitsFrom(d) # {} /\ ~LeadsToCycle(d) =>
                \E e \in errors : e[1] = m /\ e[2] = d
  PROVE  AwaitsAreFound'
<1>1. /\ \A m \in Modules : Via(Imported, {m})' = Via(Imported, {m})
      /\ \A m \in Modules : \A kinds : Targets(m, kinds)' = Targets(m, kinds)
      /\ \A m \in Modules : LeadsToCycle(m)' = LeadsToCycle(m)
      /\ \A m \in Modules : AwaitsFrom(m)' = AwaitsFrom(m)
  BY AwaitsUnchanged
<1>2. \A m \in Modules : table'[m].normal = table[m].normal
  BY DEF Kept
<1>3. \A e \in errors : e[1] \in Modules /\ e[2] \in Modules
  BY DEF LinkTypeOK
<1>4. \A e \in errors' : e[2] \in Targets(e[1], {"require"})' /\ e[3] \in AwaitsFrom(e[2])'
  BY <1>1, <1>3
<1>5. \A m, d \in Modules :
         d \in Targets(m, {"require"})' /\ AwaitsFrom(d)' # {} /\ ~LeadsToCycle(d)' =>
             \E e \in errors' : e[1] = m /\ e[2] = d
  BY <1>1
<1>6. \A m \in Modules : table'[m].normal /\ AwaitsFrom(m)' # {} =>
         \E c \in Modules : metas'[c].tla /\ (c = m \/ (LeadsToCycle(m)' /\ c \in Via(Imported, {m})'))
  BY <1>1, <1>2
<1>7. \A m \in Modules : metas'[m].tla => AwaitsFrom(m)' # {}
  BY <1>1
<1> QED
  BY <1>4, <1>5, <1>6, <1>7 DEF AwaitsAreFound

\* So what they say stays true.
LEMMA AwaitAfter ==
  ASSUME LinkTypeOK, TableInv, AwaitInv, [Next]_vars, phase \notin {"sort", "tla"}
  PROVE  AwaitInv'
<1>1. /\ phase' \notin {"sort", "tla"} /\ errors' = errors
      /\ \A m \in Modules : metas'[m].tla = metas[m].tla
  BY VerdictsKept
<1>2. \A m \in Modules : Kept(m)
  BY TypeStep
<1>3. /\ \A m \in Modules : metas[m].tla => AwaitsFrom(m) # {}
      /\ \A m \in Modules : table[m].normal /\ AwaitsFrom(m) # {} =>
            \E c \in Modules : metas[c].tla /\ (c = m \/ (LeadsToCycle(m) /\ c \in Via(Imported, {m})))
      /\ \A e \in errors : e[2] \in Targets(e[1], {"require"}) /\ e[3] \in AwaitsFrom(e[2])
      /\ \A m, d \in Modules :
            d \in Targets(m, {"require"}) /\ AwaitsFrom(d) # {} /\ ~LeadsToCycle(d) =>
                \E e \in errors : e[1] = m /\ e[2] = d
  BY DEF AwaitInv, AwaitsAreFound
<1>4. AwaitsAreFound'
  BY <1>1, <1>2, <1>3, FoundFrom
<1> QED
  BY <1>1, <1>4 DEF AwaitInv

\* The calls in progress are for modules.
LEMMA FramesFacts ==
  ASSUME NEW frames \in Seq(Frames)
  PROVE  \A k \in DOMAIN frames : frames[k].at \in Modules
<1>1. \A k \in DOMAIN frames : frames[k] \in Frames
  BY ElementOfSeq
<1> QED
  BY <1>1 DEF Frames

\* A first call of find_tla_source, for a module that the one being searched imports.
LEMMA SearchCall ==
  ASSUME LinkTypeOK, SourceInv, CallsInv, PassedInv, NothingFoundInv, table' = table,
         NEW m \in Modules, FindTlaSource(m), calls # <<>> => m \in Imported[Caller.at]
  PROVE  /\ SourceInv' /\ CallsInv' /\ PassedInv' /\ NothingFoundInv'
         /\ \A x \in Modules : Settled(x) => Settled(x)' /\ source'[x] = source[x]
<1>1. \A x \in Modules : Kept(x)
  BY DEF Kept
<1>2. /\ Imported' = Imported
      /\ \A x \in Modules : Records(x)' = Records(x)
      /\ \A x \in Modules : Via(Imported, {x})' = Via(Imported, {x})
      /\ \A x \in Modules : LeadsToCycle(x)' = LeadsToCycle(x)
      /\ \A x \in Modules : AwaitsFrom(x)' = AwaitsFrom(x)
      /\ \A x \in Modules : Awaits(x)' <=> Awaits(x)
  BY <1>1, AwaitsUnchanged
<1>3. /\ calls \in Seq(Frames) /\ visited \subseteq Modules /\ NoSource \notin Modules
      /\ source \in [Modules -> Modules \cup {NoSource}]
  BY ModulesAssumption DEF LinkTypeOK, NoSource
<1>4. /\ DOMAIN Call(calls, m) = 1..(Len(calls) + 1)
      /\ DOMAIN calls = 1..Len(calls) /\ Len(calls) \in Nat
      /\ \A k \in DOMAIN calls : Call(calls, m)[k] = calls[k]
      /\ Call(calls, m)[Len(calls) + 1] = [at |-> m, next |-> 1]
  BY <1>3, CallFacts
<1>5. \A k \in DOMAIN calls : calls[k].at \in Modules
  BY <1>3, FramesFacts
<1>6. /\ m \notin visited /\ visited' = visited \cup {m}
      /\ IF Awaits(m) THEN source' = [source EXCEPT ![m] = m] /\ calls' = calls
         ELSE source' = source /\ calls' = Call(calls, m)
  BY DEF FindTlaSource, Awaits
<1>7. \A k \in DOMAIN calls :
         /\ calls[k].at \in visited /\ source[calls[k].at] = NoSource
         /\ ~Awaits(calls[k].at) /\ calls[k].at # m
  BY <1>6 DEF SourceInv
<1>8. \A x \in Modules : x # m => source'[x] = source[x]
  BY <1>3, <1>6
<1>9. source[m] = NoSource
  BY <1>6 DEF SourceInv
<1>10. m \in Via(Imported, {m})
  BY ViaBase
<1>11. \A k \in DOMAIN calls : k \in DOMAIN calls' /\ calls'[k] = calls[k]
  BY <1>4, <1>6
<1>12. \A k \in DOMAIN calls' : k \in DOMAIN calls \/
          (k = Len(calls) + 1 /\ ~Awaits(m) /\ calls'[k] = [at |-> m, next |-> 1])
  BY <1>4, <1>6
<1>13. \A x \in Modules : x # m => (InProgress(x)' <=> InProgress(x))
  <2> SUFFICES ASSUME NEW x \in Modules, x # m PROVE InProgress(x)' <=> InProgress(x)
    OBVIOUS
  <2>1. InProgress(x) => InProgress(x)'
    BY <1>11 DEF InProgress
  <2>2. InProgress(x)' => InProgress(x)
    BY <1>11, <1>12 DEF InProgress
  <2> QED
    BY <2>1, <2>2
<1>14. \A x \in Modules : x # m => (Settled(x)' <=> Settled(x))
  BY <1>6, <1>13 DEF Settled
<1>15. ~Settled(m)
  BY <1>6 DEF Settled
<1>16. ~Awaits(m) => ~Settled(m)'
  <2> SUFFICES ASSUME ~Awaits(m) PROVE InProgress(m)'
    BY DEF Settled
  <2>1. Len(calls) + 1 \in DOMAIN calls' /\ calls'[Len(calls) + 1].at = m
    BY <1>4, <1>6
  <2> QED
    BY <2>1 DEF InProgress
<1>17. SourceInv'
  <2>1. \A x \in Modules : source'[x] # NoSource => source'[x] \in AwaitsFrom(x)
    <3>1. \A x \in Modules : x # m => (source'[x] # NoSource => source'[x] \in AwaitsFrom(x))
      BY <1>8 DEF SourceInv
    <3>2. source'[m] # NoSource => source'[m] = m /\ Awaits(m)
      BY <1>3, <1>6, <1>9
    <3>3. Awaits(m) => m \in AwaitsFrom(m)
      BY <1>10 DEF AwaitsFrom, Awaits
    <3> QED
      BY <3>1, <3>2, <3>3
  <2>2. \A x \in Modules : x \notin visited' => source'[x] = NoSource
    BY <1>6, <1>8 DEF SourceInv
  <2>3. \A k \in DOMAIN calls' :
           /\ calls'[k].at \in visited' /\ source'[calls'[k].at] = NoSource
           /\ calls'[k].at \in Modules /\ ~Awaits(calls'[k].at)
    <3> SUFFICES ASSUME NEW k \in DOMAIN calls'
                 PROVE  /\ calls'[k].at \in visited' /\ source'[calls'[k].at] = NoSource
                        /\ calls'[k].at \in Modules /\ ~Awaits(calls'[k].at)
      OBVIOUS
    <3>1. CASE k \in DOMAIN calls
      BY <1>5, <1>6, <1>7, <1>8, <1>11, <3>1
    <3>2. CASE ~Awaits(m) /\ calls'[k] = [at |-> m, next |-> 1]
      BY <1>6, <1>9, <3>2
    <3> QED
      BY <1>12, <3>1, <3>2
  <2>4. \A k \in DOMAIN calls' : (~Awaits(calls[k].at))'
    BY <2>3 DEF Awaits
  <2> QED
    BY <1>2, <2>1, <2>2, <2>3, <2>4 DEF SourceInv
<1>18. CallsInv'
  <2> SUFFICES ASSUME NEW k \in DOMAIN calls', NEW j \in DOMAIN calls'
               PROVE  /\ k <= j => calls'[j].at \in Via(Imported, {calls'[k].at})
                      /\ k # j => calls'[j].at # calls'[k].at
    BY <1>2 DEF CallsInv, Via
  <2>1. CASE k \in DOMAIN calls /\ j \in DOMAIN calls
    BY <1>11, <2>1 DEF CallsInv
  <2>2. CASE k \in DOMAIN calls /\ j \notin DOMAIN calls
    <3>1. calls'[j].at = m /\ calls'[k] = calls[k]
      BY <1>11, <1>12, <2>2
    <3>2. calls # <<>>
      BY <2>2, EmptySeq
    <3>3. Len(calls) \in DOMAIN calls /\ Caller = calls[Len(calls)] /\ k <= Len(calls)
      BY <1>3, <1>4, <2>2, <3>2, CallerFacts
    <3>4. Caller.at \in Via(Imported, {calls[k].at})
      BY <2>2, <3>3 DEF CallsInv
    <3>5. m \in Via(Imported, {calls[k].at})
      BY <3>2, <3>4, ImportedGraph, ViaStep
    <3> QED
      BY <1>7, <2>2, <3>1, <3>5
  <2>3. CASE k \notin DOMAIN calls /\ j \in DOMAIN calls
    <3>1. calls'[k].at = m /\ calls'[j] = calls[j] /\ k = Len(calls) + 1
      BY <1>11, <1>12, <2>3
    <3>2. ~(k <= j)
      BY <1>4, <2>3, <3>1
    <3> QED
      BY <1>7, <2>3, <3>1, <3>2
  <2>4. CASE k \notin DOMAIN calls /\ j \notin DOMAIN calls
    <3>1. calls'[k].at = m /\ k = j
      BY <1>12, <2>4
    <3> QED
      BY <1>10, <3>1
  <2> QED
    BY <2>1, <2>2, <2>3, <2>4
<1>19. PassedInv'
  <2> SUFFICES ASSUME NEW k \in DOMAIN calls', NEW r \in DOMAIN table'[calls'[k].at].recs,
                      r < calls'[k].next, table'[calls'[k].at].recs[r].kind = "import"
               PROVE  LET to == table'[calls'[k].at].recs[r].to
                      IN /\ to \in visited' /\ source'[to] = NoSource
                         /\ \A j \in DOMAIN calls' : k < j => calls'[j].at # to
    BY DEF PassedInv, Records
  <2>1. CASE k \in DOMAIN calls
    <3> DEFINE to == Records(calls[k].at)[r].to
    <3>1. calls'[k] = calls[k] /\ r \in DOMAIN Records(calls[k].at)
          /\ Records(calls[k].at)[r].kind = "import"
      BY <1>11, <2>1 DEF Records
    <3>2. to \in visited /\ source[to] = NoSource /\ \A j \in DOMAIN calls : k < j => calls[j].at # to
      BY <2>1, <3>1 DEF PassedInv
    <3>3. to \in visited' /\ source'[to] = NoSource
      BY <1>3, <1>6, <1>8, <3>2
    <3>4. \A j \in DOMAIN calls' : k < j => calls'[j].at # to
      BY <1>6, <1>11, <1>12, <3>2
    <3>5. to = table'[calls'[k].at].recs[r].to
      BY <3>1 DEF Records
    <3> HIDE DEF to
    <3> QED
      BY <3>3, <3>4, <3>5
  <2>2. CASE k \notin DOMAIN calls
    <3>1. calls'[k] = [at |-> m, next |-> 1]
      BY <1>12, <2>2
    <3>2. r \in DOMAIN Records(m) /\ r < 1
      BY <3>1 DEF Records
    <3> QED
      BY <3>2, RecordFacts
  <2> QED
    BY <2>1, <2>2
<1>20. NothingFoundInv'
  <2> SUFFICES ASSUME NEW x \in Modules, Settled(x)', source'[x] = NoSource
               PROVE  /\ ~Awaits(x)
                      /\ LeadsToCycle(x) \/ \A d \in Imported[x] : Settled(d)' /\ source'[d] = NoSource
    BY <1>2 DEF NothingFoundInv
  <2>1. x # m
    BY <1>3, <1>6, <1>16
  <2>2. Settled(x) /\ source[x] = NoSource
    BY <1>8, <1>14, <2>1
  <2>3. ~Awaits(x) /\ (LeadsToCycle(x) \/ \A d \in Imported[x] : Settled(d) /\ source[d] = NoSource)
    BY <2>2 DEF NothingFoundInv
  <2>4. \A d \in Imported[x] : d \in Modules
    BY ImportedGraph
  <2> QED
    BY <1>8, <1>14, <1>15, <2>3, <2>4
<1> QED
  BY <1>8, <1>14, <1>15, <1>17, <1>18, <1>19, <1>20

\* A search that is over: with a result, or with nothing found.
LEMMA SearchReturn ==
  ASSUME LinkTypeOK, SourceInv, CallsInv, PassedInv, NothingFoundInv, table' = table,
         calls # <<>>, calls' = Returned, visited' = visited,
         NEW v \in Modules \cup {NoSource}, source' = [source EXCEPT ![Caller.at] = v],
         v # NoSource => v \in AwaitsFrom(Caller.at),
         v = NoSource => \/ LeadsToCycle(Caller.at)
                         \/ \A d \in Imported[Caller.at] : Settled(d) /\ source[d] = NoSource
  PROVE  /\ SourceInv' /\ CallsInv' /\ PassedInv' /\ NothingFoundInv'
         /\ \A x \in Modules : Settled(x) => Settled(x)' /\ source'[x] = source[x]
<1>1. \A x \in Modules : Kept(x)
  BY DEF Kept
<1>2. /\ Imported' = Imported
      /\ \A x \in Modules : Records(x)' = Records(x)
      /\ \A x \in Modules : Via(Imported, {x})' = Via(Imported, {x})
      /\ \A x \in Modules : LeadsToCycle(x)' = LeadsToCycle(x)
      /\ \A x \in Modules : AwaitsFrom(x)' = AwaitsFrom(x)
      /\ \A x \in Modules : Awaits(x)' <=> Awaits(x)
  BY <1>1, AwaitsUnchanged
<1>3. /\ calls \in Seq(Frames) /\ visited \subseteq Modules
      /\ source \in [Modules -> Modules \cup {NoSource}]
  BY DEF LinkTypeOK
<1>4. /\ Len(calls) \in Nat \ {0} /\ DOMAIN calls = 1..Len(calls) /\ Len(calls) \in DOMAIN calls
      /\ Caller = calls[Len(calls)] /\ Caller.at \in Modules
      /\ DOMAIN Returned = 1..(Len(calls) - 1) /\ \A k \in DOMAIN Returned : Returned[k] = calls[k]
  BY <1>3, CallerFacts
<1>5. \A k \in DOMAIN calls : calls[k].at \in Modules
  BY <1>3, FramesFacts
<1>6. \A k \in DOMAIN calls' : k \in DOMAIN calls /\ calls'[k] = calls[k] /\ k # Len(calls) /\ k < Len(calls)
  BY <1>4
<1>7. \A k \in DOMAIN calls : k # Len(calls) => k \in DOMAIN calls'
  BY <1>4
<1>8. /\ source'[Caller.at] = v
      /\ \A x \in Modules : x # Caller.at => source'[x] = source[x]
  BY <1>3, <1>4
<1>9. \A k \in DOMAIN calls' : calls'[k].at # Caller.at
  BY <1>4, <1>6 DEF CallsInv
<1>10. InProgress(Caller.at) /\ Caller.at \in visited /\ ~Awaits(Caller.at)
  BY <1>4 DEF InProgress, SourceInv
<1>12. \A x \in Modules : x # Caller.at => (InProgress(x)' <=> InProgress(x))
  <2> SUFFICES ASSUME NEW x \in Modules, x # Caller.at PROVE InProgress(x)' <=> InProgress(x)
    OBVIOUS
  <2>1. InProgress(x)' => InProgress(x)
    BY <1>6 DEF InProgress
  <2>2. ASSUME InProgress(x) PROVE InProgress(x)'
    <3>1. PICK k \in DOMAIN calls : calls[k].at = x
      BY <2>2 DEF InProgress
    <3>2. k \in DOMAIN calls' /\ calls'[k].at = x
      BY <1>4, <1>6, <1>7, <3>1
    <3> QED
      BY <3>2 DEF InProgress
  <2> QED
    BY <2>1, <2>2
<1>13. \A x \in Modules : x # Caller.at => (Settled(x)' <=> Settled(x))
  BY <1>12 DEF Settled
<1>14. ~Settled(Caller.at)
  BY <1>10 DEF Settled
<1>15. \A x \in Modules : Settled(x) => Settled(x)' /\ source'[x] = source[x]
  BY <1>8, <1>13, <1>14
<1>16. SourceInv'
  <2>1. \A x \in Modules : source'[x] # NoSource => source'[x] \in AwaitsFrom(x)
    BY <1>4, <1>8 DEF SourceInv
  <2>2. \A x \in Modules : x \notin visited' => source'[x] = NoSource
    BY <1>8, <1>10 DEF SourceInv
  <2>3. \A k \in DOMAIN calls' :
           /\ calls'[k].at \in visited' /\ source'[calls'[k].at] = NoSource
           /\ calls'[k].at \in Modules /\ ~Awaits(calls'[k].at)
    BY <1>5, <1>6, <1>8, <1>9 DEF SourceInv
  <2>4. \A k \in DOMAIN calls' : (~Awaits(calls[k].at))'
    BY <2>3 DEF Awaits
  <2> QED
    BY <1>2, <2>1, <2>2, <2>3, <2>4 DEF SourceInv
<1>17. CallsInv'
  <2> SUFFICES ASSUME NEW k \in DOMAIN calls', NEW j \in DOMAIN calls'
               PROVE  /\ k <= j => calls'[j].at \in Via(Imported, {calls'[k].at})
                      /\ k # j => calls'[j].at # calls'[k].at
    BY <1>2 DEF CallsInv, Via
  <2> QED
    BY <1>6 DEF CallsInv
<1>18. PassedInv'
  <2> SUFFICES ASSUME NEW k \in DOMAIN calls', NEW r \in DOMAIN table'[calls'[k].at].recs,
                      r < calls'[k].next, table'[calls'[k].at].recs[r].kind = "import"
               PROVE  LET to == table'[calls'[k].at].recs[r].to
                      IN /\ to \in visited' /\ source'[to] = NoSource
                         /\ \A j \in DOMAIN calls' : k < j => calls'[j].at # to
    BY DEF PassedInv, Records
  <2> DEFINE to == Records(calls[k].at)[r].to
  <2>1. calls'[k] = calls[k] /\ r \in DOMAIN Records(calls[k].at)
        /\ Records(calls[k].at)[r].kind = "import" /\ k \in DOMAIN calls
    BY <1>6 DEF Records
  <2>2. to \in visited /\ source[to] = NoSource /\ \A j \in DOMAIN calls : k < j => calls[j].at # to
    BY <2>1 DEF PassedInv
  <2>3. to # Caller.at
    BY <1>4, <1>6, <2>2
  <2>4. to = table'[calls'[k].at].recs[r].to
    BY <2>1 DEF Records
  <2> HIDE DEF to
  <2>5. to \in visited' /\ source'[to] = NoSource
    BY <1>3, <1>8, <2>2, <2>3
  <2>6. \A j \in DOMAIN calls' : k < j => calls'[j].at # to
    BY <1>6, <2>2
  <2> QED
    BY <2>4, <2>5, <2>6
<1>19. NothingFoundInv'
  <2> SUFFICES ASSUME NEW x \in Modules, Settled(x)', source'[x] = NoSource
               PROVE  /\ ~Awaits(x)
                      /\ LeadsToCycle(x) \/ \A d \in Imported[x] : Settled(d)' /\ source'[d] = NoSource
    BY <1>2 DEF NothingFoundInv
  <2>1. ~Awaits(x) /\ (LeadsToCycle(x) \/ \A d \in Imported[x] : Settled(d) /\ source[d] = NoSource)
    <3>1. CASE x = Caller.at
      BY <1>8, <1>10, <3>1
    <3>2. CASE x # Caller.at
      <4>1. Settled(x) /\ source[x] = NoSource
        BY <1>8, <1>13, <3>2
      <4> QED
        BY <4>1 DEF NothingFoundInv
    <3> QED
      BY <3>1, <3>2
  <2>2. \A d \in Imported[x] : d \in Modules
    BY ImportedGraph
  <2> QED
    BY <1>15, <2>1, <2>2
<1> QED
  BY <1>15, <1>16, <1>17, <1>18, <1>19

\* A record that leads to nothing is passed over.
LEMMA SearchContinue ==
  ASSUME LinkTypeOK, SourceInv, CallsInv, PassedInv, NothingFoundInv, table' = table,
         calls # <<>>, calls' = Continued, visited' = visited, source' = source,
         CallerInRecords, CallerRecord.kind = "import" =>
            CallerRecord.to \in visited /\ source[CallerRecord.to] = NoSource
  PROVE  /\ SourceInv' /\ CallsInv' /\ PassedInv' /\ NothingFoundInv'
         /\ \A x \in Modules : Settled(x) => Settled(x)' /\ source'[x] = source[x]
<1>1. \A x \in Modules : Kept(x)
  BY DEF Kept
<1>2. /\ Imported' = Imported
      /\ \A x \in Modules : Records(x)' = Records(x)
      /\ \A x \in Modules : Via(Imported, {x})' = Via(Imported, {x})
      /\ \A x \in Modules : LeadsToCycle(x)' = LeadsToCycle(x)
      /\ \A x \in Modules : AwaitsFrom(x)' = AwaitsFrom(x)
      /\ \A x \in Modules : Awaits(x)' <=> Awaits(x)
  BY <1>1, AwaitsUnchanged
<1>3. calls \in Seq(Frames)
  BY DEF LinkTypeOK
<1>4. /\ Len(calls) \in Nat \ {0} /\ DOMAIN calls = 1..Len(calls) /\ Len(calls) \in DOMAIN calls
      /\ Caller = calls[Len(calls)] /\ Caller.at \in Modules /\ Caller.next \in Nat \ {0}
      /\ DOMAIN Continued = DOMAIN calls
      /\ \A k \in DOMAIN calls :
            /\ Continued[k].at = calls[k].at
            /\ k # Len(calls) => Continued[k] = calls[k]
            /\ k = Len(calls) => Continued[k].next = calls[k].next + 1
  BY <1>3, CallerFacts
<1>5. \A k \in DOMAIN calls : calls[k].at \in Modules
  BY <1>3, FramesFacts
<1>6. DOMAIN calls' = DOMAIN calls /\ \A k \in DOMAIN calls : calls'[k].at = calls[k].at
  BY <1>4
<1>7. \A x : (InProgress(x)' <=> InProgress(x)) /\ (Settled(x)' <=> Settled(x))
  <2>1. \A x : InProgress(x)' <=> InProgress(x)
    BY <1>6 DEF InProgress
  <2> QED
    BY <2>1 DEF Settled
<1>8. SourceInv'
  <2>1. \A k \in DOMAIN calls' : (~Awaits(calls[k].at))'
    BY <1>6 DEF SourceInv, Awaits
  <2> QED
    BY <1>2, <1>6, <2>1 DEF SourceInv
<1>9. CallsInv'
  <2> SUFFICES ASSUME NEW k \in DOMAIN calls', NEW j \in DOMAIN calls'
               PROVE  /\ k <= j => calls'[j].at \in Via(Imported, {calls'[k].at})
                      /\ k # j => calls'[j].at # calls'[k].at
    BY <1>2 DEF CallsInv, Via
  <2> QED
    BY <1>6 DEF CallsInv
<1>10. PassedInv'
  <2> SUFFICES ASSUME NEW k \in DOMAIN calls', NEW r \in DOMAIN table'[calls'[k].at].recs,
                      r < calls'[k].next, table'[calls'[k].at].recs[r].kind = "import"
               PROVE  LET to == table'[calls'[k].at].recs[r].to
                      IN /\ to \in visited' /\ source'[to] = NoSource
                         /\ \A j \in DOMAIN calls' : k < j => calls'[j].at # to
    BY DEF PassedInv, Records
  <2> DEFINE to == Records(calls[k].at)[r].to
  <2>1. calls'[k].at = calls[k].at /\ r \in DOMAIN Records(calls[k].at)
        /\ Records(calls[k].at)[r].kind = "import" /\ k \in DOMAIN calls
    BY <1>6 DEF Records
  <2>2. to \in visited /\ source[to] = NoSource /\ \A j \in DOMAIN calls : k < j => calls[j].at # to
    <3>1. CASE r < calls[k].next
      BY <2>1, <3>1 DEF PassedInv
    <3>2. CASE ~(r < calls[k].next)
      <4>1. k = Len(calls)
        BY <1>4, <2>1, <3>2
      <4>2. r \in Nat
        BY <1>5, <2>1, RecordFacts
      <4>3. r = Caller.next
        BY <1>4, <3>2, <4>1, <4>2
      <4>4. CallerRecord = Records(calls[k].at)[r]
        BY <1>4, <4>1, <4>3 DEF CallerRecord
      <4>5. \A j \in DOMAIN calls : ~(k < j)
        BY <1>4, <4>1
      <4> QED
        BY <2>1, <4>4, <4>5
    <3> QED
      BY <3>1, <3>2
  <2>3. to = table'[calls'[k].at].recs[r].to
    BY <2>1 DEF Records
  <2> HIDE DEF to
  <2>4. \A j \in DOMAIN calls' : k < j => calls'[j].at # to
    BY <1>6, <2>2
  <2> QED
    BY <2>2, <2>3, <2>4
<1>11. NothingFoundInv'
  BY <1>2, <1>7 DEF NothingFoundInv
<1> QED
  BY <1>7, <1>8, <1>9, <1>10, <1>11

\* What was written stays right when settled modules keep their results.
LEMMA VerdictsStay ==
  ASSUME LinkTypeOK, VerdictsInv, table' = table, UNCHANGED <<cursor, record, metas, errors>>,
         \A x \in Modules : Settled(x) => Settled(x)' /\ source'[x] = source[x]
  PROVE  VerdictsInv'
<1>1. \A x \in Modules : Kept(x)
  BY DEF Kept
<1>2. /\ \A x \in Modules : \A kinds : Targets(x, kinds)' = Targets(x, kinds)
      /\ \A x \in Modules : Records(x)' = Records(x)
      /\ \A x \in Modules : AwaitsFrom(x)' = AwaitsFrom(x)
  BY <1>1, AwaitsUnchanged
<1>3. /\ \A x : Looked(x)' <=> Looked(x)
      /\ \A x, r : LookedAt(x, r)' <=> LookedAt(x, r)
  BY DEF Looked, LookedAt
<1>4. \A x \in Modules : \A r \in DOMAIN Records(x) : Records(x)[r].to \in Modules
  BY RecordFacts
<1>5. \A e \in errors : e[1] \in Modules /\ e[2] \in Modules
  BY DEF LinkTypeOK
<1>6. \A e \in errors' : e[2] \in Targets(e[1], {"require"})' /\ e[3] \in AwaitsFrom(e[2])'
  BY <1>2, <1>5 DEF VerdictsInv
<1>7. \A m \in Modules : IF table[m].normal /\ Looked(m)
                         THEN Settled(m)' /\ (metas[m].tla <=> source'[m] # NoSource)
                         ELSE metas[m].tla = FALSE
  BY DEF VerdictsInv
<1>8. \A m \in Modules : \A r \in DOMAIN Records(m) :
         LookedAt(m, r) /\ Records(m)[r].kind = "require" =>
             /\ (Settled(Records(m)[r].to) /\ source'[Records(m)[r].to] = source[Records(m)[r].to])
             /\ source[Records(m)[r].to] # NoSource => \E e \in errors : e[1] = m /\ e[2] = Records(m)[r].to
  BY <1>4 DEF VerdictsInv
<1>9. \A m \in Modules : \A r \in DOMAIN Records(m) : \A d \in Modules :
         LookedAt(m, r)' /\ Records(m)[r].kind = "require" /\ d = Records(m)[r].to =>
             /\ Settled(d)'
             /\ source'[d] # NoSource => \E e \in errors : e[1] = m /\ e[2] = d
  BY <1>3, <1>8
<1>10. \A m \in Modules : \A r \in DOMAIN Records(m) :
         LookedAt(m, r)' /\ Records(m)'[r].kind = "require" =>
             /\ Settled(Records(m)[r].to)'
             /\ source'[Records(m)'[r].to] # NoSource =>
                   \E e \in errors : e[1] = m /\ e[2] = Records(m)'[r].to
  BY <1>2, <1>4, <1>9
<1> QED
  BY <1>2, <1>3, <1>6, <1>7, <1>10 DEF VerdictsInv

\* The search of one module's imports.
LEMMA AwaitSearchStep ==
  ASSUME LinkTypeOK, TableInv, AwaitInv, find_tla_source
  PROVE  AwaitInv'
<1>1. /\ phase = "tla" /\ calls # <<>> /\ UNCHANGED <<phase, cursor, record, metas, errors, table>>
      /\ SourceInv /\ CallsInv /\ PassedInv /\ NothingFoundInv /\ VerdictsInv
  BY DEF find_tla_source, control, AwaitInv
<1>2. /\ calls \in Seq(Frames) /\ source \in [Modules -> Modules \cup {NoSource}] /\ visited \subseteq Modules
  BY DEF LinkTypeOK
<1>3. /\ Len(calls) \in DOMAIN calls /\ DOMAIN calls = 1..Len(calls) /\ Len(calls) \in Nat
      /\ Caller = calls[Len(calls)] /\ Caller.at \in Modules /\ Caller.next \in Nat \ {0}
  BY <1>1, <1>2, CallerFacts
<1>4. /\ DOMAIN Records(Caller.at) = 1..Len(Records(Caller.at)) /\ Len(Records(Caller.at)) \in Nat
      /\ \A r \in DOMAIN Records(Caller.at) :
            /\ Records(Caller.at)[r].to \in Modules
            /\ Records(Caller.at)[r].kind = "import" => Records(Caller.at)[r].to \in Targets(Caller.at, {"import"})
  BY <1>3, RecordFacts
<1>5. Imported \in [Modules -> SUBSET Modules] /\ Imported[Caller.at] = Targets(Caller.at, {"import"})
  BY <1>3, ImportedGraph
<1>6. CallerInRecords =>
         /\ CallerRecord.to \in Modules
         /\ CallerRecord.kind = "import" => CallerRecord.to \in Imported[Caller.at]
  BY <1>4, <1>5 DEF CallerInRecords, CallerRecord
<1>7. ASSUME SourceInv', CallsInv', PassedInv', NothingFoundInv',
             \A x \in Modules : Settled(x) => Settled(x)' /\ source'[x] = source[x]
      PROVE  AwaitInv'
  <2>1. VerdictsInv'
    BY <1>1, <1>7, VerdictsStay
  <2>2. AwaitsAreFound'
    BY <1>1 DEF AwaitsAreFound
  <2> QED
    BY <1>1, <1>7, <2>1, <2>2 DEF AwaitInv
<1>8. CASE CallerInRecords /\ CallerRecord.kind = "import" /\ FindTlaSource(CallerRecord.to)
  BY <1>1, <1>6, <1>7, <1>8, SearchCall
<1>9. CASE /\ CallerInRecords /\ ImportIsSettled /\ source[CallerRecord.to] # NoSource
           /\ source' = [source EXCEPT ![Caller.at] = source[CallerRecord.to]]
           /\ calls' = Returned /\ visited' = visited
  <2> DEFINE v == source[CallerRecord.to]
  <2>1. CallerRecord.to \in Imported[Caller.at] /\ CallerRecord.to \in Modules
    BY <1>6, <1>9 DEF ImportIsSettled
  <2>2. v \in AwaitsFrom(CallerRecord.to) /\ v \in Modules \cup {NoSource} /\ v # NoSource
    BY <1>1, <1>2, <1>9, <2>1 DEF SourceInv
  <2>3. Caller.at \in Via(Imported, {Caller.at})
    BY <1>3, ViaBase
  <2>4. CallerRecord.to \in Via(Imported, {Caller.at})
    BY <1>5, <2>1, <2>3, ViaStep
  <2>5. Via(Imported, {CallerRecord.to}) \subseteq Via(Imported, {Caller.at})
    BY <2>4, ViaTransitive
  <2>6. v \in AwaitsFrom(Caller.at)
    BY <2>2, <2>5 DEF AwaitsFrom
  <2>7. source' = [source EXCEPT ![Caller.at] = v]
    BY <1>9
  <2> HIDE DEF v
  <2> QED
    BY <1>1, <1>7, <1>9, <2>2, <2>6, <2>7, SearchReturn
<1>10. CASE /\ CallerInRecords
            /\ CallerRecord.kind = "import" => ImportIsSettled /\ source[CallerRecord.to] = NoSource
            /\ calls' = Continued /\ UNCHANGED <<visited, source>>
  <2>1. CallerRecord.kind = "import" => CallerRecord.to \in visited /\ source[CallerRecord.to] = NoSource
    BY <1>10 DEF ImportIsSettled
  <2> QED
    BY <1>1, <1>7, <1>10, <2>1, SearchContinue
<1>11. CASE ~CallerInRecords /\ calls' = Returned /\ UNCHANGED <<visited, source>>
  <2>1. source[Caller.at] = NoSource
    BY <1>1, <1>3 DEF SourceInv
  <2>2. source' = [source EXCEPT ![Caller.at] = NoSource]
    BY <1>2, <1>3, <1>11, <2>1
  <2>3. \A r \in DOMAIN Records(Caller.at) : r < Caller.next
    BY <1>3, <1>4, <1>11 DEF CallerInRecords
  <2>4. \A d \in Imported[Caller.at] : d \in visited /\ source[d] = NoSource
    <3> SUFFICES ASSUME NEW d \in Imported[Caller.at] PROVE d \in visited /\ source[d] = NoSource
      OBVIOUS
    <3>1. PICK r \in DOMAIN Records(Caller.at) :
             Records(Caller.at)[r].to = d /\ Records(Caller.at)[r].kind = "import"
      BY <1>5 DEF Targets
    <3> QED
      BY <1>1, <1>3, <2>3, <3>1 DEF PassedInv
  <2>5. ASSUME NEW d \in Imported[Caller.at], InProgress(d)
        PROVE  LeadsToCycle(Caller.at)
    <3>1. PICK j \in DOMAIN calls : calls[j].at = d
      BY <2>5 DEF InProgress
    <3>2. j <= Len(calls)
      BY <1>3, <3>1
    <3>3. Caller.at \in Via(Imported, {d})
      BY <1>1, <1>3, <3>1, <3>2 DEF CallsInv
    <3>4. d \in Via(Imported, Imported[Caller.at])
      BY <1>3, <1>5, ViaBase
    <3>5. Caller.at \in Via(Imported, Imported[Caller.at])
      BY <3>3, <3>4, ViaTransitive
    <3>6. Caller.at \in Via(Imported, {Caller.at})
      BY <1>3, ViaBase
    <3> QED
      BY <3>5, <3>6 DEF LeadsToCycle, InCycle
  <2>6. LeadsToCycle(Caller.at) \/ \A d \in Imported[Caller.at] : Settled(d) /\ source[d] = NoSource
    BY <2>4, <2>5 DEF Settled
  <2>7. NoSource \in Modules \cup {NoSource}
    OBVIOUS
  <2> QED
    BY <1>1, <1>7, <1>11, <2>2, <2>6, <2>7, SearchReturn
<1> QED
  BY <1>8, <1>9, <1>10, <1>11 DEF find_tla_source

\* A search that is over, found nothing and leads to no cycle missed nothing.
LEMMA NothingMissed ==
  ASSUME LinkTypeOK, NothingFoundInv, NEW m \in Modules, Settled(m), source[m] = NoSource, ~LeadsToCycle(m)
  PROVE  AwaitsFrom(m) = {}
<1> DEFINE T == {x \in Via(Imported, {m}) : Settled(x) /\ source[x] = NoSource}
<1>1. m \in Via(Imported, {m}) /\ Via(Imported, {m}) \subseteq Modules
  BY ViaBase DEF Via
<1>2. \A x \in T : Imported[x] \subseteq T
  <2> SUFFICES ASSUME NEW x \in T, NEW d \in Imported[x] PROVE d \in T
    OBVIOUS
  <2>1. Via(Imported, {x}) \subseteq Via(Imported, {m})
    BY ViaTransitive
  <2>2. ~LeadsToCycle(x)
    BY <2>1 DEF LeadsToCycle
  <2>3. Settled(d) /\ source[d] = NoSource
    BY <1>1, <2>2 DEF NothingFoundInv
  <2>4. d \in Via(Imported, {m})
    BY ImportedGraph, ViaStep
  <2> QED
    BY <2>3, <2>4
<1>3. {m} \subseteq T /\ T \in SUBSET Modules
  BY <1>1
<1> HIDE DEF T
<1>4. Via(Imported, {m}) \subseteq T
  BY <1>2, <1>3, ViaLeast
<1>5. \A a \in Via(Imported, {m}) : ~Awaits(a)
  BY <1>1, <1>4 DEF T, NothingFoundInv
<1> QED
  BY <1>5 DEF AwaitsFrom, Awaits

\* The verdicts when every module was looked at.
LEMMA AwaitOver ==
  ASSUME LinkTypeOK, TableInv, SourceInv, NothingFoundInv, VerdictsInv,
         \A m \in Modules : table[m].normal => Looked(m),
         \A m \in Modules : \A r \in DOMAIN Records(m) : LookedAt(m, r)
  PROVE  /\ \A m \in Modules : metas[m].tla => AwaitsFrom(m) # {}
         /\ \A m \in Modules : table[m].normal /\ AwaitsFrom(m) # {} =>
               \E c \in Modules : metas[c].tla /\ (c = m \/ (LeadsToCycle(m) /\ c \in Via(Imported, {m})))
         /\ \A e \in errors : e[2] \in Targets(e[1], {"require"}) /\ e[3] \in AwaitsFrom(e[2])
         /\ \A m, d \in Modules :
               d \in Targets(m, {"require"}) /\ AwaitsFrom(d) # {} /\ ~LeadsToCycle(d) =>
                   \E e \in errors : e[1] = m /\ e[2] = d
<1>1. \A m \in Modules : table[m].normal => Settled(m) /\ (metas[m].tla <=> source[m] # NoSource)
  BY DEF VerdictsInv
<1>2. \A m \in Modules : metas[m].tla => AwaitsFrom(m) # {}
  <2> SUFFICES ASSUME NEW m \in Modules, metas[m].tla PROVE AwaitsFrom(m) # {}
    OBVIOUS
  <2>1. table[m].normal
    BY DEF VerdictsInv
  <2> QED
    BY <1>1, <2>1 DEF SourceInv
<1>3. ASSUME NEW m \in Modules, table[m].normal, NEW a \in AwaitsFrom(m)
      PROVE  \E c \in Modules : metas[c].tla /\ (c = m \/ (LeadsToCycle(m) /\ c \in Via(Imported, {m})))
  <2>1. CASE source[m] # NoSource
    BY <1>1, <1>3, <2>1
  <2>2. CASE source[m] = NoSource
    <3>1. LeadsToCycle(m)
      BY <1>1, <1>3, <2>2, NothingMissed
    <3>2. a \in Via(Imported, {m}) /\ a \in Modules /\ Awaits(a)
      BY DEF AwaitsFrom, Awaits, Via
    <3>3. table[a].normal
      BY <3>2 DEF Awaits
    <3>4. metas[a].tla
      BY <1>1, <3>2, <3>3 DEF NothingFoundInv
    <3> QED
      BY <3>1, <3>2, <3>4
  <2> QED
    BY <2>1, <2>2
<1>4. ASSUME NEW m \in Modules, NEW d \in Targets(m, {"require"}), AwaitsFrom(d) # {}, ~LeadsToCycle(d)
      PROVE  \E e \in errors : e[1] = m /\ e[2] = d
  <2>1. PICK r \in DOMAIN Records(m) : Records(m)[r].to = d /\ Records(m)[r].kind = "require"
    BY DEF Targets
  <2>2. Settled(d) /\ (source[d] # NoSource => \E e \in errors : e[1] = m /\ e[2] = d)
    BY <2>1 DEF VerdictsInv
  <2>3. d \in Modules
    BY RecordFacts
  <2>4. source[d] # NoSource
    BY <1>4, <2>2, <2>3, NothingMissed
  <2> QED
    BY <2>2, <2>4
<1>5. \A e \in errors : e[2] \in Targets(e[1], {"require"}) /\ e[3] \in AwaitsFrom(e[2])
  BY DEF VerdictsInv
<1> QED
  BY <1>2, <1>3, <1>4, <1>5

\* When the graph, the searches and their results stay as they are.
LEMMA SearchStutter ==
  ASSUME LinkTypeOK, SourceInv, CallsInv, PassedInv, NothingFoundInv, UNCHANGED <<table, calls, visited, source>>
  PROVE  /\ SourceInv' /\ CallsInv' /\ PassedInv' /\ NothingFoundInv'
         /\ \A x : Settled(x)' <=> Settled(x)
<1>1. \A x \in Modules : Kept(x)
  BY DEF Kept
<1>2. /\ Imported' = Imported
      /\ \A x \in Modules : Via(Imported, {x})' = Via(Imported, {x})
      /\ \A x \in Modules : LeadsToCycle(x)' = LeadsToCycle(x)
      /\ \A x \in Modules : AwaitsFrom(x)' = AwaitsFrom(x)
      /\ \A x \in Modules : Awaits(x)' <=> Awaits(x)
  BY <1>1, AwaitsUnchanged
<1>3. \A x : (InProgress(x)' <=> InProgress(x)) /\ (Settled(x)' <=> Settled(x))
  <2>1. \A x : InProgress(x)' <=> InProgress(x)
    BY DEF InProgress
  <2> QED
    BY <2>1 DEF Settled
<1>4. SourceInv'
  <2>1. \A k \in DOMAIN calls' : (~Awaits(calls[k].at))'
    BY DEF SourceInv, Awaits
  <2> QED
    BY <1>2, <2>1 DEF SourceInv
<1>5. CallsInv'
  BY <1>2 DEF CallsInv, Via
<1>6. PassedInv'
  BY DEF PassedInv, Records
<1>7. NothingFoundInv'
  BY <1>2, <1>3 DEF NothingFoundInv
<1> QED
  BY <1>3, <1>4, <1>5, <1>6, <1>7

\* The verdicts about the module or the record that is looked at.
LEMMA VerdictsWritten ==
  ASSUME LinkTypeOK, VerdictsInv, UNCHANGED <<table, calls, visited, source>>,
         errors \subseteq errors',
         \A e \in errors' \ errors : e[1] \in Modules /\ e[2] \in Targets(e[1], {"require"}) /\ e[3] \in AwaitsFrom(e[2]),
         \A m \in Modules : IF table[m].normal /\ Looked(m)'
                            THEN Settled(m) /\ (metas'[m].tla <=> source[m] # NoSource)
                            ELSE metas'[m].tla = FALSE,
         \A m \in Modules : \A r \in DOMAIN Records(m) :
            LookedAt(m, r)' /\ ~LookedAt(m, r) /\ Records(m)[r].kind = "require" =>
                /\ Settled(Records(m)[r].to)
                /\ source[Records(m)[r].to] # NoSource => \E e \in errors' : e[1] = m /\ e[2] = Records(m)[r].to
  PROVE  VerdictsInv'
<1>1. \A x \in Modules : Kept(x)
  BY DEF Kept
<1>2. /\ \A x \in Modules : \A kinds : Targets(x, kinds)' = Targets(x, kinds)
      /\ \A x \in Modules : Records(x)' = Records(x)
      /\ \A x \in Modules : AwaitsFrom(x)' = AwaitsFrom(x)
  BY <1>1, AwaitsUnchanged
<1>3. \A x : Settled(x)' <=> Settled(x)
  <2>1. \A x : InProgress(x)' <=> InProgress(x)
    BY DEF InProgress
  <2> QED
    BY <2>1 DEF Settled
<1>4. \A e \in errors : e[1] \in Modules
  BY DEF LinkTypeOK
<1>5. \A e \in errors' : e[1] \in Modules /\ e[2] \in Targets(e[1], {"require"}) /\ e[3] \in AwaitsFrom(e[2])
  BY <1>4 DEF VerdictsInv
<1>6. \A e \in errors' : e[2] \in Modules
  BY <1>5, RecordFacts
<1>7. \A e \in errors' : e[2] \in Targets(e[1], {"require"})' /\ e[3] \in AwaitsFrom(e[2])'
  BY <1>2, <1>5, <1>6
<1>8. \A m \in Modules : IF table'[m].normal /\ Looked(m)'
                         THEN Settled(m)' /\ (metas'[m].tla <=> source'[m] # NoSource)
                         ELSE metas'[m].tla = FALSE
  BY <1>3
<1>9. \A m \in Modules : \A r \in DOMAIN Records(m) :
         LookedAt(m, r)' /\ Records(m)[r].kind = "require" =>
             /\ Settled(Records(m)[r].to)
             /\ source[Records(m)[r].to] # NoSource => \E e \in errors' : e[1] = m /\ e[2] = Records(m)[r].to
  BY DEF VerdictsInv
<1>10. \A m \in Modules : \A r \in DOMAIN Records(m) :
         LookedAt(m, r)' /\ Records(m)'[r].kind = "require" =>
             /\ Settled(Records(m)[r].to)'
             /\ source'[Records(m)'[r].to] # NoSource =>
                   \E e \in errors' : e[1] = m /\ e[2] = Records(m)'[r].to
  BY <1>2, <1>3, <1>9
<1> QED
  BY <1>2, <1>7, <1>8, <1>10 DEF VerdictsInv

\* One step of compute_tla itself.
LEMMA AwaitComputeStep ==
  ASSUME LinkTypeOK, TableInv, AwaitInv, compute_tla
  PROVE  AwaitInv'
<1>1. /\ phase = "tla" /\ calls = <<>> /\ UNCHANGED table
      /\ SourceInv /\ CallsInv /\ PassedInv /\ NothingFoundInv /\ VerdictsInv
  BY DEF compute_tla, AwaitInv
<1>2. /\ cursor \in Modules /\ cursor \in Nat \ {0} /\ record \in Nat
      /\ \A m \in Modules : m \in Nat \ {0}
      /\ source \in [Modules -> Modules \cup {NoSource}]
  BY CursorType DEF LinkTypeOK
<1>3. \A m \in Modules :
         /\ DOMAIN Records(m) = 1..Len(Records(m)) /\ Len(Records(m)) \in Nat
         /\ \A r \in DOMAIN Records(m) : Records(m)[r].to \in Modules /\ r \in Nat \ {0}
         /\ \A r \in DOMAIN Records(m) :
               Records(m)[r].kind = "require" => Records(m)[r].to \in Targets(m, {"require"})
  <2>1. \A m \in Modules : \A r \in DOMAIN Records(m) :
           Records(m)[r].kind = "require" => Records(m)[r].to \in Targets(m, {"require"})
    BY DEF Targets
  <2>2. \A m \in Modules :
           /\ DOMAIN Records(m) = 1..Len(Records(m)) /\ Len(Records(m)) \in Nat
           /\ \A r \in DOMAIN Records(m) : Records(m)[r].to \in Modules
    BY RecordFacts
  <2>3. \A m \in Modules : \A r \in DOMAIN Records(m) : r \in Nat \ {0}
    BY <2>2
  <2> QED
    BY <2>1, <2>2, <2>3
<1>4. \A x \in visited : Settled(x)
  <2>1. DOMAIN calls = {}
    BY <1>1, EmptySeq
  <2> QED
    BY <2>1 DEF Settled, InProgress
<1>5. CASE (\E m \in Modules : FindTlaSource(m)) /\ UNCHANGED <<control, metas, errors>>
  <2>1. PICK m \in Modules : FindTlaSource(m)
    BY <1>5
  <2>2. UNCHANGED <<phase, cursor, record, metas, errors>>
    BY <1>5 DEF control
  <2>3. /\ SourceInv' /\ CallsInv' /\ PassedInv' /\ NothingFoundInv'
        /\ \A x \in Modules : Settled(x) => Settled(x)' /\ source'[x] = source[x]
    BY <1>1, <2>1, SearchCall
  <2>4. VerdictsInv'
    BY <1>1, <2>2, <2>3, VerdictsStay
  <2> QED
    BY <1>1, <2>2, <2>3, <2>4 DEF AwaitInv, AwaitsAreFound
<1>6. CASE /\ table[cursor].normal /\ record = 0 /\ cursor \in visited
           /\ metas' = [metas EXCEPT ![cursor].tla = source[cursor] # NoSource]
           /\ NextRecord /\ UNCHANGED <<walk, errors>>
  <2>1. /\ phase' = phase /\ cursor' = cursor /\ record' = 1
        /\ UNCHANGED <<calls, visited, source, errors>>
    BY <1>6 DEF NextRecord, walk
  <2>2. /\ SourceInv' /\ CallsInv' /\ PassedInv' /\ NothingFoundInv'
    BY <1>1, <2>1, SearchStutter
  <2>3. \A m \in Modules : metas'[m].tla = IF m = cursor THEN source[cursor] # NoSource ELSE metas[m].tla
    <3>1. \A m \in Modules : metas[m] \in Metas
      BY ModuleFacts
    <3> QED
      BY <1>2, <1>6, <3>1 DEF LinkTypeOK, Metas
  <2>4. \A m \in Modules : m # cursor => (Looked(m)' <=> Looked(m))
    BY <2>1 DEF Looked
  <2>5. \A m \in Modules : m = cursor => Looked(m)'
    BY <2>1 DEF Looked
  <2>6. \A m \in Modules : IF table[m].normal /\ Looked(m)'
                           THEN Settled(m) /\ (metas'[m].tla <=> source[m] # NoSource)
                           ELSE metas'[m].tla = FALSE
    <3> SUFFICES ASSUME NEW m \in Modules
                 PROVE  IF table[m].normal /\ Looked(m)'
                        THEN Settled(m) /\ (metas'[m].tla <=> source[m] # NoSource)
                        ELSE metas'[m].tla = FALSE
      OBVIOUS
    <3>1. CASE m = cursor
      BY <1>4, <1>6, <2>3, <2>5, <3>1
    <3>2. CASE m # cursor
      BY <1>1, <2>3, <2>4, <3>2 DEF VerdictsInv
    <3> QED
      BY <3>1, <3>2
  <2>7. \A m \in Modules : \A r \in DOMAIN Records(m) : LookedAt(m, r)' => LookedAt(m, r)
    BY <1>3, <2>1 DEF LookedAt
  <2>8. VerdictsInv'
    BY <1>1, <2>1, <2>6, <2>7, VerdictsWritten
  <2> QED
    BY <1>1, <2>1, <2>2, <2>8 DEF AwaitInv, AwaitsAreFound
<1>7. CASE /\ InRecords
           /\ Records(cursor)[record].kind = "require" => Records(cursor)[record].to \in visited
           /\ errors' = errors \cup ErrorsOf(cursor, Records(cursor)[record])
           /\ NextRecord /\ UNCHANGED <<walk, metas>>
  <2> DEFINE rec == Records(cursor)[record]
  <2>1. /\ phase' = phase /\ cursor' = cursor /\ record' = record + 1
        /\ UNCHANGED <<calls, visited, source, metas>>
    BY <1>7 DEF NextRecord, walk
  <2>2. record \in DOMAIN Records(cursor) /\ record \in Nat \ {0} /\ rec.to \in Modules
        /\ (rec.kind = "require" => rec.to \in Targets(cursor, {"require"}))
    BY <1>2, <1>3, <1>7 DEF InRecords
  <2>3. /\ SourceInv' /\ CallsInv' /\ PassedInv' /\ NothingFoundInv'
    BY <1>1, <2>1, SearchStutter
  <2>4. \A m \in Modules : Looked(m)' <=> Looked(m)
    BY <1>2, <2>1, <2>2 DEF Looked
  <2>5. \A m \in Modules : IF table[m].normal /\ Looked(m)'
                           THEN Settled(m) /\ (metas'[m].tla <=> source[m] # NoSource)
                           ELSE metas'[m].tla = FALSE
    BY <1>1, <2>1, <2>4 DEF VerdictsInv
  <2>6. \A m \in Modules : \A r \in DOMAIN Records(m) : LookedAt(m, r)' => LookedAt(m, r) \/ (m = cursor /\ r = record)
    BY <1>2, <1>3, <2>1, <2>2 DEF LookedAt
  <2>7. rec.kind = "require" => Settled(rec.to)
    BY <1>4, <1>7
  <2>8. rec.kind = "require" /\ source[rec.to] # NoSource => \E e \in errors' : e[1] = cursor /\ e[2] = rec.to
    <3> SUFFICES ASSUME rec.kind = "require", source[rec.to] # NoSource
                 PROVE  \E e \in errors' : e[1] = cursor /\ e[2] = rec.to
      OBVIOUS
    <3>1. <<cursor, rec.to, source[rec.to]>> \in errors'
      BY <1>7 DEF ErrorsOf
    <3> QED
      BY <3>1
  <2>9. \A e \in errors' \ errors : e = <<cursor, rec.to, source[rec.to]>> /\ rec.kind = "require" /\ source[rec.to] # NoSource
    BY <1>7 DEF ErrorsOf
  <2>10. \A e \in errors' \ errors : e[1] \in Modules /\ e[2] \in Targets(e[1], {"require"}) /\ e[3] \in AwaitsFrom(e[2])
    <3> SUFFICES ASSUME NEW e \in errors' \ errors
                 PROVE  e[1] \in Modules /\ e[2] \in Targets(e[1], {"require"}) /\ e[3] \in AwaitsFrom(e[2])
      OBVIOUS
    <3>1. e[1] = cursor /\ e[2] = rec.to /\ e[3] = source[rec.to]
      BY <2>9
    <3>2. source[rec.to] \in AwaitsFrom(rec.to)
      BY <1>1, <2>2, <2>9 DEF SourceInv
    <3> QED
      BY <1>2, <2>2, <2>9, <3>1, <3>2
  <2>11. \A m \in Modules : \A r \in DOMAIN Records(m) :
            LookedAt(m, r)' /\ ~LookedAt(m, r) /\ Records(m)[r].kind = "require" =>
                /\ Settled(Records(m)[r].to)
                /\ source[Records(m)[r].to] # NoSource => \E e \in errors' : e[1] = m /\ e[2] = Records(m)[r].to
    BY <2>6, <2>7, <2>8
  <2>12. errors \subseteq errors'
    BY <1>7
  <2>13. VerdictsInv'
    BY <1>1, <2>1, <2>5, <2>10, <2>11, <2>12, VerdictsWritten
  <2> QED
    BY <1>1, <2>1, <2>3, <2>13 DEF AwaitInv, AwaitsAreFound
<1>8. CASE RecordsDone /\ NextModule("exports") /\ UNCHANGED <<calls, source, metas, errors>>
  <2>1. "exports" \in Phases
    BY DEF Phases
  <2>2. /\ record' = 0
        /\ \/ phase' = phase /\ cursor' = cursor + 1 /\ visited' = visited
           \/ phase' = "exports" /\ \A m \in Modules : m <= cursor
    BY <1>8, <2>1, NextModuleFacts
  <2>3. \A k \in Modules : k <= cursor /\ table[k].normal => Looked(k)
    <3> SUFFICES ASSUME NEW k \in Modules, k <= cursor, table[k].normal PROVE Looked(k)
      OBVIOUS
    <3>1. k = cursor => record > 0
      BY <1>2, <1>3, <1>8 DEF RecordsDone
    <3> QED
      BY <1>2, <3>1 DEF Looked
  <2>4. \A k \in Modules : \A r \in DOMAIN Records(k) : k <= cursor => LookedAt(k, r)
    <3> SUFFICES ASSUME NEW k \in Modules, NEW r \in DOMAIN Records(k), k <= cursor PROVE LookedAt(k, r)
      OBVIOUS
    <3>1. table[k].normal
      <4>1. ~table[k].normal => Records(k) = <<>>
        BY DEF TableInv, Records
      <4>2. Records(k) = <<>> => DOMAIN Records(k) = {}
        BY EmptySeq
      <4> QED
        BY <4>1, <4>2
    <3>2. k = cursor => r < record
      BY <1>2, <1>3, <1>8, <3>1 DEF RecordsDone
    <3> QED
      BY <1>2, <3>2 DEF LookedAt
  <2>5. CASE phase' = phase /\ cursor' = cursor + 1 /\ visited' = visited
    <3>1. /\ SourceInv' /\ CallsInv' /\ PassedInv' /\ NothingFoundInv'
      BY <1>1, <1>8, <2>5, SearchStutter
    <3>2. \A k \in Modules : table[k].normal => (Looked(k)' <=> Looked(k))
      <4>1. \A k \in Modules : Looked(k)' <=> k <= cursor
        BY <1>2, <2>2, <2>5 DEF Looked
      <4>2. \A k \in Modules : Looked(k) => k <= cursor
        BY <1>2 DEF Looked
      <4> QED
        BY <2>3, <4>1, <4>2
    <3>3. \A m \in Modules : IF table[m].normal /\ Looked(m)'
                             THEN Settled(m) /\ (metas'[m].tla <=> source[m] # NoSource)
                             ELSE metas'[m].tla = FALSE
      BY <1>1, <1>8, <3>2 DEF VerdictsInv
    <3>4. \A k \in Modules : \A r \in DOMAIN Records(k) : LookedAt(k, r)' => LookedAt(k, r)
      <4>1. \A k \in Modules : \A r \in DOMAIN Records(k) : ~(r < 0)
        BY <1>3
      <4>2. \A k \in Modules : k < cursor + 1 => k <= cursor
        BY <1>2
      <4> QED
        BY <2>2, <2>4, <2>5, <4>1, <4>2 DEF LookedAt
    <3>5. VerdictsInv'
      BY <1>1, <1>8, <2>5, <3>3, <3>4, VerdictsWritten
    <3> QED
      BY <1>1, <2>5, <3>1, <3>5 DEF AwaitInv, AwaitsAreFound
  <2>6. CASE phase' = "exports" /\ \A m \in Modules : m <= cursor
    <3>1. /\ \A m \in Modules : metas[m].tla => AwaitsFrom(m) # {}
          /\ \A m \in Modules : table[m].normal /\ AwaitsFrom(m) # {} =>
                \E c \in Modules : metas[c].tla /\ (c = m \/ (LeadsToCycle(m) /\ c \in Via(Imported, {m})))
          /\ \A e \in errors : e[2] \in Targets(e[1], {"require"}) /\ e[3] \in AwaitsFrom(e[2])
          /\ \A m, d \in Modules :
                d \in Targets(m, {"require"}) /\ AwaitsFrom(d) # {} /\ ~LeadsToCycle(d) =>
                    \E e \in errors : e[1] = m /\ e[2] = d
      BY <1>1, <2>3, <2>4, <2>6, AwaitOver
    <3>2. \A m \in Modules : Kept(m) /\ metas'[m].tla = metas[m].tla
      BY <1>1, <1>8 DEF Kept
    <3>3. AwaitsAreFound'
      BY <1>8, <3>1, <3>2, FoundFrom
    <3> QED
      BY <2>6, <3>3 DEF AwaitInv
  <2> QED
    BY <2>2, <2>5, <2>6
<1> QED
  <2>1. InRecords => Records(cursor)[record].to \in Modules
    BY <1>2, <1>3 DEF InRecords
  <2> QED
    BY <1>2, <1>5, <1>6, <1>7, <1>8, <2>1 DEF compute_tla

\* Before compute_tla nothing is known; without a module that awaits it does not run.
LEMMA AwaitSortedStep ==
  ASSUME LinkTypeOK, TableInv, AwaitInv, phase = "sort", sort_modules \/ sorted \/ linked \/ UNCHANGED vars
  PROVE  AwaitInv'
<1>1. /\ \A m \in Modules : ~metas[m].tla /\ source[m] = NoSource
      /\ errors = {} /\ visited = {} /\ calls = <<>>
  BY DEF AwaitInv, LinkTypeOK
<1>2. /\ UNCHANGED <<table, metas, errors, source, calls>>
      /\ sorted \/ UNCHANGED <<phase, cursor, record, visited>>
      /\ LinkTypeOK'
  BY SortedType
<1>3. CASE UNCHANGED <<phase, cursor, record, visited>>
  BY <1>1, <1>2, <1>3 DEF AwaitInv, AwaitsAreFound
<1>4. CASE sorted
  <2>1. /\ phase' = IF \E m \in Modules : Awaits(m) THEN "tla" ELSE "exports"
        /\ cursor' = 1 /\ record' = 0 /\ visited' = {}
    BY <1>4 DEF sorted, Enters, Awaits
  <2>2. CASE \E m \in Modules : Awaits(m)
    <3>1. DOMAIN calls' = {}
      BY <1>1, <1>2, EmptySeq
    <3>2. \A m \in Modules : source'[m] = NoSource /\ metas'[m].tla = FALSE
      BY <1>1, <1>2, ModuleFacts
    <3>3. SourceInv' /\ CallsInv' /\ PassedInv'
      BY <2>1, <3>1, <3>2 DEF SourceInv, CallsInv, PassedInv
    <3>4. \A m \in Modules : ~Settled(m)'
      BY <2>1 DEF Settled
    <3>5. NothingFoundInv'
      BY <3>4 DEF NothingFoundInv
    <3>6. \A m \in Modules : ~Looked(m)' /\ \A r \in (DOMAIN Records(m))' : ~LookedAt(m, r)'
      <4>1. \A m \in Modules : Records(m)' = Records(m)
        BY <1>2 DEF Records
      <4>2. \A m \in Modules : m \in Nat \ {0} /\ \A r \in DOMAIN Records(m) : r \in Nat
        BY CursorType, RecordFacts
      <4>3. \A m \in Modules : ~Looked(m)'
        BY <2>1, <4>2 DEF Looked
      <4>4. \A m \in Modules : \A r \in DOMAIN Records(m) : ~LookedAt(m, r)'
        BY <2>1, <4>2 DEF LookedAt
      <4> QED
        BY <4>1, <4>3, <4>4
    <3>7. VerdictsInv'
      BY <1>1, <1>2, <3>2, <3>6 DEF VerdictsInv
    <3> QED
      BY <2>1, <2>2, <3>3, <3>5, <3>7 DEF AwaitInv, AwaitsAreFound
  <2>3. CASE ~\E m \in Modules : Awaits(m)
    <3>1. \A m \in Modules : AwaitsFrom(m) = {}
      BY <2>3 DEF AwaitsFrom, Awaits, Via
    <3>2. \A m \in Modules : Kept(m) /\ metas'[m].tla = metas[m].tla
      BY <1>2 DEF Kept
    <3>3. \A m \in Modules : Targets(m, {"require"}) \subseteq Modules
      BY RecordFacts
    <3>4. AwaitsAreFound'
      BY <1>1, <1>2, <3>1, <3>2, <3>3, FoundFrom
    <3> QED
      BY <2>1, <2>3, <3>4 DEF AwaitInv
  <2> QED
    BY <2>2, <2>3
<1> QED
  BY <1>2, <1>3, <1>4

\* Every step keeps what is known of awaits.
LEMMA AwaitStep ==
  ASSUME LinkTypeOK, TableInv, AwaitInv, [Next]_vars
  PROVE  AwaitInv'
<1>1. CASE phase \notin {"sort", "tla"}
  BY <1>1, AwaitAfter
<1>2. CASE phase = "sort"
  <2>1. sort_modules \/ sorted \/ linked \/ UNCHANGED vars
    BY <1>2, PhaseStep DEF Next
  <2> QED
    BY <1>2, <2>1, AwaitSortedStep
<1>3. CASE phase = "tla"
  <2>1. \/ compute_tla \/ find_tla_source
        \/ sort_modules \/ sorted \/ linked \/ UNCHANGED vars
    BY <1>3, PhaseStep DEF Next
  <2>2. CASE compute_tla
    BY <2>2, AwaitComputeStep
  <2>3. CASE find_tla_source
    BY <2>3, AwaitSearchStep
  <2>4. CASE sort_modules \/ sorted \/ linked \/ UNCHANGED vars
    <3>1. UNCHANGED <<table, metas, errors, source, calls, phase, cursor, record, visited>>
      BY <1>3, <2>4, SortedType
    <3>2. SourceInv /\ CallsInv /\ PassedInv /\ NothingFoundInv /\ VerdictsInv
      BY <1>3 DEF AwaitInv
    <3>3. /\ SourceInv' /\ CallsInv' /\ PassedInv' /\ NothingFoundInv'
          /\ \A x \in Modules : Settled(x) => Settled(x)' /\ source'[x] = source[x]
      BY <3>1, <3>2, SearchStutter
    <3>4. VerdictsInv'
      BY <3>1, <3>2, <3>3, VerdictsStay
    <3> QED
      BY <1>3, <3>1, <3>3, <3>4 DEF AwaitInv, AwaitsAreFound
  <2> QED
    BY <2>1, <2>2, <2>3, <2>4
<1> QED
  BY <1>1, <1>2, <1>3

-----------------------------------------------------------------------------
(* The theorems                                                             *)

\* The invariant holds initially and every step keeps it.
LEMMA LinkInvariant == Spec => []LinkInv
<1>1. Init => LinkInv
  <2> SUFFICES ASSUME Init PROVE LinkInv
    OBVIOUS
  <2>1. LinkTypeOK /\ TableInv
    BY InitType
  <2>2. /\ phase = "sort" /\ errors = {} /\ visited = {}
        /\ \A m \in Modules : source[m] = NoSource
        /\ \A m \in Modules : metas[m].wrap = "none" /\ ~metas[m].tla
    BY DEF Init
  <2>3. AwaitInv
    BY <2>2 DEF AwaitInv, AwaitsAreFound
  <2>4. WrapInv
    BY <2>2 DEF WrapInv, KindInv, WrappersAreClosed
  <2>5. MarkedInv
    BY <2>2 DEF MarkedInv
  <2> QED
    BY <2>1, <2>3, <2>4, <2>5 DEF LinkInv
<1>2. LinkInv /\ [Next]_vars => LinkInv'
  <2> SUFFICES ASSUME LinkInv, [Next]_vars PROVE LinkInv'
    OBVIOUS
  <2>1. LinkTypeOK' /\ TableInv'
    BY TypeStep, TableStep DEF LinkInv
  <2>2. AwaitInv' /\ WrapInv' /\ MarkedInv'
    BY AwaitStep, WrapStep, MarkedStep DEF LinkInv
  <2> QED
    BY <2>1, <2>2 DEF LinkInv
<1> QED
  BY <1>1, <1>2, PTL DEF Spec

\* compute_tla, for every project: a module is marked, and a require() call of it reported,
\* only when a module it imports awaits, and none is missed that leads to no import cycle.
THEOREM TopLevelAwaits == Spec => []AwaitsAreFound
<1>1. LinkInv => AwaitsAreFound
  BY DEF LinkInv, AwaitInv
<1> QED
  BY <1>1, LinkInvariant, PTL

\* wrap_modules, for every project: exactly the modules that run on demand or lazily are
\* wrapped, cycles included, and each wrapper is the one its exports need.
THEOREM Wrappers == Spec => []WrappersAreClosed
<1>1. LinkInv => WrappersAreClosed
  BY DEF LinkInv, WrapInv
<1> QED
  BY <1>1, LinkInvariant, PTL

\* determine_side_effects, for every project: a module without effects of its own gets some
\* exactly when its imports lead, through other such modules, to one that has them.
THEOREM Effects == Spec => EffectsReachImporters
<1> DEFINE Verdicts ==
      phase = "importers" /\ phase' # phase =>
         LET through == [m \in Modules |-> IF Analyzed(m) THEN Targets(m, AllKinds) ELSE {}]
         IN \A m \in Modules :
               table'[m].effects = "some" <=>
                   \/ table[m].effects = "some"
                   \/ /\ Analyzed(m)
                      /\ \E d \in Via(through, {m}) :
                            table[d].effects = "some" \/ (Analyzed(d) /\ ReexportsAtRunTime(d))
<1>1. LinkInv /\ [Next]_vars => Verdicts
  <2> SUFFICES ASSUME LinkInv, [Next]_vars, phase = "importers", phase' # phase PROVE Verdicts
    OBVIOUS
  <2>1. \A m \in Modules :
           table'[m].effects = "some" <=>
               \/ table[m].effects = "some"
               \/ Analyzed(m) /\ \E d \in Via(Through, {m}) : d \in OwnEffects
    BY VerdictsStep DEF LinkInv
  <2>2. \A m \in Modules : \A d \in Via(Through, {m}) :
           d \in OwnEffects <=> table[d].effects = "some" \/ (Analyzed(d) /\ ReexportsAtRunTime(d))
    BY DEF OwnEffects, Via
  <2>3. \A m \in Modules :
           table'[m].effects = "some" <=>
               \/ table[m].effects = "some"
               \/ /\ Analyzed(m)
                  /\ \E d \in Via(Through, {m}) :
                        table[d].effects = "some" \/ (Analyzed(d) /\ ReexportsAtRunTime(d))
    BY <2>1, <2>2
  <2> QED
    BY <2>3 DEF Through
<1>2. Spec => [][Verdicts]_vars
  BY <1>1, LinkInvariant, PTL DEF Spec
<1> QED
  BY <1>2 DEF EffectsReachImporters

\* Every step of the link stage is a step of the walk or leaves the walk alone.
LEMMA WalkSteps == [Next]_vars => [SortNext]_sortVars
<1> SUFFICES ASSUME [Next]_vars PROVE SortNext \/ UNCHANGED sortVars
  OBVIOUS
<1>1. CASE sort_modules
  BY <1>1 DEF sort_modules
<1>2. CASE sorted \/ compute_tla \/ find_tla_source
  BY <1>2 DEF sorted, compute_tla, find_tla_source
<1>3. CASE determine_module_exports_kind \/ mark_star_exports \/ determine_has_dynamic_exports
  BY <1>3 DEF determine_module_exports_kind, mark_star_exports, determine_has_dynamic_exports
<1>4. CASE wrap_modules \/ wrap_module_recursively \/ wrap_all_cjs \/ generate_lazy_export
  BY <1>4 DEF wrap_modules, wrap_module_recursively, wrap_all_cjs, generate_lazy_export
<1>5. CASE mark_own_effects \/ determine_side_effects
  BY <1>5 DEF mark_own_effects, determine_side_effects
<1>6. CASE linked \/ UNCHANGED vars
  BY <1>6 DEF linked, vars, sortVars
<1> QED
  BY <1>1, <1>2, <1>3, <1>4, <1>5, <1>6 DEF Next

\* The link stage implements the walk, for every project: it starts with what the import
\* records and the entries give, and no later pass touches the order.
THEOREM SortingImplemented == Spec => SortSpec
<1>1. Init => /\ deps \in [Modules -> Seq(Modules)] /\ entries \in Seq(Modules)
              /\ RuntimeImportsExternals /\ SortInit
  BY WalkStarts
<1>2. [Next]_vars => [SortNext]_sortVars
  BY WalkSteps
<1> QED
  BY <1>1, <1>2, PTL DEF Spec, SortSpec

\* Hence, for every project, modules run after what they import except along a real cycle,
\* and the circular dependencies the link stage reports are real.
THEOREM LinkedInOrder == Spec => [](ImportsRunFirst /\ CyclesAreReal)
  BY SortingImplemented, ImportsComeFirst, ReportedCyclesAreReal, PTL

=============================================================================
