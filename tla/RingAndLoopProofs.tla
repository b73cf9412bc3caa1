------------------------- MODULE RingAndLoopProofs --------------------------
(***************************************************************************)
(* The two parts the task scheduler is made of.  ParallelLoop for a loop   *)
(* of any size and any number of workers; TaskRing for any number of       *)
(* slots, thieves and tasks: as long as one slot is left over, every task  *)
(* is handed out once and in order.                                        *)
(***************************************************************************)
EXTENDS ParallelLoop, TaskRing, TLAPS

-----------------------------------------------------------------------------
(* The pieces of a loop.                                                   *)

(* The grain is positive.                                                  *)
LEMMA GrainIsPositive ==
  ASSUME Loop \in Loops, NEW n \in Nat \ {0}
  PROVE  GrainOf(Loop, n) \in Nat \ {0}
<1>1. LoopSize[Loop] \in Nat
  BY LoopSizeAssumption
<1>2. ASSUME NEW s \in Nat, s >= n
      PROVE  s \div n \in Nat \ {0}
  BY <1>2, Z3T(30)
<1> QED BY <1>1, <1>2 DEF GrainOf

(* A range that splits is cut in two shorter ones, neither of them empty,  *)
(* neither shorter than half a grain.                                      *)
LEMMA SplitCuts ==
  ASSUME NEW r \in Ranges, IsSplittable(r)
  PROVE  /\ LeftOf(r) \in Ranges
         /\ RightOf(r) \in Ranges
         /\ r.first < Middle(r)
         /\ Middle(r) < r.last
         /\ LeftOf(r) = [loop |-> r.loop, first |-> r.first, last |-> Middle(r), grain |-> r.grain]
         /\ RightOf(r) = [loop |-> r.loop, first |-> Middle(r), last |-> r.last, grain |-> r.grain]
         /\ 2 * (Middle(r) - r.first) >= r.grain
         /\ 2 * (r.last - Middle(r)) >= r.grain
<1> DEFINE h == (r.last - r.first) \div 2
<1>1. /\ r.first \in Nat /\ r.last \in Nat /\ r.grain \in Nat \ {0} /\ r.loop \in Loops
      /\ r.grain < r.last - r.first
  BY DEF Ranges, IsSplittable, SizeOf
<1>2. h \in Int /\ 2 * h <= r.last - r.first /\ r.last - r.first <= 2 * h + 1
  BY <1>1
<1> HIDE DEF h
<1>3. /\ Middle(r) = r.first + h
      /\ 0 < h /\ h < r.last - r.first
      /\ 2 * h >= r.grain
  BY <1>1, <1>2 DEF Middle, SizeOf, h
<1>4. /\ Middle(r) \in Nat
      /\ r.first < Middle(r) /\ Middle(r) < r.last
      /\ 2 * (Middle(r) - r.first) >= r.grain
      /\ 2 * (r.last - Middle(r)) >= r.grain
  BY <1>1, <1>2, <1>3
<1>5. /\ LeftOf(r) = [loop |-> r.loop, first |-> r.first, last |-> Middle(r), grain |-> r.grain]
      /\ RightOf(r) = [loop |-> r.loop, first |-> Middle(r), last |-> r.last, grain |-> r.grain]
  BY DEF LeftOf, RightOf, Ranges
<1>6. LeftOf(r) \in Ranges /\ RightOf(r) \in Ranges
  BY <1>1, <1>4, <1>5 DEF Ranges
<1> QED BY <1>4, <1>5, <1>6

LEMMA InitInv ==
  ASSUME LoopInit
  PROVE  LoopInv
<1> USE DEF LoopInit
<1>1. runs \in [LoopIndices -> Nat] /\ begun \in BOOLEAN
  OBVIOUS
<1>2. PiecesAreInLoop /\ PiecesAreDisjoint /\ PiecesAreWorthATask
  BY DEF PiecesAreInLoop, PiecesAreDisjoint, PiecesAreWorthATask
<1>3. RunsAreDone
  BY DEF RunsAreDone
<1> QED BY <1>1, <1>2, <1>3 DEF LoopInv

LEMMA StartKeeps ==
  ASSUME Loop \in Loops, LoopInv, Start
  PROVE  LoopInv'
<1> USE DEF LoopInv
<1>1. PICK n \in Nat \ {0} : waiting' = {WholeRange(Loop, n)}
  BY DEF Start
<1> DEFINE w == WholeRange(Loop, n)
<1>2. /\ LoopSize[Loop] \in Nat
      /\ w \in Ranges /\ w.loop = Loop /\ w.first = 0 /\ w.last = LoopSize[Loop]
  BY LoopSizeAssumption, GrainIsPositive DEF WholeRange, Ranges
<1>3. begun' /\ runs' = runs /\ ~begun
  BY DEF Start
<1> HIDE DEF w
<1>4. waiting' = {w}
  BY <1>1 DEF w
<1>5. PiecesAreInLoop' /\ PiecesAreDisjoint' /\ PiecesAreWorthATask'
  BY <1>2, <1>4 DEF PiecesAreInLoop, PiecesAreDisjoint, PiecesAreWorthATask, SizeOf
<1>6. RunsAreDone'
  <2>1. \A i \in LoopIndices : i \in Indices(w)
    BY <1>2 DEF LoopIndices, Indices
  <2>2. \A i \in LoopIndices : runs[i] = 0
    BY <1>3 DEF RunsAreDone
  <2> QED BY <1>3, <1>4, <2>1, <2>2 DEF RunsAreDone
<1> QED BY <1>3, <1>5, <1>6

LEMMA SplitKeeps ==
  ASSUME Loop \in Loops, LoopInv, NEW r \in waiting, Split(r)
  PROVE  LoopInv'
<1> DEFINE a == LeftOf(r)
           b == RightOf(r)
           m == Middle(r)
<1>1. /\ waiting' = (waiting \ {r}) \cup {a, b}
      /\ begun' = begun /\ runs' = runs
  BY DEF Split
<1>2. /\ r \in Ranges /\ r.loop = Loop /\ r.last <= LoopSize[Loop]
      /\ r.first \in Nat /\ r.last \in Nat /\ r.grain \in Nat
  BY DEF LoopInv, PiecesAreInLoop, Ranges
<1>3. /\ a \in Ranges /\ b \in Ranges
      /\ r.first < m /\ m < r.last
      /\ a = [loop |-> r.loop, first |-> r.first, last |-> m, grain |-> r.grain]
      /\ b = [loop |-> r.loop, first |-> m, last |-> r.last, grain |-> r.grain]
      /\ 2 * (m - r.first) >= r.grain /\ 2 * (r.last - m) >= r.grain
  BY <1>2, SplitCuts DEF Split
<1>4. /\ a.loop = r.loop /\ a.first = r.first /\ a.last = m /\ a.grain = r.grain
      /\ b.loop = r.loop /\ b.first = m /\ b.last = r.last /\ b.grain = r.grain
  BY <1>3
<1>5. m \in Nat
  BY <1>3, <1>4 DEF Ranges
<1> HIDE DEF a, b, m
<1>6. LoopSize[Loop] \in Nat
  BY LoopSizeAssumption
<1>7. PiecesAreInLoop'
  <2>1. \A s \in {a, b} : s \in Ranges /\ s.loop = Loop /\ s.first < s.last /\ s.last <= LoopSize[Loop]
    BY <1>2, <1>3, <1>4, <1>5, <1>6
  <2>2. \A s \in {a, b} : s.first \in Nat /\ s.last \in Nat
    BY <1>2, <1>4, <1>5
  <2> QED BY <1>1, <2>1, <2>2 DEF LoopInv, PiecesAreInLoop
<1>8. PiecesAreDisjoint'
  <2>1. ASSUME NEW s \in waiting \ {r}, NEW t \in {a, b}
        PROVE  s.last <= t.first \/ t.last <= s.first
    <3>1. s.last <= r.first \/ r.last <= s.first
      BY <2>1 DEF LoopInv, PiecesAreDisjoint
    <3>2. s.first \in Nat /\ s.last \in Nat
      BY <2>1 DEF LoopInv, PiecesAreInLoop, Ranges
    <3> QED BY <3>1, <3>2, <1>2, <1>3, <1>4, <1>5
  <2>2. a.last <= b.first
    BY <1>4, <1>5
  <2>3. ASSUME NEW s \in waiting', NEW t \in waiting', s # t
        PROVE  s.last <= t.first \/ t.last <= s.first
    <3>1. CASE s \in waiting \ {r} /\ t \in waiting \ {r}
      BY <3>1, <2>3 DEF LoopInv, PiecesAreDisjoint
    <3>2. CASE s \in waiting \ {r} /\ t \in {a, b}
      BY <3>2, <2>1
    <3>3. CASE s \in {a, b} /\ t \in waiting \ {r}
      BY <3>3, <2>1
    <3>4. CASE s \in {a, b} /\ t \in {a, b}
      BY <3>4, <2>2, <2>3
    <3> QED BY <3>1, <3>2, <3>3, <3>4, <1>1
  <2> QED BY <2>3 DEF PiecesAreDisjoint
<1>9. RunsAreDone'
  <2>1. \A i \in LoopIndices : i \in Indices(r) <=> i \in Indices(a) \/ i \in Indices(b)
    BY <1>2, <1>3, <1>4, <1>5, <1>6 DEF Indices, LoopIndices
  <2>2. \A i \in LoopIndices :
          (\E s \in waiting : i \in Indices(s)) <=> (\E s \in waiting' : i \in Indices(s))
    BY <1>1, <2>1
  <2> QED BY <1>1, <2>2 DEF LoopInv, RunsAreDone
<1>10. PiecesAreWorthATask'
  BY <1>1, <1>3, <1>4 DEF LoopInv, PiecesAreWorthATask, SizeOf
<1>11. begun' \/ waiting' = {}
  BY <1>1 DEF LoopInv
<1> QED BY <1>1, <1>7, <1>8, <1>9, <1>10, <1>11 DEF LoopInv

LEMMA RunKeeps ==
  ASSUME LoopInv, NEW r \in waiting, Run(r)
  PROVE  LoopInv'
<1>1. /\ waiting' = waiting \ {r}
      /\ begun' = begun
      /\ runs' = [i \in LoopIndices |-> IF i \in Indices(r) THEN runs[i] + 1 ELSE runs[i]]
  BY DEF Run
<1>2. begun /\ runs \in [LoopIndices -> Nat]
  BY DEF LoopInv
<1>3. PiecesAreInLoop' /\ PiecesAreDisjoint' /\ PiecesAreWorthATask'
  BY <1>1 DEF LoopInv, PiecesAreInLoop, PiecesAreDisjoint, PiecesAreWorthATask
<1>4. RunsAreDone'
  <2> SUFFICES ASSUME NEW i \in LoopIndices
               PROVE  runs'[i] = IF \E s \in waiting' : i \in Indices(s) THEN 0 ELSE 1
    BY <1>1, <1>2 DEF RunsAreDone
  <2>1. runs[i] = IF \E s \in waiting : i \in Indices(s) THEN 0 ELSE 1
    BY <1>2 DEF LoopInv, RunsAreDone
  <2>2. CASE i \in Indices(r)
    <3>1. ASSUME NEW s \in waiting \ {r}
          PROVE  i \notin Indices(s)
      <4>1. s.last <= r.first \/ r.last <= s.first
        BY <3>1 DEF LoopInv, PiecesAreDisjoint
      <4>2. /\ s.first \in Nat /\ s.last \in Nat
            /\ r.first \in Nat /\ r.last \in Nat
        BY <3>1 DEF LoopInv, PiecesAreInLoop, Ranges
      <4>3. i >= r.first /\ i < r.last /\ i \in Int
        BY <2>2, <4>2 DEF Indices
      <4> QED BY <4>1, <4>2, <4>3 DEF Indices
    <3> QED BY <3>1, <2>1, <2>2, <1>1
  <2>3. CASE i \notin Indices(r)
    BY <2>1, <2>3, <1>1, <1>2
  <2> QED BY <2>2, <2>3
<1>5. runs' \in [LoopIndices -> Nat]
  BY <1>1, <1>2
<1> QED BY <1>1, <1>2, <1>3, <1>4, <1>5 DEF LoopInv

LEMMA LoopStep ==
  ASSUME Loop \in Loops, LoopInv, [LoopNext]_loopVars
  PROVE  LoopInv'
<1>1. CASE Start
  BY <1>1, StartKeeps
<1>2. ASSUME NEW r \in waiting, Split(r) \/ Run(r)
      PROVE  LoopInv'
  BY <1>2, SplitKeeps, RunKeeps
<1>3. CASE UNCHANGED loopVars
  BY <1>3 DEF loopVars, LoopInv, PiecesAreInLoop, PiecesAreDisjoint, RunsAreDone,
              PiecesAreWorthATask
<1> QED BY <1>1, <1>2, <1>3 DEF LoopNext

(* The pieces left always make up, without overlap, what has not been run. *)
THEOREM LoopInvariant == Loop \in Loops => (LoopSpec => []LoopInv)
<1> SUFFICES ASSUME Loop \in Loops PROVE LoopSpec => []LoopInv
  OBVIOUS
<1>1. LoopInit => LoopInv
  BY InitInv
<1>2. LoopInv /\ [LoopNext]_loopVars => LoopInv'
  BY LoopStep
<1> QED BY <1>1, <1>2, PTL DEF LoopSpec

(* Whoever takes the pieces and in whatever order: the function is run on  *)
(* no index twice, and on all of them by the time no piece is left.        *)
THEOREM LoopRunsEachIndexOnce == Loop \in Loops => (LoopSpec => []EachIndexOnce)
<1>1. LoopInv => EachIndexOnce
  BY DEF LoopInv, EachIndexOnce, RunsAreDone
<1> QED BY <1>1, LoopInvariant, PTL

(* No piece but the whole loop is smaller than half the grain.             *)
THEOREM LoopPiecesAreWorthATask == Loop \in Loops => (LoopSpec => []PiecesAreWorthATask)
<1>1. LoopInv => PiecesAreWorthATask
  BY DEF LoopInv
<1> QED BY <1>1, LoopInvariant, PTL

-----------------------------------------------------------------------------
(* The ring of tasks.                                                      *)

USE DEF Takers, Positions

(* Two positions less than a ring apart have different slots.              *)
LEMMA SlotsDiffer ==
  ASSUME NEW p \in Nat, NEW q \in Nat, p < q, q - p < Size
  PROVE  SlotOf(p) # SlotOf(q)
<1> DEFINE a == p \div Size
           b == q \div Size
<1>0. Size \in Nat \ {0}
  BY SizeAssumption
<1>1. /\ a \in Int /\ b \in Int
      /\ p = Size * a + (p % Size) /\ q = Size * b + (q % Size)
      /\ p % Size \in Int /\ q % Size \in Int
  BY <1>0, Z3T(30)
<1> HIDE DEF a, b
<1>2. SUFFICES ASSUME p % Size = q % Size PROVE FALSE
  BY DEF SlotOf
<1>3. q - p = Size * (b - a)
  BY <1>0, <1>1, <1>2
<1>4. \A d \in Int : d >= 1 => Size * d >= Size
  BY <1>0, Z3T(30)
<1>5. \A d \in Int : d <= 0 => Size * d <= 0
  BY <1>0, Z3T(30)
<1>6. b - a \in Int
  BY <1>1
<1> QED BY <1>0, <1>3, <1>4, <1>5, <1>6

(* Every position has a slot.                                              *)
LEMMA SlotInRing ==
  ASSUME NEW p \in Nat
  PROVE  SlotOf(p) \in 0..(Size - 1)
  BY SizeAssumption, Z3T(30) DEF SlotOf

-----------------------------------------------------------------------------
(* The variables keep their types, crowded or not.                         *)

(* A thread that returns leaves nothing of the call behind.                *)
LEMMA ReturnedTypes ==
  ASSUME TypeOK, NEW t \in Takers, Returned(t), tail' = tail
  PROVE  /\ pc' \in [Takers -> {"idle", "store", "look", "swap", "clear"}]
         /\ pos' \in [Takers -> Nat]
         /\ got' \in [Takers -> Positions \cup {NoTask}]
         /\ \A u \in Takers :
              /\ pc'[u] = "store" => u = Owner /\ pos'[u] < tail'
              /\ pc'[u] = "swap" => got'[u] # NoTask
  BY DEF TypeOK, Returned

LEMMA TypeStep ==
  ASSUME TypeOK, [Next]_vars
  PROVE  TypeOK'
<1> USE MaxPushedAssumption, NoTaskAssumption, ThreadsAssumption
<1>1. CASE PushClaim
  BY <1>1 DEF TypeOK, PushClaim
<1>2. CASE PushStore
  <2>1. pos[Owner] \in Positions
    BY <1>2 DEF TypeOK, PushStore
  <2>2. slot' \in [0..(Size - 1) -> Positions \cup {NoTask}]
    BY <1>2, <2>1 DEF TypeOK, PushStore
  <2>3. UNCHANGED <<head, tail, taken, crowded>> /\ Returned(Owner)
    BY <1>2 DEF PushStore
  <2> QED BY <2>2, <2>3, ReturnedTypes DEF TypeOK
<1>3. ASSUME NEW t \in Takers, PopBegin(t)
      PROVE  TypeOK'
  BY <1>3 DEF TypeOK, PopBegin
<1>4. ASSUME NEW t \in Takers, PopLook(t)
      PROVE  TypeOK'
  <2>1. SlotOf(pos[t]) \in 0..(Size - 1)
    BY SlotInRing DEF TypeOK
  <2> QED BY <1>4, <2>1 DEF TypeOK, PopLook, Found
<1>5. ASSUME NEW t \in Takers, PopEmpty(t) \/ PopFail(t)
      PROVE  TypeOK'
  <2>1. UNCHANGED <<head, tail, slot, taken, crowded>> /\ Returned(t)
    BY <1>5 DEF PopEmpty, PopFail
  <2> QED BY <2>1, ReturnedTypes DEF TypeOK
<1>6. ASSUME NEW t \in Takers, PopSwap(t)
      PROVE  TypeOK'
  <2>1. taken' \in Seq(Positions)
    BY <1>6 DEF TypeOK, PopSwap
  <2> QED BY <1>6, <2>1 DEF TypeOK, PopSwap
<1>7. ASSUME NEW t \in Takers, PopClear(t)
      PROVE  TypeOK'
  <2>1. slot' \in [0..(Size - 1) -> Positions \cup {NoTask}]
    BY <1>7 DEF TypeOK, PopClear
  <2>2. UNCHANGED <<head, tail, taken, crowded>> /\ Returned(t)
    BY <1>7 DEF PopClear
  <2> QED BY <2>1, <2>2, ReturnedTypes DEF TypeOK
<1>8. CASE UNCHANGED vars
  BY <1>8 DEF TypeOK, vars
<1> QED BY <1>1, <1>2, <1>3, <1>4, <1>5, <1>6, <1>7, <1>8 DEF Next, PopStep

-----------------------------------------------------------------------------
(* push keeps the ring in order, as long as a slot is left over.           *)

LEMMA ClaimKeeps ==
  ASSUME TypeOK, RingInv, PushClaim, ~crowded'
  PROVE  RingInv'
<1>0. SlotToSpare(tail + 1)
  BY Zenon DEF PushClaim
<1> USE DEF TypeOK, RingInv, PushClaim
<1>1. head <= tail' /\ tail' = tail + 1 /\ SlotToSpare(tail + 1)
  BY <1>0
<1>2. SlotToSpare(tail)'
  BY <1>1 DEF SlotToSpare
<1>3. slot[SlotOf(tail)] = NoTask
  <2> DEFINE v == slot[SlotOf(tail)]
  <2>1. SUFFICES ASSUME v # NoTask PROVE FALSE
    OBVIOUS
  <2>2. SlotOf(tail) \in 0..(Size - 1)
    BY SlotInRing
  <2>3. v \in Nat /\ SlotOf(v) = SlotOf(tail) /\ v < tail
    BY <2>1, <2>2, MaxPushedAssumption DEF SlotsAreCurrent
  <2>4. tail - v < Size
    <3>1. CASE v >= head
      BY <3>1, <2>3, <1>1, SizeAssumption DEF SlotToSpare
    <3>2. CASE \E t \in Takers : pc[t] = "clear" /\ pos[t] = v
      <4>1. PICK t \in Takers : pc[t] = "clear" /\ pos[t] = v
        BY <3>2
      <4>2. tail + 1 - pos[t] < Size
        BY <4>1, <1>1 DEF SlotToSpare
      <4> QED BY <4>1, <4>2, <2>3, SizeAssumption
    <3>3. v >= head \/ \E t \in Takers : pc[t] = "clear" /\ pos[t] = v
      BY <2>1, <2>2 DEF SlotsAreCurrent
    <3> QED BY <3>1, <3>2, <3>3
  <2> QED BY <2>3, <2>4, SlotsDiffer
<1>4. InOrder'
  BY DEF InOrder
<1>5. WaitingIsStored'
  BY DEF WaitingIsStored
<1>6. SwapsAreCurrent'
  BY DEF SwapsAreCurrent
<1>7. ClearsAreOwn'
  BY DEF ClearsAreOwn
<1>8. SlotsAreCurrent'
  BY MaxPushedAssumption DEF SlotsAreCurrent
<1>9. StoreIsClaimed'
  BY <1>1, <1>3 DEF StoreIsClaimed
<1> QED BY <1>1, <1>2, <1>4, <1>5, <1>6, <1>7, <1>8, <1>9

LEMMA StoreKeeps ==
  ASSUME TypeOK, RingInv, PushStore
  PROVE  RingInv'
<1> USE DEF TypeOK, RingInv, PushStore, Returned, ClaimedSlot
<1> DEFINE p == tail - 1
<1>1. /\ pos[Owner] = p /\ p \in Nat /\ p \in Positions /\ head <= p
      /\ slot[SlotOf(p)] = NoTask
      /\ SlotOf(p) \in 0..(Size - 1)
      /\ slot' = [slot EXCEPT ![SlotOf(p)] = p]
  BY SlotInRing, MaxPushedAssumption DEF StoreIsClaimed
<1>2. \A i \in 0..(Size - 1) : slot'[i] = IF i = SlotOf(p) THEN p ELSE slot[i]
  BY <1>1
<1>3. SlotToSpare(tail)'
  BY DEF SlotToSpare
<1>4. InOrder'
  BY DEF InOrder
<1>5. WaitingIsStored'
  <2> SUFFICES ASSUME NEW q \in head..(tail - 1)
               PROVE  slot'[SlotOf(q)] = q
    BY DEF WaitingIsStored
  <2>1. CASE q = p
    BY <2>1, <1>1, <1>2
  <2>2. CASE q # p
    <3>1. q \in Nat
      OBVIOUS
    <3>2. SlotOf(q) \in 0..(Size - 1)
      BY <3>1, SlotInRing
    <3>3. slot[SlotOf(q)] = q
      BY <2>2, <1>1 DEF WaitingIsStored
    <3> QED BY <3>1, <3>2, <3>3, <1>1, <1>2, NoTaskAssumption
  <2> QED BY <2>1, <2>2
<1>6. SwapsAreCurrent'
  <2>0. \A t \in Takers : pc'[t] \in {"look", "swap"} => pos'[t] <= head
    BY DEF SwapsAreCurrent
  <2> SUFFICES ASSUME NEW t \in Takers, pc'[t] = "swap", pos'[t] = head
               PROVE  head < tail /\ got'[t] = head /\ slot'[SlotOf(head)] = head
    BY <2>0 DEF SwapsAreCurrent
  <2>1. t # Owner /\ pc[t] = "swap" /\ pos[t] = head /\ got'[t] = got[t]
    OBVIOUS
  <2>2. head < tail /\ got[t] = head /\ slot[SlotOf(head)] = head
    BY <2>1 DEF SwapsAreCurrent
  <2>3. SlotOf(head) \in 0..(Size - 1) /\ SlotOf(head) # SlotOf(p)
    BY <2>2, <1>1, SlotInRing, NoTaskAssumption
  <2> QED BY <2>1, <2>2, <2>3, <1>2
<1>7. ClearsAreOwn'
  <2> SUFFICES ASSUME NEW t \in Takers, pc'[t] = "clear"
               PROVE  /\ pos'[t] < head
                      /\ slot'[SlotOf(pos'[t])] = pos'[t]
                      /\ \A u \in Takers : pc'[u] = "clear" /\ pos'[u] = pos'[t] => u = t
    BY DEF ClearsAreOwn
  <2>1. t # Owner /\ pc[t] = "clear" /\ pos'[t] = pos[t]
    OBVIOUS
  <2>2. pos[t] < head /\ slot[SlotOf(pos[t])] = pos[t]
    BY <2>1 DEF ClearsAreOwn
  <2>3. SlotOf(pos[t]) \in 0..(Size - 1) /\ SlotOf(pos[t]) # SlotOf(p)
    BY <2>2, <1>1, SlotInRing, NoTaskAssumption
  <2>4. \A u \in Takers : pc'[u] = "clear" /\ pos'[u] = pos'[t] => u = t
    BY <2>1 DEF ClearsAreOwn
  <2> QED BY <2>1, <2>2, <2>3, <2>4, <1>2
<1>8. SlotsAreCurrent'
  <2> SUFFICES ASSUME NEW i \in 0..(Size - 1), slot'[i] # NoTask
               PROVE  /\ SlotOf(slot'[i]) = i
                      /\ slot'[i] < tail
                      /\ \/ slot'[i] >= head
                         \/ \E t \in Takers : pc'[t] = "clear" /\ pos'[t] = slot'[i]
    BY DEF SlotsAreCurrent
  <2>1. CASE i = SlotOf(p)
    BY <2>1, <1>1, <1>2
  <2>2. CASE i # SlotOf(p)
    <3>1. slot'[i] = slot[i]
      BY <2>2, <1>2
    <3>2. \A t \in Takers : pc[t] = "clear" => pc'[t] = "clear" /\ pos'[t] = pos[t]
      OBVIOUS
    <3> QED BY <3>1, <3>2 DEF SlotsAreCurrent
  <2> QED BY <2>1, <2>2
<1>9. StoreIsClaimed'
  BY DEF StoreIsClaimed
<1> QED BY <1>3, <1>4, <1>5, <1>6, <1>7, <1>8, <1>9

-----------------------------------------------------------------------------
(* pop.                                                                    *)

(* The steps that only look, or give up.                                   *)
LEMMA BeginKeeps ==
  ASSUME TypeOK, RingInv, NEW t \in Takers, PopBegin(t)
  PROVE  RingInv'
<1> USE DEF TypeOK, RingInv, PopBegin
<1>1. SlotToSpare(tail)' /\ InOrder'
  BY DEF SlotToSpare, InOrder
<1>2. WaitingIsStored' /\ StoreIsClaimed'
  BY DEF WaitingIsStored, StoreIsClaimed
<1>3. SwapsAreCurrent'
  BY DEF SwapsAreCurrent
<1>4. ClearsAreOwn'
  BY DEF ClearsAreOwn
<1>5. SlotsAreCurrent'
  BY DEF SlotsAreCurrent
<1> QED BY <1>1, <1>2, <1>3, <1>4, <1>5

LEMMA GiveUpKeeps ==
  ASSUME TypeOK, RingInv, NEW t \in Takers, PopEmpty(t) \/ PopFail(t)
  PROVE  RingInv'
<1>1. /\ pc[t] \in {"look", "swap"} /\ Returned(t)
      /\ UNCHANGED <<head, tail, slot, taken, crowded>>
  BY DEF PopEmpty, PopFail
<1> USE <1>1 DEF TypeOK, RingInv, Returned
<1>2. SlotToSpare(tail)' /\ InOrder'
  BY DEF SlotToSpare, InOrder
<1>3. WaitingIsStored' /\ StoreIsClaimed'
  BY DEF WaitingIsStored, StoreIsClaimed
<1>4. SwapsAreCurrent'
  BY DEF SwapsAreCurrent
<1>5. ClearsAreOwn'
  BY DEF ClearsAreOwn
<1>6. SlotsAreCurrent'
  BY DEF SlotsAreCurrent
<1> QED BY <1>2, <1>3, <1>4, <1>5, <1>6

(* What is found in the slot of the head is the task of the head: an older *)
(* one would still be in the hands of the pop that has to clear it, more   *)
(* than a ring behind.                                                     *)
LEMMA HeadHoldsItsTask ==
  ASSUME TypeOK, RingInv, slot[SlotOf(head)] # NoTask
  PROVE  head < tail /\ slot[SlotOf(head)] = head
<1> DEFINE v == slot[SlotOf(head)]
<1> USE DEF TypeOK, RingInv
<1>1. SlotOf(head) \in 0..(Size - 1)
  BY SlotInRing
<1>2. v \in Nat /\ SlotOf(v) = SlotOf(head) /\ v < tail
  BY <1>1, MaxPushedAssumption DEF SlotsAreCurrent
<1>3. CASE v >= head
  <2>1. v - head < Size
    BY <1>2, <1>3, SizeAssumption DEF SlotToSpare
  <2>2. ~(head < v)
    BY <2>1, <1>2, SlotsDiffer
  <2> QED BY <1>2, <1>3, <2>2
<1>4. CASE ~(v >= head)
  <2>1. PICK t \in Takers : pc[t] = "clear" /\ pos[t] = v
    BY <1>1, <1>4 DEF SlotsAreCurrent
  <2>2. tail - v < Size
    BY <2>1 DEF SlotToSpare
  <2>3. v < head /\ head - v < Size
    BY <2>2, <1>2, <1>4, SizeAssumption
  <2> QED BY <2>3, <1>2, SlotsDiffer
<1> QED BY <1>3, <1>4

LEMMA LookKeeps ==
  ASSUME TypeOK, RingInv, NEW t \in Takers, PopLook(t)
  PROVE  RingInv'
<1> USE DEF TypeOK, RingInv, PopLook
<1>1. SlotToSpare(tail)' /\ InOrder'
  BY DEF SlotToSpare, InOrder
<1>2. WaitingIsStored' /\ StoreIsClaimed'
  BY DEF WaitingIsStored, StoreIsClaimed
<1>3. SwapsAreCurrent'
  <2>1. \A u \in Takers \ {t} : pc'[u] = pc[u] /\ got'[u] = got[u]
    OBVIOUS
  <2>2. pos[t] <= head
    BY DEF SwapsAreCurrent
  <2>3. pos[t] = head => head < tail /\ got'[t] = head /\ slot[SlotOf(head)] = head
    BY HeadHoldsItsTask DEF Found
  <2> QED BY <2>1, <2>2, <2>3 DEF SwapsAreCurrent
<1>4. ClearsAreOwn'
  BY DEF ClearsAreOwn
<1>5. SlotsAreCurrent'
  BY DEF SlotsAreCurrent
<1> QED BY <1>1, <1>2, <1>3, <1>4, <1>5

LEMMA SwapKeeps ==
  ASSUME TypeOK, RingInv, NEW t \in Takers, PopSwap(t)
  PROVE  RingInv'
<1> USE DEF TypeOK, RingInv, PopSwap, HeadUnmoved
<1>1. /\ pos[t] = head /\ head' = head + 1 /\ head < tail
      /\ got[t] = head /\ slot[SlotOf(head)] = head
  BY DEF SwapsAreCurrent
<1>2. \A u \in Takers : u # t => pc'[u] = pc[u]
  OBVIOUS
<1>3. SlotToSpare(tail)'
  BY <1>1, <1>2, SizeAssumption DEF SlotToSpare
<1>4. InOrder'
  <2>1. Len(taken') = head'
    BY <1>1 DEF InOrder
  <2>2. \A i \in 1..head' : taken'[i] = i - 1
    BY <1>1 DEF InOrder
  <2> QED BY <2>1, <2>2 DEF InOrder
<1>5. WaitingIsStored'
  BY <1>1 DEF WaitingIsStored
<1>6. SwapsAreCurrent'
  BY <1>1, <1>2 DEF SwapsAreCurrent
<1>7. ClearsAreOwn'
  BY <1>1, <1>2 DEF ClearsAreOwn
<1>8. SlotsAreCurrent'
  <2> SUFFICES ASSUME NEW i \in 0..(Size - 1), slot[i] # NoTask
               PROVE  /\ SlotOf(slot[i]) = i
                      /\ slot[i] < tail
                      /\ \/ slot[i] >= head'
                         \/ \E u \in Takers : pc'[u] = "clear" /\ pos'[u] = slot[i]
    BY DEF SlotsAreCurrent
  <2>1. slot[i] \in Nat /\ SlotOf(slot[i]) = i /\ slot[i] < tail
    BY MaxPushedAssumption DEF SlotsAreCurrent
  <2>2. CASE slot[i] = head
    BY <2>1, <2>2, <1>1
  <2>3. CASE slot[i] > head
    BY <2>1, <2>3, <1>1
  <2>4. CASE slot[i] < head
    <3>1. PICK u \in Takers : pc[u] = "clear" /\ pos[u] = slot[i]
      BY <2>1, <2>4 DEF SlotsAreCurrent
    <3> QED BY <3>1, <2>1, <1>2
  <2> QED BY <2>1, <2>2, <2>3, <2>4
<1>9. StoreIsClaimed'
  <2> SUFFICES ASSUME pc'[Owner] = "store"
               PROVE  pos[Owner] = tail - 1 /\ head' < tail /\ slot[SlotOf(pos[Owner])] = NoTask
    BY DEF StoreIsClaimed
  <2>1. pos[Owner] = tail - 1 /\ slot[SlotOf(pos[Owner])] = NoTask
    BY DEF StoreIsClaimed
  <2> QED BY <2>1, <1>1, NoTaskAssumption
<1> QED BY <1>1, <1>3, <1>4, <1>5, <1>6, <1>7, <1>8, <1>9

LEMMA ClearKeeps ==
  ASSUME TypeOK, RingInv, NEW t \in Takers, PopClear(t)
  PROVE  RingInv'
<1> DEFINE p == pos[t]
<1> USE DEF TypeOK, RingInv, PopClear, Returned, WonSlot
<1>1. /\ p \in Nat /\ p < head /\ slot[SlotOf(p)] = p
      /\ tail - p < Size
      /\ \A u \in Takers : pc[u] = "clear" /\ pos[u] = p => u = t
  BY DEF ClearsAreOwn, SlotToSpare
<1>2. SlotOf(p) \in 0..(Size - 1)
  BY <1>1, SlotInRing
<1>3. \A i \in 0..(Size - 1) : slot'[i] = IF i = SlotOf(p) THEN NoTask ELSE slot[i]
  OBVIOUS
<1>4. \A u \in Takers : u # t => pc'[u] = pc[u] /\ pos'[u] = pos[u] /\ got'[u] = got[u]
  OBVIOUS
<1>5. pc'[t] = "idle"
  OBVIOUS
(* A task in another slot stays where it is.                               *)
<1>6. ASSUME NEW q \in Nat, slot[SlotOf(q)] = q, q # p
      PROVE  slot'[SlotOf(q)] = q
  <2>1. SlotOf(q) \in 0..(Size - 1)
    BY SlotInRing
  <2> QED BY <2>1, <1>1, <1>3, <1>6
<1> HIDE DEF p
<1>7. SlotToSpare(tail)' /\ InOrder'
  BY <1>4, <1>5 DEF SlotToSpare, InOrder
<1>8. WaitingIsStored'
  <2> SUFFICES ASSUME NEW q \in head..(tail - 1)
               PROVE  slot'[SlotOf(q)] = q \/ (pc'[Owner] = "store" /\ pos'[Owner] = q)
    BY DEF WaitingIsStored
  <2>1. q \in Nat /\ q # p
    BY <1>1
  <2>2. CASE slot[SlotOf(q)] = q
    BY <2>1, <2>2, <1>6
  <2>3. CASE pc[Owner] = "store" /\ pos[Owner] = q
    BY <2>3, <1>4
  <2> QED BY <2>2, <2>3 DEF WaitingIsStored
<1>9. SwapsAreCurrent'
  <2> SUFFICES ASSUME NEW u \in Takers
               PROVE  /\ pc'[u] \in {"look", "swap"} => pos'[u] <= head
                      /\ pc'[u] = "swap" /\ pos'[u] = head =>
                           /\ head < tail
                           /\ got'[u] = head
                           /\ slot'[SlotOf(head)] = head
    BY DEF SwapsAreCurrent
  <2>1. CASE u = t
    BY <2>1, <1>5
  <2>2. CASE u # t
    BY <2>2, <1>1, <1>4, <1>6 DEF SwapsAreCurrent
  <2> QED BY <2>1, <2>2
<1>10. ClearsAreOwn'
  <2> SUFFICES ASSUME NEW u \in Takers, pc'[u] = "clear"
               PROVE  /\ pos'[u] < head
                      /\ slot'[SlotOf(pos'[u])] = pos'[u]
                      /\ \A w \in Takers : pc'[w] = "clear" /\ pos'[w] = pos'[u] => w = u
    BY DEF ClearsAreOwn
  <2>1. u # t /\ pc[u] = "clear" /\ pos'[u] = pos[u]
    BY <1>4, <1>5
  <2>2. pos[u] \in Nat /\ pos[u] < head /\ slot[SlotOf(pos[u])] = pos[u] /\ pos[u] # p
    BY <2>1, <1>1 DEF ClearsAreOwn
  <2>3. slot'[SlotOf(pos[u])] = pos[u]
    BY <2>2, <1>6
  <2>4. \A w \in Takers : pc'[w] = "clear" /\ pos'[w] = pos'[u] => w = u
    BY <2>1, <1>4, <1>5 DEF ClearsAreOwn
  <2> QED BY <2>1, <2>2, <2>3, <2>4
<1>11. SlotsAreCurrent'
  <2> SUFFICES ASSUME NEW i \in 0..(Size - 1), slot'[i] # NoTask
               PROVE  /\ SlotOf(slot'[i]) = i
                      /\ slot'[i] < tail
                      /\ \/ slot'[i] >= head
                         \/ \E u \in Takers : pc'[u] = "clear" /\ pos'[u] = slot'[i]
    BY DEF SlotsAreCurrent
  <2>1. i # SlotOf(p) /\ slot'[i] = slot[i]
    BY <1>3
  <2>2. SlotOf(slot[i]) = i /\ slot[i] < tail /\ slot[i] # p
    BY <2>1 DEF SlotsAreCurrent
  <2>3. CASE slot[i] >= head
    BY <2>1, <2>2, <2>3
  <2>4. CASE \E u \in Takers : pc[u] = "clear" /\ pos[u] = slot[i]
    <3>1. PICK u \in Takers : pc[u] = "clear" /\ pos[u] = slot[i]
      BY <2>4
    <3>2. u # t
      BY <3>1, <2>2 DEF p
    <3> QED BY <3>1, <3>2, <2>1, <2>2, <1>4
  <2> QED BY <2>1, <2>3, <2>4 DEF SlotsAreCurrent
<1>12. StoreIsClaimed'
  <2> SUFFICES ASSUME pc'[Owner] = "store"
               PROVE  pos'[Owner] = tail - 1 /\ head < tail /\ slot'[SlotOf(pos'[Owner])] = NoTask
    BY DEF StoreIsClaimed
  <2>1. pc[Owner] = "store" /\ pos'[Owner] = pos[Owner]
    BY <1>4, <1>5
  <2>2. pos[Owner] = tail - 1 /\ head < tail /\ slot[SlotOf(pos[Owner])] = NoTask
    BY <2>1 DEF StoreIsClaimed
  <2>3. pos[Owner] \in Nat /\ SlotOf(pos[Owner]) \in 0..(Size - 1)
    BY SlotInRing
  <2> QED BY <2>1, <2>2, <2>3, <1>3
<1> QED BY <1>7, <1>8, <1>9, <1>10, <1>11, <1>12

-----------------------------------------------------------------------------
LEMMA NextIInv ==
  ASSUME IInv, [Next]_vars
  PROVE  IInv'
<1>1. TypeOK /\ TypeOK'
  BY TypeStep DEF IInv
<1> SUFFICES ASSUME ~crowded' PROVE RingInv'
  BY <1>1 DEF IInv
<1>2. CASE PushClaim
  <2>1. ~crowded
    BY <1>2, Zenon DEF PushClaim
  <2> QED BY <2>1, <1>1, <1>2, ClaimKeeps DEF IInv
<1>3. CASE PushStore
  BY <1>1, <1>3, StoreKeeps DEF IInv, PushStore
<1>4. ASSUME NEW t \in Takers, PopStep(t)
      PROVE  RingInv'
  <2>1. ~crowded
    BY <1>4 DEF PopStep, PopBegin, PopLook, PopEmpty, PopSwap, PopFail, PopClear
  <2>2. RingInv
    BY <2>1 DEF IInv
  <2> QED BY <2>2, <1>1, <1>4, BeginKeeps, LookKeeps, GiveUpKeeps, SwapKeeps, ClearKeeps
          DEF PopStep
<1>5. CASE UNCHANGED vars
  <2>1. RingInv
    BY <1>5 DEF vars, IInv
  <2> QED BY <2>1, <1>5
       DEF vars, RingInv, SlotToSpare, InOrder, WaitingIsStored, SwapsAreCurrent,
           ClearsAreOwn, SlotsAreCurrent, StoreIsClaimed
<1> QED BY <1>2, <1>3, <1>4, <1>5 DEF Next

LEMMA InitIInv ==
  ASSUME Init
  PROVE  IInv
<1> USE SizeAssumption, MaxPushedAssumption DEF Init
<1>1. TypeOK
  <2>1. taken \in Seq(Positions)
    OBVIOUS
  <2>2. slot \in [0..(Size - 1) -> Positions \cup {NoTask}]
    OBVIOUS
  <2>3. got \in [Takers -> Positions \cup {NoTask}]
    OBVIOUS
  <2>4. /\ pc \in [Takers -> {"idle", "store", "look", "swap", "clear"}]
        /\ pos \in [Takers -> Nat]
    OBVIOUS
  <2>5. \A t \in Takers :
           /\ pc[t] = "store" => t = Owner /\ pos[t] < tail
           /\ pc[t] = "swap" => got[t] # NoTask
    OBVIOUS
  <2>6. head \in Nat /\ tail \in 0..MaxPushed
    OBVIOUS
  <2>7. crowded \in BOOLEAN
    BY Zenon
  <2> HIDE DEF Init
  <2> QED BY <2>1, <2>2, <2>3, <2>4, <2>5, <2>6, <2>7 DEF TypeOK
<1>2. SlotToSpare(tail) /\ InOrder /\ WaitingIsStored
  BY DEF SlotToSpare, InOrder, WaitingIsStored
<1>3. SwapsAreCurrent /\ ClearsAreOwn /\ StoreIsClaimed
  BY DEF SwapsAreCurrent, ClearsAreOwn, StoreIsClaimed
<1>4. SlotsAreCurrent
  BY DEF SlotsAreCurrent
<1> QED BY <1>1, <1>2, <1>3, <1>4 DEF IInv, RingInv

(* In every reachable state, until as many positions as slots are in use   *)
(* at once, the ring, the pops under way and the push agree.               *)
THEOREM RingInvariant == Spec => []IInv
<1>1. Init => IInv
  BY InitIInv
<1>2. IInv /\ [Next]_vars => IInv'
  BY NextIInv
<1> QED BY <1>1, <1>2, PTL DEF Spec

(* Every variable of the ring keeps its type.                              *)
THEOREM RingTypeCorrect == Spec => []TypeOK
<1>1. IInv => TypeOK
  BY DEF IInv
<1> QED BY <1>1, RingInvariant, PTL

(* Until then, no task is handed out twice, and they come in order.        *)
THEOREM TasksAreTakenOnce == Spec => []OnceAndInOrder
<1>1. IInv => OnceAndInOrder
  BY DEF IInv, RingInv, OnceAndInOrder
<1> QED BY <1>1, RingInvariant, PTL

(* Until then, no task is overwritten, cleared away or left where no pop   *)
(* finds it, and no task that was taken is found again.                    *)
THEOREM NoTaskIsLost == Spec => []NothingIsLost
<1>1. ASSUME IInv, ~crowded
      PROVE  /\ head <= tail
             /\ WaitingIsStored
             /\ (\A t \in Takers : pc[t] # "clear") =>
                  \A i \in 0..(Size - 1) : slot[i] # NoTask => slot[i] \in head..(tail - 1)
  <2> USE <1>1, MaxPushedAssumption DEF IInv, TypeOK, RingInv
  <2>1. head <= tail /\ WaitingIsStored
    OBVIOUS
  <2>2. ASSUME \A t \in Takers : pc[t] # "clear",
               NEW i \in 0..(Size - 1), slot[i] # NoTask
        PROVE  slot[i] \in head..(tail - 1)
    BY <2>2, SMTT(20) DEF SlotsAreCurrent
  <2> QED BY <2>1, <2>2
<1>2. IInv => NothingIsLost
  BY <1>1 DEF NothingIsLost
<1> QED BY <1>2, RingInvariant, PTL

(* Every step that moves the head hands out the oldest task.               *)
THEOREM OldestIsTaken == Spec => TakesTheOldest
<1> DEFINE Oldest == ~crowded' /\ head' # head =>
                       /\ head' = head + 1
                       /\ head < tail
                       /\ taken' = Append(taken, head)
<1>1. IInv /\ [Next]_vars => [Oldest]_vars
  <2> SUFFICES ASSUME IInv, Next, ~crowded', head' # head
               PROVE  /\ head' = head + 1
                      /\ head < tail
                      /\ taken' = Append(taken, head)
    BY DEF vars
  <2>1. PICK t \in Takers : PopSwap(t)
    BY DEF Next, PushClaim, PushStore, PopStep, PopBegin, PopLook, PopEmpty, PopFail, PopClear
  <2>2. RingInv
    BY <2>1 DEF IInv, PopSwap
  <2>3. head < tail /\ got[t] = head /\ pos[t] = head
    BY <2>1, <2>2 DEF RingInv, SwapsAreCurrent, PopSwap, HeadUnmoved
  <2> QED BY <2>1, <2>3 DEF PopSwap
<1> QED BY <1>1, RingInvariant, PTL DEF Spec, TakesTheOldest
=============================================================================
