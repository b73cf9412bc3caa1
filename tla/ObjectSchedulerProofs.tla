----------------------- MODULE ObjectSchedulerProofs -----------------------
(***************************************************************************)
(* Proofs about ObjectScheduler, for any finite set of things and any      *)
(* number of calls put off.  First what internal_Registration comes to:    *)
(* of the calls for an object only the last one counts, and it finds the   *)
(* lists fit for it.  That is an induction over the calls, carried out by  *)
(* looking at the first call that would break it (LeastNatural).  Then the *)
(* books, the loop over ItemsRT, and who waits, as one inductive invariant *)
(* each; and last what the runs check.                                     *)
(***************************************************************************)
EXTENDS ObjectScheduler, SequenceTheorems, FiniteSetTheorems, TLAPS

-----------------------------------------------------------------------------
(* What the calls that were put off come to.                               *)

IsCalls == registration \in Seq([op : BOOLEAN, rt : BOOLEAN, object : Things])
Same(i, k) == registration[i].object = registration[k].object
CallNumbers == 1..Len(registration)

\* k is the next call for the object of call i; i is the first one, or the last.
Follows(i, k) == i < k /\ Same(i, k) /\ \A m \in (i + 1)..(k - 1) : ~Same(i, m)
FirstCall(i) == \A k \in 1..(i - 1) : ~Same(i, k)
FinalCall(i) == \A k \in (i + 1)..Len(registration) : ~Same(i, k)

\* Nobody registers an object twice.
Alternate ==
    \A i, k \in CallNumbers : Follows(i, k) /\ registration[i].op => ~registration[k].op

OnRT(q, o) == Contains(q.rt, o)
OnHeap(q, o) == o \in ThingsOf(q.normal)
Off(q, o) == ~OnRT(q, o) /\ ~OnHeap(q, o)

\* What is registered first is on no list, and what is taken off first is on the
\* one it is taken off, if on any.
FitsLists(q, i) ==
    LET e == registration[i]
    IN  IF e.op THEN Off(q, e.object)
        ELSE (OnRT(q, e.object) => e.rt) /\ (OnHeap(q, e.object) => ~e.rt)
Fit(q) == \A i \in CallNumbers : FirstCall(i) => FitsLists(q, i)

Distinct(s) == \A i, j \in 1..Len(s) : s[i] = s[j] => i = j
OneItemEach(list) == \A x, y \in list : x.object = y.object => x = y
IsLists(q) ==
    /\ q \in [rt : Seq(Things), normal : SUBSET [object : Things, due : Int],
               kind : [Things -> BOOLEAN], gone : SUBSET Nat, touched : SUBSET Things]
    /\ Distinct(q.rt) /\ OneItemEach(q.normal)

\* The states of the lists while the calls of registration are carried out.
IsRun(run, q) ==
    run = [i \in 0..Len(registration) |-> IF i = 0 THEN q ELSE CarriedOut(run[i - 1], i)]

\* Where an induction over the calls fails, it fails at a first one.
LEMMA LeastNatural ==
    ASSUME NEW S, S \subseteq Nat, S # {}
    PROVE  \E n \in S : \A k \in S : n <= k
<1>1. PICK n \in S : \A k \in S : <<k, n>> \notin OpToRel(<, Nat)
  BY NatLessThanWellFounded, WFMin
<1>2. \A k \in S : ~(k < n)
  BY <1>1 DEF OpToRel
<1> QED
  BY <1>2

\* The recursion that internal_Registration is modelled by has a solution.
LEMMA RunExists ==
    ASSUME NEW q, IsCalls
    PROVE  \E run : IsRun(run, q)
<1> DEFINE Upto(n, run) ==
             run = [i \in 0..n |-> IF i = 0 THEN q ELSE CarriedOut(run[i - 1], i)]
           Bad == {n \in Nat : \A run : ~Upto(n, run)}
<1>1. Len(registration) \in Nat
  BY DEF IsCalls
<1>2. Upto(0, [i \in 0..0 |-> q])
  OBVIOUS
<1>3. ASSUME NEW n \in Nat, n # 0, NEW run, Upto(n - 1, run)
      PROVE  n \notin Bad
  <2> DEFINE more == [i \in 0..n |-> IF i = n THEN CarriedOut(run[n - 1], n) ELSE run[i]]
  <2>1. \A i \in 0..(n - 1) : more[i] = run[i]
    OBVIOUS
  <2>2. \A i \in 0..n : more[i] = IF i = 0 THEN q ELSE CarriedOut(more[i - 1], i)
    <3>1. ASSUME NEW i \in 0..n, i # n
          PROVE  more[i] = IF i = 0 THEN q ELSE CarriedOut(more[i - 1], i)
      <4>1. i \in 0..(n - 1) /\ (i # 0 => i - 1 \in 0..(n - 1))
        BY <3>1
      <4>2. run[i] = IF i = 0 THEN q ELSE CarriedOut(run[i - 1], i)
        BY <1>3, <4>1
      <4> QED
        BY <2>1, <4>1, <4>2
    <3>2. more[n] = CarriedOut(more[n - 1], n)
      <4>1. n \in 0..n /\ n - 1 \in 0..(n - 1)
        BY <1>3
      <4> QED
        BY <2>1, <4>1
    <3> QED
      BY <1>3, <3>1, <3>2
  <2>3. Upto(n, more)
    <3>1. more = [i \in 0..n |-> more[i]]
      OBVIOUS
    <3> QED
      BY <2>2, <3>1
  <2> QED
    BY <2>3
<1>4. Bad = {}
  <2>1. SUFFICES ASSUME Bad # {} PROVE FALSE
    OBVIOUS
  <2>2. PICK n \in Bad : \A k \in Bad : n <= k
    <3>1. Bad \subseteq Nat
      OBVIOUS
    <3> HIDE DEF Bad
    <3> QED
      BY <2>1, <3>1, LeastNatural
  <2>3. n # 0
    BY <1>2, <2>2
  <2>4. n \in Nat /\ n - 1 \in Nat
    BY <2>2, <2>3
  <2>5. n - 1 \notin Bad
    <3> HIDE DEF Bad
    <3> QED
      BY <2>2, <2>4
  <2> QED
    BY <1>3, <2>2, <2>3, <2>4, <2>5
<1> QED
  BY <1>1, <1>4 DEF IsRun

\* And what it yields is the last state of that run.
LEMMA RunOfCalls ==
    ASSUME NEW q, IsCalls
    PROVE  \E run : /\ run[0] = q
                    /\ \A i \in 1..Len(registration) : run[i] = CarriedOut(run[i - 1], i)
                    /\ InternalRegistration(q) = run[Len(registration)]
<1>1. PICK some : IsRun(some, q)
  BY RunExists
<1> DEFINE run == CHOOSE run : IsRun(run, q)
<1>2. IsRun(run, q)
  BY <1>1
<1>3. InternalRegistration(q) = run[Len(registration)]
  BY DEF InternalRegistration, IsRun
<1> HIDE DEF run
<1>4. Len(registration) \in Nat
  BY DEF IsCalls
<1>5. run[0] = q /\ \A i \in 1..Len(registration) : run[i] = CarriedOut(run[i - 1], i)
  BY <1>2, <1>4 DEF IsRun
<1> QED
  BY <1>3, <1>5

\* After i calls: those that were not the last ones for their objects have had
\* no effect but that the objects are off the lists.
Registered(i) == {k \in 1..i : registration[k].op /\ FinalCall(k)}
OnAfter(q, o, i, rt, on) ==
    on <=> \/ \E k \in Registered(i) : registration[k].object = o /\ registration[k].rt = rt
           \/ /\ \A k \in 1..i : registration[k].object # o
              /\ IF rt THEN OnRT(q, o) ELSE OnHeap(q, o)
After(q, r, i) ==
    /\ IsLists(r)
    /\ r.gone = {k \in CallNumbers : \E j \in 1..i : registration[j].op /\ Follows(j, k)}
    /\ r.touched = {registration[k].object : k \in Registered(i)}
    /\ r.normal \subseteq q.normal \cup {Item(o, 0) : o \in Things}
    /\ \A o \in Things :
          /\ OnAfter(q, o, i, TRUE, OnRT(r, o))
          /\ OnAfter(q, o, i, FALSE, OnHeap(r, o))
          /\ \A k \in Registered(i) : registration[k].object = o => r.kind[o] = registration[k].rt
          /\ r.kind[o] = q.kind[o] \/ \E k \in Registered(i) : registration[k].object = o

\* Each call is one.
LEMMA CallTypes ==
    ASSUME IsCalls
    PROVE  /\ Len(registration) \in Nat
           /\ \A i \in CallNumbers :
                 registration[i] \in [op : BOOLEAN, rt : BOOLEAN, object : Things]
<1> DEFINE Entries == [op : BOOLEAN, rt : BOOLEAN, object : Things]
<1>1. registration \in Seq(Entries)
  BY DEF IsCalls
<1> HIDE DEF Entries
<1>2. Len(registration) \in Nat /\ \A i \in CallNumbers : registration[i] \in Entries
  BY <1>1 DEF CallNumbers
<1> QED
  BY <1>2 DEF Entries

\* What call i finds.
LEMMA BeforeCall ==
    ASSUME IsCalls, NEW q, Fit(q), NEW i \in CallNumbers, NEW r, After(q, r, i - 1)
    PROVE  LET e == registration[i]
           IN  /\ \A k \in 1..(i - 1) : Same(k, i) => Off(r, e.object)
               /\ e.op => Off(r, e.object)
               /\ ~e.op => (OnRT(r, e.object) => e.rt) /\ (OnHeap(r, e.object) => ~e.rt)
<1> DEFINE e == registration[i]
<1>1. e \in [op : BOOLEAN, rt : BOOLEAN, object : Things] /\ i \in 1..Len(registration)
  BY CallTypes DEF CallNumbers
<1>2. \A k \in Registered(i - 1) : registration[k].object # e.object
  BY <1>1, CallTypes DEF Registered, FinalCall, Same
<1>3. ASSUME NEW k \in 1..(i - 1), Same(k, i) PROVE Off(r, e.object)
  BY <1>1, <1>2, <1>3 DEF After, OnAfter, Off, Same
<1>4. CASE FirstCall(i)
  <2>1. FitsLists(q, i)
    BY <1>4 DEF Fit
  <2>2. (OnRT(r, e.object) => OnRT(q, e.object)) /\ (OnHeap(r, e.object) => OnHeap(q, e.object))
    BY <1>1, <1>2 DEF After, OnAfter
  <2> QED
    BY <1>3, <2>1, <2>2 DEF FitsLists, Off
<1>5. CASE ~FirstCall(i)
  <2>1. PICK k \in 1..(i - 1) : Same(k, i)
    BY <1>5 DEF FirstCall, Same
  <2> QED
    BY <1>3, <2>1 DEF Off
<1> QED
  BY <1>4, <1>5

\* What call i has to do.
LEMMA AfterCall ==
    ASSUME IsCalls, NEW q, NEW i \in CallNumbers, NEW r, After(q, r, i - 1), NEW s, IsLists(s),
           s.gone = r.gone \cup {k \in CallNumbers : registration[i].op /\ Follows(i, k)},
           s.normal \subseteq r.normal \cup {Item(o, 0) : o \in Things},
           \A o \in Things \ {registration[i].object} :
               /\ (OnRT(s, o) <=> OnRT(r, o)) /\ (OnHeap(s, o) <=> OnHeap(r, o))
               /\ s.kind[o] = r.kind[o],
           LET e == registration[i]
           IN  IF e.op /\ FinalCall(i)
               THEN /\ (OnRT(s, e.object) <=> e.rt) /\ (OnHeap(s, e.object) <=> ~e.rt)
                    /\ s.kind[e.object] = e.rt /\ s.touched = r.touched \cup {e.object}
               ELSE /\ Off(s, e.object)
                    /\ s.kind[e.object] = r.kind[e.object] /\ s.touched = r.touched
    PROVE  After(q, s, i)
<1> DEFINE e == registration[i]
<1>1. /\ e \in [op : BOOLEAN, rt : BOOLEAN, object : Things] /\ i \in 1..Len(registration)
      /\ 1..i = 1..(i - 1) \cup {i}
  BY CallTypes DEF CallNumbers
<1>2. /\ Registered(i) = Registered(i - 1) \cup (IF e.op /\ FinalCall(i) THEN {i} ELSE {})
      /\ \A k \in Registered(i - 1) : registration[k].object # e.object
  BY <1>1, CallTypes DEF Registered, FinalCall, Same
<1>3. s.gone = {k \in CallNumbers : \E j \in 1..i : registration[j].op /\ Follows(j, k)}
  BY <1>1 DEF After
<1>4. s.touched = {registration[k].object : k \in Registered(i)}
  BY <1>2 DEF After
<1>5. s.normal \subseteq q.normal \cup {Item(o, 0) : o \in Things}
  BY DEF After
<1>6. ASSUME NEW o \in Things, o # e.object
      PROVE  /\ OnAfter(q, o, i, TRUE, OnRT(s, o))
             /\ OnAfter(q, o, i, FALSE, OnHeap(s, o))
             /\ \A k \in Registered(i) : registration[k].object = o => s.kind[o] = registration[k].rt
             /\ s.kind[o] = q.kind[o] \/ \E k \in Registered(i) : registration[k].object = o
  BY <1>1, <1>2, <1>6 DEF After, OnAfter
<1>7. /\ OnAfter(q, e.object, i, TRUE, OnRT(s, e.object))
      /\ OnAfter(q, e.object, i, FALSE, OnHeap(s, e.object))
      /\ \A k \in Registered(i) :
            registration[k].object = e.object => s.kind[e.object] = registration[k].rt
      /\ \/ s.kind[e.object] = q.kind[e.object]
         \/ \E k \in Registered(i) : registration[k].object = e.object
  <2>1. CASE e.op /\ FinalCall(i)
    BY <1>1, <1>2, <2>1 DEF After, OnAfter
  <2>2. CASE ~(e.op /\ FinalCall(i))
    BY <1>1, <1>2, <2>2 DEF After, OnAfter, Off
  <2> QED
    BY <2>1, <2>2
<1> QED
  BY <1>3, <1>4, <1>5, <1>6, <1>7 DEF After

-----------------------------------------------------------------------------
(* The lists.                                                              *)

\* erase: of a list without duplicates all but the object stay, in their order.
LEMMA RemoveFirstIs ==
    ASSUME NEW s \in Seq(Things), Distinct(s), NEW o, Contains(s, o)
    PROVE  LET t == RemoveFirst(s, o)
           IN  /\ t \in Seq(Things) /\ Len(t) = Len(s) - 1 /\ Distinct(t)
               /\ \E k \in 1..Len(s) :
                     /\ s[k] = o
                     /\ \A j \in 1..Len(t) : t[j] = IF j < k THEN s[j] ELSE s[j + 1]
               /\ \A other : Contains(t, other) <=> Contains(s, other) /\ other # o
<1> DEFINE t == RemoveFirst(s, o)
           I == {i \in 1..Len(s) : s[i] = o}
           k == Min(I)
<1>1. k \in 1..Len(s) /\ s[k] = o
  <2>1. PICK i \in 1..Len(s) : I = {i} /\ s[i] = o
    BY DEF Contains, Distinct
  <2> QED
    BY <2>1 DEF Min
<1>2. t = SubSeq(s, 1, k - 1) \o SubSeq(s, k + 1, Len(s))
  <2>1. I # {}
    BY DEF Contains
  <2> QED
    BY <2>1 DEF RemoveFirst, RemoveAt, SelectInSeq, Contains
<1> HIDE DEF k, t
<1> DEFINE head == SubSeq(s, 1, k - 1)
           tail == SubSeq(s, k + 1, Len(s))
<1>3. /\ head \in Seq(Things) /\ Len(head) = k - 1
      /\ \A j \in 1..(k - 1) : head[j] = s[j]
  BY <1>1
<1>4. /\ tail \in Seq(Things) /\ Len(tail) = Len(s) - k
      /\ \A j \in 1..(Len(s) - k) : tail[j] = s[j + k]
  BY <1>1
<1>5. /\ t \in Seq(Things) /\ Len(t) = Len(s) - 1
      /\ \A j \in 1..Len(t) : t[j] = IF j < k THEN s[j] ELSE s[j + 1]
  <2>1. t = head \o tail
    BY <1>2
  <2> HIDE DEF head, tail
  <2>2. t \in Seq(Things) /\ Len(t) = Len(s) - 1 /\ Len(head) \in Nat
    <3>1. head \in Seq(Things) /\ tail \in Seq(Things)
      BY <1>3, <1>4
    <3>2. t \in Seq(Things) /\ Len(t) = Len(head) + Len(tail)
      BY <2>1, <3>1, ConcatProperties
    <3> QED
      BY <1>1, <1>3, <1>4, <3>1, <3>2
  <2>3. ASSUME NEW j \in 1..Len(t) PROVE t[j] = IF j < k THEN s[j] ELSE s[j + 1]
    <3>1. CASE j < k
      BY <1>1, <1>3, <1>4, <2>1, <2>2, <3>1
    <3>2. CASE j >= k
      <4>1. j - (k - 1) \in 1..(Len(s) - k) /\ t[j] = tail[j - (k - 1)]
        BY <1>1, <1>3, <1>4, <2>1, <2>2, <3>2
      <4> QED
        BY <1>1, <1>4, <2>2, <3>2, <4>1
    <3> QED
      BY <1>1, <2>2, <3>1, <3>2
  <2> QED
    BY <2>2, <2>3
<1>6. Distinct(t)
  <2> DEFINE from(j) == IF j < k THEN j ELSE j + 1
  <2>1. \A j \in 1..Len(t) : from(j) \in 1..Len(s) /\ t[j] = s[from(j)]
    BY <1>1, <1>5
  <2>2. ASSUME NEW i \in 1..Len(t), NEW j \in 1..Len(t), t[i] = t[j] PROVE i = j
    <3>1. from(i) = from(j)
      BY <2>1, <2>2 DEF Distinct
    <3> QED
      BY <1>1, <3>1
  <2> QED
    BY <2>2 DEF Distinct
<1>7. ASSUME NEW other PROVE Contains(t, other) <=> Contains(s, other) /\ other # o
  <2>1. ASSUME Contains(t, other) PROVE Contains(s, other) /\ other # o
    BY <1>1, <1>5, <2>1 DEF Contains, Distinct
  <2>2. ASSUME Contains(s, other), other # o PROVE Contains(t, other)
    <3>1. PICK j \in 1..Len(s) : s[j] = other
      BY <2>2 DEF Contains
    <3>2. j # k
      BY <1>1, <2>2, <3>1
    <3>3. CASE j < k
      BY <1>1, <1>5, <3>1, <3>3 DEF Contains
    <3>4. CASE j > k
      <4>1. j - 1 \in 1..Len(t) /\ t[j - 1] = s[j]
        BY <1>1, <1>5, <3>1, <3>4
      <4> QED
        BY <3>1, <4>1 DEF Contains
    <3> QED
      BY <1>1, <3>2, <3>3, <3>4
  <2> QED
    BY <2>1, <2>2
<1> QED
  BY <1>1, <1>5, <1>6, <1>7 DEF t

\* push_back of an object that is not on the list.
LEMMA AppendIs ==
    ASSUME NEW s \in Seq(Things), Distinct(s), NEW o \in Things, ~Contains(s, o)
    PROVE  /\ Append(s, o) \in Seq(Things) /\ Distinct(Append(s, o))
           /\ \A other : Contains(Append(s, o), other) <=> Contains(s, other) \/ other = o
<1> DEFINE t == Append(s, o)
<1>1. t \in Seq(Things) /\ Len(t) = Len(s) + 1 /\ t[Len(s) + 1] = o
  OBVIOUS
<1>2. \A i \in 1..Len(s) : t[i] = s[i]
  OBVIOUS
<1> HIDE DEF t
<1>3. Distinct(t)
  BY <1>1, <1>2 DEF Distinct, Contains
<1>4. ASSUME NEW other PROVE Contains(t, other) <=> Contains(s, other) \/ other = o
  BY <1>1, <1>2 DEF Contains
<1> QED
  BY <1>1, <1>3, <1>4 DEF t

\* internal_Unregister leaves the object on no list, if it looks on the right one.
LEMMA UnregisterIs ==
    ASSUME NEW q, IsLists(q), NEW e \in [op : BOOLEAN, rt : BOOLEAN, object : Things],
           OnRT(q, e.object) => e.rt, OnHeap(q, e.object) => ~e.rt
    PROVE  LET s == InternalUnregister(q, e)
           IN  /\ IsLists(s) /\ Off(s, e.object)
               /\ s.gone = q.gone /\ s.touched = q.touched /\ s.kind = q.kind
               /\ s.normal \subseteq q.normal
               /\ \A o \in Things \ {e.object} :
                     (OnRT(s, o) <=> OnRT(q, o)) /\ (OnHeap(s, o) <=> OnHeap(q, o))
<1> DEFINE s == InternalUnregister(q, e)
<1>1. CASE e.rt /\ OnRT(q, e.object)
  <2>1. s = [q EXCEPT !.rt = RemoveFirst(q.rt, e.object)]
    BY <1>1 DEF InternalUnregister, OnRT
  <2> DEFINE t == RemoveFirst(q.rt, e.object)
  <2>2. /\ t \in Seq(Things) /\ Distinct(t)
        /\ \A other : Contains(t, other) <=> Contains(q.rt, other) /\ other # e.object
    BY <1>1, RemoveFirstIs DEF IsLists, OnRT
  <2> HIDE DEF t
  <2>3. /\ IsLists(s) /\ s.rt = t /\ s.gone = q.gone /\ s.touched = q.touched /\ s.kind = q.kind
        /\ s.normal = q.normal
    BY <2>1, <2>2 DEF IsLists, t
  <2> QED
    BY <1>1, <2>2, <2>3 DEF Off, OnRT, OnHeap
<1>2. CASE e.rt /\ ~OnRT(q, e.object)
  <2>1. s = q
    BY <1>2 DEF InternalUnregister, OnRT, IsLists
  <2> QED
    BY <1>2, <2>1 DEF Off
<1>3. CASE ~e.rt
  <2>1. s = [q EXCEPT !.normal = Drop(q.normal, e.object)]
    BY <1>3 DEF InternalUnregister
  <2>2. /\ s.normal = {item \in q.normal : item.object # e.object}
        /\ IsLists(s) /\ s.rt = q.rt /\ s.gone = q.gone /\ s.touched = q.touched /\ s.kind = q.kind
    BY <2>1 DEF IsLists, Drop, OneItemEach
  <2> QED
    BY <1>3, <2>2 DEF Off, OnRT, OnHeap, ThingsOf
<1> QED
  BY <1>1, <1>2, <1>3

\* internal_Register puts it on the one that its b_RT says, if it was on none.
LEMMA RegisterIs ==
    ASSUME NEW q, IsLists(q), NEW e \in [op : BOOLEAN, rt : BOOLEAN, object : Things],
           Off(q, e.object)
    PROVE  LET s == InternalRegister(q, e)
           IN  /\ IsLists(s)
               /\ (OnRT(s, e.object) <=> e.rt) /\ (OnHeap(s, e.object) <=> ~e.rt)
               /\ s.kind[e.object] = e.rt /\ s.touched = q.touched \cup {e.object}
               /\ s.gone = q.gone /\ s.normal \subseteq q.normal \cup {Item(o, 0) : o \in Things}
               /\ \A o \in Things \ {e.object} :
                     /\ (OnRT(s, o) <=> OnRT(q, o)) /\ (OnHeap(s, o) <=> OnHeap(q, o))
                     /\ s.kind[o] = q.kind[o]
<1> DEFINE s == InternalRegister(q, e)
           rt == IF e.rt THEN Append(q.rt, e.object) ELSE q.rt
           normal == IF e.rt THEN q.normal ELSE q.normal \cup {Item(e.object, 0)}
<1>1. s = [q EXCEPT !.kind[e.object] = e.rt, !.touched = q.touched \cup {e.object},
                    !.rt = rt, !.normal = normal]
  BY DEF InternalRegister
<1>2. /\ rt \in Seq(Things) /\ Distinct(rt)
      /\ \A o \in Things : Contains(rt, o) <=> Contains(q.rt, o) \/ (e.rt /\ o = e.object)
  BY AppendIs DEF IsLists, Off, OnRT
<1>3. /\ normal \in SUBSET [object : Things, due : Int] /\ OneItemEach(normal)
      /\ \A o \in Things :
            o \in ThingsOf(normal) <=> o \in ThingsOf(q.normal) \/ (~e.rt /\ o = e.object)
  <2>1. CASE e.rt
    BY <2>1 DEF IsLists
  <2>2. CASE ~e.rt
    <3>1. /\ Item(e.object, 0) \in [object : Things, due : Int]
          /\ Item(e.object, 0).object = e.object
          /\ normal = q.normal \cup {Item(e.object, 0)}
      BY <2>2 DEF Item
    <3>2. \A item \in q.normal : item.object # e.object
      BY DEF Off, OnHeap, ThingsOf
    <3> HIDE DEF normal
    <3>3. OneItemEach(normal)
      BY <3>1, <3>2 DEF IsLists, OneItemEach
    <3>4. \A o \in Things : o \in ThingsOf(normal) <=> o \in ThingsOf(q.normal) \/ o = e.object
      BY <3>1 DEF ThingsOf
    <3> QED
      BY <2>2, <3>1, <3>3, <3>4 DEF IsLists
  <2> QED
    BY <2>1, <2>2
<1>4. normal \subseteq q.normal \cup {Item(o, 0) : o \in Things}
  OBVIOUS
<1> HIDE DEF rt, normal, s
<1>5. /\ s.rt = rt /\ s.normal = normal /\ s.gone = q.gone /\ s.touched = q.touched \cup {e.object}
      /\ s.kind = [q.kind EXCEPT ![e.object] = e.rt]
      /\ IsLists(s)
  BY <1>1, <1>2, <1>3 DEF IsLists
<1> QED
  BY <1>2, <1>3, <1>4, <1>5 DEF OnRT, OnHeap, Off, s, IsLists

\* One call more.
LEMMA OneCall ==
    ASSUME IsCalls, Alternate, NEW q, Fit(q), NEW i \in CallNumbers, NEW r, After(q, r, i - 1)
    PROVE  After(q, CarriedOut(r, i), i)
<1> DEFINE e == registration[i]
           s == CarriedOut(r, i)
           pairs == Pairs(i, r.gone)
           follower == {k \in CallNumbers : Follows(i, k)}
<1>1. /\ e \in [op : BOOLEAN, rt : BOOLEAN, object : Things] /\ i \in 1..Len(registration)
      /\ Len(registration) \in Nat
      /\ IsLists(r)
  BY CallTypes DEF CallNumbers, After
<1>2. i \in r.gone <=> \E j \in 1..(i - 1) : registration[j].op /\ Follows(j, i)
  BY DEF After
<1>3. \A k \in follower : k \notin r.gone
  <2>1. SUFFICES ASSUME NEW k \in follower, NEW j \in 1..(i - 1), Follows(j, k) PROVE FALSE
    BY DEF After
  <2>2. i \in (j + 1)..(k - 1) /\ Same(j, i)
    BY <1>1, <2>1 DEF Follows, Same, CallNumbers
  <2> QED
    BY <2>1, <2>2 DEF Follows
<1>4. FinalCall(i) <=> follower = {}
  <2>1. ASSUME ~FinalCall(i) PROVE follower # {}
    <3> DEFINE later == {k \in (i + 1)..Len(registration) : Same(i, k)}
    <3>1. later # {} /\ later \subseteq Nat
      BY <1>1, <2>1 DEF FinalCall
    <3>2. PICK k \in later : \A m \in later : k <= m
      <4> HIDE DEF later
      <4> QED
        BY <3>1, LeastNatural
    <3>3. Follows(i, k) /\ k \in CallNumbers
      BY <1>1, <3>2 DEF Follows, Same, CallNumbers
    <3> QED
      BY <3>3
  <2>2. ASSUME NEW k \in follower PROVE ~FinalCall(i)
    BY <1>1, <2>2 DEF Follows, FinalCall, CallNumbers
  <2> QED
    BY <2>1, <2>2
<1>5. CASE ~e.op /\ i \in r.gone
  <2>1. s = r
    BY <1>5 DEF CarriedOut
  <2>2. Off(r, e.object)
    BY <1>2, <1>5, BeforeCall DEF Follows
  <2> QED
    BY <1>1, <1>5, <2>1, <2>2, AfterCall
<1>6. CASE ~e.op /\ i \notin r.gone
  <2>1. s = InternalUnregister(r, e)
    BY <1>6 DEF CarriedOut
  <2>2. (OnRT(r, e.object) => e.rt) /\ (OnHeap(r, e.object) => ~e.rt)
    BY <1>6, BeforeCall
  <2> HIDE DEF s
  <2>3. /\ IsLists(s) /\ Off(s, e.object)
        /\ s.gone = r.gone /\ s.touched = r.touched /\ s.kind = r.kind
        /\ s.normal \subseteq r.normal
        /\ \A o \in Things \ {e.object} :
              (OnRT(s, o) <=> OnRT(r, o)) /\ (OnHeap(s, o) <=> OnHeap(r, o))
    BY <1>1, <2>1, <2>2, UnregisterIs
  <2> QED
    BY <1>6, <2>3, AfterCall DEF s
<1>7. CASE e.op
  <2>1. i \notin r.gone
    <3>1. ASSUME NEW j \in 1..(i - 1), registration[j].op, Follows(j, i) PROVE FALSE
      BY <1>1, <1>7, <3>1 DEF Alternate, CallNumbers
    <3> QED
      BY <1>2, <3>1
  <2>2. Off(r, e.object)
    BY <1>7, BeforeCall
  <2>3. CASE follower = {}
    <3>1. pairs = {}
      <4>1. FinalCall(i)
        BY <1>4, <2>3
      <4> QED
        BY <4>1 DEF Pairs, FinalCall, Same
    <3>2. s = InternalRegister(r, e)
      BY <1>7, <2>1, <3>1 DEF CarriedOut
    <3> HIDE DEF s
    <3>3. /\ IsLists(s)
          /\ (OnRT(s, e.object) <=> e.rt) /\ (OnHeap(s, e.object) <=> ~e.rt)
          /\ s.kind[e.object] = e.rt /\ s.touched = r.touched \cup {e.object}
          /\ s.gone = r.gone /\ s.normal \subseteq r.normal \cup {Item(o, 0) : o \in Things}
          /\ \A o \in Things \ {e.object} :
                /\ (OnRT(s, o) <=> OnRT(r, o)) /\ (OnHeap(s, o) <=> OnHeap(r, o))
                /\ s.kind[o] = r.kind[o]
      BY <1>1, <2>2, <3>2, RegisterIs
    <3> QED
      BY <1>4, <1>7, <2>3, <3>3, AfterCall DEF s
  <2>4. ASSUME NEW k \in follower PROVE After(q, s, i)
    <3>1. k \in CallNumbers /\ Follows(i, k) /\ ~registration[k].op
      BY <1>7 DEF Alternate
    <3>2. k \in pairs /\ \A m \in pairs : k <= m
      BY <1>1, <1>3, <3>1 DEF Pairs, Follows, Same, CallNumbers
    <3>3. Min(pairs) = k
      <4>1. pairs \subseteq Nat
        BY <1>1 DEF Pairs
      <4> QED
        BY <3>2, <4>1 DEF Min
    <3>4. s = [r EXCEPT !.gone = r.gone \cup {k}]
      BY <1>7, <2>1, <3>2, <3>3 DEF CarriedOut
    <3>5. follower = {k}
      <4>1. ASSUME NEW m \in follower PROVE m = k
        <5>1. i \in Nat /\ m \in Nat /\ k \in Nat /\ i < m /\ i < k /\ Same(i, m) /\ Same(i, k)
          BY <1>1, <3>1, <4>1 DEF Follows, CallNumbers
        <5>2. m \notin (i + 1)..(k - 1) /\ k \notin (i + 1)..(m - 1)
          BY <3>1, <4>1, <5>1 DEF Follows
        <5> QED
          BY <5>1, <5>2
      <4> QED
        BY <2>4, <4>1
    <3> HIDE DEF s, follower
    <3>6. /\ IsLists(s) /\ s.rt = r.rt /\ s.normal = r.normal /\ s.kind = r.kind
          /\ s.touched = r.touched /\ s.gone = r.gone \cup {k}
      BY <1>1, <3>1, <3>4 DEF IsLists, CallNumbers
    <3> QED
      BY <1>4, <1>7, <2>2, <3>5, <3>6, AfterCall DEF s, follower, Off, OnRT, OnHeap
  <2> QED
    BY <2>3, <2>4
<1> QED
  BY <1>5, <1>6, <1>7

\* All of them.
LEMMA AllCalls ==
    ASSUME IsCalls, Alternate, NEW q, IsLists(q), Fit(q), q.gone = {}, q.touched = {}
    PROVE  After(q, InternalRegistration(q), Len(registration))
<1>1. PICK run : /\ run[0] = q
                 /\ \A i \in 1..Len(registration) : run[i] = CarriedOut(run[i - 1], i)
                 /\ InternalRegistration(q) = run[Len(registration)]
  BY RunOfCalls
<1>2. After(q, q, 0)
  <2>1. Registered(0) = {}
    BY DEF Registered
  <2> QED
    BY <2>1 DEF After, OnAfter
<1> DEFINE Bad == {i \in 0..Len(registration) : ~After(q, run[i], i)}
<1>3. Bad = {}
  <2>1. SUFFICES ASSUME Bad # {} PROVE FALSE
    OBVIOUS
  <2>2. PICK n \in Bad : \A k \in Bad : n <= k
    <3>1. Bad \subseteq Nat
      BY CallTypes
    <3> HIDE DEF Bad
    <3> QED
      BY <2>1, <3>1, LeastNatural
  <2>3. n # 0
    BY <1>1, <1>2, <2>2
  <2>4. n \in CallNumbers /\ n - 1 \in 0..Len(registration) /\ ~(n <= n - 1)
    BY <2>2, <2>3, CallTypes DEF CallNumbers
  <2>5. After(q, run[n - 1], n - 1)
    BY <2>2, <2>4
  <2>6. run[n] = CarriedOut(run[n - 1], n)
    BY <1>1, <2>4 DEF CallNumbers
  <2>7. After(q, run[n], n)
    BY <2>4, <2>5, <2>6, OneCall
  <2> QED
    BY <2>2, <2>7
<1> QED
  BY <1>1, <1>3, CallTypes

-----------------------------------------------------------------------------
(* The inductive invariant.                                                *)

HasCalls(o) == \E i \in CallNumbers : registration[i].object = o
OnRTNow(o) == Contains(itemsRT, o)
OnHeapNow(o) == o \in ThingsOf(items) \/ o \in ThingsOf(processed) \/ o = current

Types ==
    /\ itemsRT \in Seq(Things) /\ pastEnd \in Seq(Things)
    /\ items \in SUBSET [object : Things, due : Int]
    /\ processed \in SUBSET [object : Things, due : Nat]
    /\ IsCalls
    /\ current \in {None, updating} /\ updating \in Things \cup {None}
    /\ isRT \in [Things -> BOOLEAN]
    /\ pc \in {"idle", "rt", "step", "overloaded"}
    /\ endRT \in Nat /\ nextRT \in 1..(endRT + 1)
    /\ life \in [Things -> {"live", "doomed", "dead"}]
    /\ wanted \subseteq Things /\ updatedNow \subseteq Things /\ movedNow \in BOOLEAN

\* What is empty when; and who is dead.
Phases ==
    /\ pc \in {"idle", "overloaded"} => updating = None
    /\ pc \in {"idle", "rt"} => processed = {} /\ current = None
    /\ pc = "idle" => updatedNow = {} /\ ~movedNow
    /\ pc # "rt" => pastEnd = <<>>
    /\ updating # None => life[updating] # "dead"
    /\ \A o \in wanted : life[o] # "dead"

OnceEach ==
    /\ Distinct(itemsRT) /\ OneItemEach(items) /\ OneItemEach(processed)
    /\ ThingsOf(items) \cap ThingsOf(processed) = {}
    /\ current \notin ThingsOf(items) \cup ThingsOf(processed)

\* The last call for an object says whether it is wanted, the first one what the
\* lists hold of it; in a frame nothing is put off but what the lists do not hold.
CallAgrees(i) ==
    LET e == registration[i]
    IN  /\ FinalCall(i) => (e.op <=> e.object \in wanted) /\ (e.op => e.rt = isRT[e.object])
        /\ FirstCall(i) =>
               IF e.op THEN ~OnRTNow(e.object) /\ ~OnHeapNow(e.object)
               ELSE (OnRTNow(e.object) => e.rt) /\ (OnHeapNow(e.object) => ~e.rt)
        /\ pc # "idle" =>
               /\ ~OnRTNow(e.object)
               /\ e.object \notin ThingsOf(items) /\ e.object # current
CallsAgree == Alternate /\ \A i \in CallNumbers : CallAgrees(i)

\* An object without calls is where it belongs.
ListsAgree ==
    \A o \in Things : ~HasCalls(o) =>
        /\ OnRTNow(o) => isRT[o] /\ o \in wanted
        /\ OnHeapNow(o) => ~isRT[o] /\ o \in wanted
        /\ o \in wanted /\ life[o] = "live" => OnRTNow(o) \/ OnHeapNow(o)

\* The first slot that the loop has still to come to.
Ahead == IF updating = None THEN nextRT ELSE nextRT + 1
LoopAgrees == pc = "rt" =>
    /\ Len(itemsRT) + Len(pastEnd) = endRT
    /\ updating # None => nextRT <= endRT
    /\ \A j \in Ahead..endRT : Contains(itemsRT, (itemsRT \o pastEnd)[j])
    /\ ~movedNow => /\ pastEnd = <<>>
                    /\ updating # None => itemsRT[nextRT] = updating

UpdatesAgree ==
    /\ ThingsOf(items) \cap updatedNow = {}
    /\ pc = "rt" /\ ~movedNow =>
           /\ \A o \in updatedNow : \E j \in 1..(Ahead - 1) : itemsRT[j] = o
           /\ \A j \in 1..(Ahead - 1) : life[itemsRT[j]] = "live" => itemsRT[j] \in updatedNow

\* The longer they wait the fewer they are, one less for each frame; one more
\* until the first of a frame is updated.
Late(k) == {item \in items : item.due <= -k}
Waiting == pc = "rt" \/ (pc = "step" /\ updating = None)
LateOnes ==
    \A k \in Nat \ {0} : Late(k) # {} =>
        Cardinality(Late(k)) + k <= Cardinality(Things) + (IF Waiting THEN 1 ELSE 0)

Books == Types /\ Phases /\ OnceEach /\ CallsAgree /\ ListsAgree
IInv == Books /\ LoopAgrees /\ UpdatesAgree

-----------------------------------------------------------------------------
(* Calls.                                                                  *)

\* Steps that put nothing off, that have carried all out, that put one more off.
LEMMA SameCalls ==
    ASSUME registration' = registration
    PROVE  /\ CallNumbers' = CallNumbers /\ (IsCalls' <=> IsCalls) /\ (Alternate' <=> Alternate)
           /\ \A i : (FirstCall(i)' <=> FirstCall(i)) /\ (FinalCall(i)' <=> FinalCall(i))
           /\ \A o : HasCalls(o)' <=> HasCalls(o)
  BY DEF CallNumbers, IsCalls, Alternate, Follows, Same, FirstCall, FinalCall, HasCalls

LEMMA NoCalls ==
    ASSUME registration' = <<>>
    PROVE  IsCalls' /\ CallNumbers' = {} /\ Alternate' /\ \A o : ~HasCalls(o)'
<1>1. CallNumbers' = {}
  BY DEF CallNumbers
<1> QED
  BY <1>1 DEF IsCalls, Alternate, HasCalls

LEMMA AddCall ==
    ASSUME IsCalls, Alternate, NEW e \in [op : BOOLEAN, rt : BOOLEAN, object : Things],
           registration' = Append(registration, e),
           e.op => \A i \in CallNumbers :
                      FinalCall(i) /\ registration[i].object = e.object => ~registration[i].op,
           NEW n, n = Len(registration) + 1
    PROVE  /\ IsCalls' /\ Alternate' /\ CallNumbers' = CallNumbers \cup {n} /\ n \notin CallNumbers
           /\ registration'[n] = e /\ \A i \in CallNumbers : registration'[i] = registration[i]
           /\ \A i \in CallNumbers :
                 /\ FirstCall(i)' <=> FirstCall(i)
                 /\ FinalCall(i)' <=> FinalCall(i) /\ registration[i].object # e.object
           /\ FinalCall(n)' /\ (FirstCall(n)' <=> ~HasCalls(e.object))
           /\ \A o : HasCalls(o)' <=> HasCalls(o) \/ o = e.object
<1>1. /\ n \in Nat /\ Len(registration) \in Nat /\ CallNumbers = 1..(n - 1)
      /\ \A i \in CallNumbers : registration[i] \in [op : BOOLEAN, rt : BOOLEAN, object : Things]
  BY CallTypes DEF CallNumbers
<1>2. IsCalls' /\ Len(registration') = n /\ registration'[n] = e
      /\ \A i \in CallNumbers : registration'[i] = registration[i]
  <2> DEFINE Entries == [op : BOOLEAN, rt : BOOLEAN, object : Things]
  <2>1. registration \in Seq(Entries) /\ e \in Entries
    BY DEF IsCalls
  <2> HIDE DEF Entries
  <2>2. /\ registration' \in Seq(Entries) /\ Len(registration') = n /\ registration'[n] = e
        /\ \A i \in 1..Len(registration) : registration'[i] = registration[i]
    BY <2>1
  <2> QED
    BY <2>2 DEF IsCalls, CallNumbers, Entries
<1>3. CallNumbers' = CallNumbers \cup {n} /\ n \notin CallNumbers
  BY <1>1, <1>2 DEF CallNumbers
<1>4. ASSUME NEW i \in CallNumbers
      PROVE  /\ FirstCall(i)' <=> FirstCall(i)
             /\ FinalCall(i)' <=> FinalCall(i) /\ registration[i].object # e.object
  <2>1. FirstCall(i)' <=> FirstCall(i)
    BY <1>1, <1>2 DEF FirstCall, Same
  <2>2. (i + 1)..n = ((i + 1)..(n - 1)) \cup {n}
    BY <1>1, i \in 1..(n - 1)
  <2>3. FinalCall(i)' <=> FinalCall(i) /\ registration[i].object # e.object
    BY <1>1, <1>2, <2>2 DEF FinalCall, Same
  <2> QED
    BY <2>1, <2>3
<1>5. FinalCall(n)' /\ (FirstCall(n)' <=> ~HasCalls(e.object))
  <2>1. FinalCall(n)'
    BY <1>1, <1>2 DEF FinalCall
  <2>2. FirstCall(n)' <=> ~HasCalls(e.object)
    BY <1>1, <1>2 DEF FirstCall, Same, HasCalls
  <2> QED
    BY <2>1, <2>2
<1>6. \A o : HasCalls(o)' <=> HasCalls(o) \/ o = e.object
  BY <1>1, <1>2, <1>3 DEF HasCalls
<1>7. Alternate'
  <2>1. SUFFICES ASSUME NEW i \in CallNumbers', NEW k \in CallNumbers',
                        Follows(i, k)', registration'[i].op
                 PROVE  ~registration'[k].op
    BY DEF Alternate
  <2>2. i \in CallNumbers /\ i < k
    BY <1>1, <1>3, <2>1 DEF Follows
  <2>3. CASE k \in CallNumbers
    <3>1. Follows(i, k)
      BY <1>1, <1>2, <2>1, <2>2, <2>3 DEF Follows, Same
    <3> QED
      BY <1>2, <2>1, <2>2, <2>3, <3>1 DEF Alternate
  <2>4. CASE k = n
    <3>1. FinalCall(i) /\ registration[i].object = e.object
      BY <1>1, <1>2, <2>1, <2>2, <2>4 DEF Follows, FinalCall, Same
    <3> QED
      BY <1>2, <2>1, <2>2, <2>4, <3>1
  <2> QED
    BY <1>3, <2>3, <2>4
<1> QED
  BY <1>2, <1>3, <1>4, <1>5, <1>6, <1>7

\* An object with calls has a last one.
LEMMA LastCall ==
    ASSUME IsCalls, NEW o, HasCalls(o)
    PROVE  \E i \in CallNumbers : FinalCall(i) /\ registration[i].object = o
<1> DEFINE n == Len(registration)
           back == {k \in 0..n : n - k \in CallNumbers /\ registration[n - k].object = o}
<1>1. n \in Nat
  BY CallTypes
<1>2. back # {} /\ back \subseteq Nat
  <2>1. PICK i \in CallNumbers : registration[i].object = o
    BY DEF HasCalls
  <2>2. n - i \in 0..n /\ n - (n - i) = i
    BY <1>1 DEF CallNumbers
  <2> QED
    BY <2>1, <2>2
<1>3. PICK k \in back : \A m \in back : k <= m
  <2> HIDE DEF back
  <2> QED
    BY <1>2, LeastNatural
<1>4. ASSUME NEW m \in (n - k + 1)..n, registration[m].object = o PROVE FALSE
  <2>1. n - m \in 0..n /\ n - (n - m) = m /\ m \in CallNumbers /\ ~(k <= n - m)
    BY <1>1, <1>3 DEF CallNumbers
  <2> QED
    BY <1>3, <1>4, <2>1
<1>5. FinalCall(n - k)
  BY <1>3, <1>4 DEF FinalCall, Same
<1> QED
  BY <1>3, <1>5

\* The lists when the calls have been carried out: an object with calls is where
\* the last of them put it, any other where it was.
LEMMA Carried ==
    ASSUME Books, NEW normal \in SUBSET [object : Things, due : Int], OneItemEach(normal),
           \A o \in Things : o \in ThingsOf(normal) <=> OnHeapNow(o)
    PROVE  LET r == InternalRegistration([Lists EXCEPT !.normal = normal])
           IN  /\ IsLists(r) /\ r.kind = isRT
               /\ r.touched \subseteq wanted
               /\ r.normal \subseteq normal \cup {Item(o, 0) : o \in Things}
               /\ \A o \in Things :
                     /\ OnRT(r, o) => isRT[o] /\ o \in wanted
                     /\ OnHeap(r, o) => ~isRT[o] /\ o \in wanted
                     /\ o \in wanted /\ life[o] = "live" => OnRT(r, o) \/ OnHeap(r, o)
<1> DEFINE q == [Lists EXCEPT !.normal = normal]
           n == Len(registration)
           r == InternalRegistration(q)
<1>1. /\ q.rt = itemsRT /\ q.normal = normal /\ q.kind = isRT /\ q.gone = {} /\ q.touched = {}
      /\ q \in [rt : Seq(Things), normal : SUBSET [object : Things, due : Int],
                kind : [Things -> BOOLEAN], gone : SUBSET Nat, touched : SUBSET Things]
  BY DEF Lists, Books, Types
<1> HIDE DEF q
<1>2. IsLists(q)
  BY <1>1 DEF IsLists, Books, OnceEach
<1>3. \A o \in Things : (OnRT(q, o) <=> OnRTNow(o)) /\ (OnHeap(q, o) <=> OnHeapNow(o))
  BY <1>1 DEF OnRT, OnHeap, OnRTNow
<1>4. Fit(q)
  <2>1. SUFFICES ASSUME NEW i \in CallNumbers, FirstCall(i) PROVE FitsLists(q, i)
    BY DEF Fit
  <2>2. registration[i].object \in Things
    BY CallTypes DEF Books, Types
  <2> QED
    BY <1>3, <2>1, <2>2 DEF FitsLists, Off, Books, CallsAgree, CallAgrees
<1>5. After(q, r, n)
  BY <1>1, <1>2, <1>4, AllCalls DEF Books, Types, CallsAgree
<1> HIDE DEF r
<1>6. \A k \in Registered(n) : /\ registration[k].object \in wanted
                               /\ registration[k].rt = isRT[registration[k].object]
                               /\ registration[k].object \in Things
                               /\ HasCalls(registration[k].object)
  BY CallTypes DEF Registered, Books, CallsAgree, CallAgrees, CallNumbers, HasCalls, Types
<1>7. ASSUME NEW o \in Things, HasCalls(o), o \in wanted
      PROVE  \E k \in Registered(n) : registration[k].object = o
  <2>1. PICK i \in CallNumbers : FinalCall(i) /\ registration[i].object = o
    BY <1>7, LastCall DEF Books, Types
  <2> QED
    BY <1>7, <2>1 DEF Books, CallsAgree, CallAgrees, Registered, CallNumbers
<1>8. r.kind = isRT
  <2>1. ASSUME NEW o \in Things PROVE r.kind[o] = isRT[o]
    <3>1. CASE \E k \in Registered(n) : registration[k].object = o
      <4>1. PICK k \in Registered(n) : registration[k].object = o
        BY <3>1
      <4>2. r.kind[o] = registration[k].rt
        BY <1>5, <4>1 DEF After
      <4> QED
        BY <1>6, <4>1, <4>2
    <3>2. CASE \A k \in Registered(n) : registration[k].object # o
      <4>1. r.kind[o] = q.kind[o]
        BY <1>5, <3>2 DEF After
      <4> QED
        BY <1>1, <4>1
    <3> QED
      BY <3>1, <3>2
  <2>2. r.kind \in [Things -> BOOLEAN] /\ isRT \in [Things -> BOOLEAN]
    BY <1>5 DEF After, IsLists, Books, Types
  <2> QED
    BY <2>1, <2>2
<1>9. IsLists(r) /\ r.touched \subseteq wanted /\ r.normal \subseteq normal \cup {Item(o, 0) : o \in Things}
  BY <1>1, <1>5, <1>6 DEF After
<1>10. ASSUME NEW o \in Things
       PROVE  /\ OnRT(r, o) => isRT[o] /\ o \in wanted
              /\ OnHeap(r, o) => ~isRT[o] /\ o \in wanted
              /\ o \in wanted /\ life[o] = "live" => OnRT(r, o) \/ OnHeap(r, o)
  <2>1. (\A k \in 1..n : registration[k].object # o) <=> ~HasCalls(o)
    BY DEF HasCalls, CallNumbers
  <2>2. OnAfter(q, o, n, TRUE, OnRT(r, o)) /\ OnAfter(q, o, n, FALSE, OnHeap(r, o))
    BY <1>5 DEF After
  <2>3. CASE HasCalls(o)
    <3>1. /\ OnRT(r, o) <=> \E k \in Registered(n) : registration[k].object = o /\ registration[k].rt = TRUE
          /\ OnHeap(r, o) <=> \E k \in Registered(n) : registration[k].object = o /\ registration[k].rt = FALSE
      BY <2>1, <2>2, <2>3 DEF OnAfter
    <3>2. isRT[o] \in BOOLEAN
      BY DEF Books, Types
    <3> QED
      BY <1>6, <1>7, <2>3, <3>1, <3>2
  <2>4. CASE ~HasCalls(o)
    <3>1. (OnRT(r, o) <=> OnRTNow(o)) /\ (OnHeap(r, o) <=> OnHeapNow(o))
      BY <1>3, <1>6, <2>1, <2>2, <2>4 DEF OnAfter
    <3> QED
      BY <2>4, <3>1 DEF Books, ListsAgree
  <2> QED
    BY <2>3, <2>4
<1> QED
  BY <1>8, <1>9, <1>10 DEF r, q

-----------------------------------------------------------------------------
(* The books.                                                              *)

\* A step that puts nothing off and nothing on a list.
LEMMA BooksKept ==
    ASSUME Books, registration' = registration, wanted' = wanted, Types', Phases', OnceEach',
           \A o \in Things :
               /\ OnRTNow(o)' => OnRTNow(o)
               /\ OnHeapNow(o)' => OnHeapNow(o)
               /\ pc' # "idle" =>
                      /\ pc # "idle"
                      /\ o \in ThingsOf(items)' => o \in ThingsOf(items)
                      /\ o = current' => o \in ThingsOf(items) \/ o = current,
           \A o \in wanted :
               /\ isRT'[o] = isRT[o]
               /\ life'[o] = "live" => life[o] = "live"
               /\ OnRTNow(o) \/ OnHeapNow(o) => OnRTNow(o)' \/ OnHeapNow(o)' \/ life'[o] # "live"
    PROVE  Books'
<1>1. /\ CallNumbers' = CallNumbers /\ (IsCalls' <=> IsCalls) /\ (Alternate' <=> Alternate)
      /\ \A i : (FirstCall(i)' <=> FirstCall(i)) /\ (FinalCall(i)' <=> FinalCall(i))
      /\ \A o : HasCalls(o)' <=> HasCalls(o)
  BY SameCalls
<1>2. \A i \in CallNumbers : registration[i].object \in Things /\ registration[i].op \in BOOLEAN
  BY CallTypes DEF Books, Types
<1>3. CallsAgree'
  BY <1>1, <1>2 DEF CallsAgree, CallAgrees, Books
<1>4. ListsAgree'
  BY <1>1 DEF ListsAgree, Books
<1> QED
  BY <1>3, <1>4 DEF Books

\* A step that puts one call off.
LEMMA BooksAfterCall ==
    ASSUME Books, NEW o \in Things, NEW op \in BOOLEAN, NEW rt \in BOOLEAN,
           registration' = Append(registration, Entry(op, rt, o)),
           UNCHANGED <<itemsRT, items, processed, current, pc>>, Types', Phases', OnceEach',
           o \in wanted' <=> op,
           \A other \in Things \ {o} :
               /\ other \in wanted' <=> other \in wanted
               /\ isRT'[other] = isRT[other] /\ life'[other] = life[other],
           op => o \notin wanted /\ isRT'[o] = rt,
           ~op => rt = isRT[o],
           pc # "idle" /\ ~op => ~OnRTNow(o) /\ o \notin ThingsOf(items) /\ o # current
    PROVE  Books'
<1> DEFINE e == Entry(op, rt, o)
<1>1. PICK n : n = Len(registration) + 1
  OBVIOUS
<1>2. /\ e \in [op : BOOLEAN, rt : BOOLEAN, object : Things]
      /\ e.op = op /\ e.rt = rt /\ e.object = o
  BY DEF Entry
<1>3. op => \A i \in CallNumbers : FinalCall(i) /\ registration[i].object = o => ~registration[i].op
  BY DEF Books, CallsAgree, CallAgrees
<1>4. \A i \in CallNumbers : registration[i] \in [op : BOOLEAN, rt : BOOLEAN, object : Things]
  BY CallTypes DEF Books, Types
<1> HIDE DEF e
<1>5. /\ IsCalls' /\ Alternate' /\ CallNumbers' = CallNumbers \cup {n} /\ n \notin CallNumbers
      /\ registration'[n] = e /\ \A i \in CallNumbers : registration'[i] = registration[i]
      /\ \A i \in CallNumbers :
            /\ FirstCall(i)' <=> FirstCall(i)
            /\ FinalCall(i)' <=> FinalCall(i) /\ registration[i].object # o
      /\ FinalCall(n)' /\ (FirstCall(n)' <=> ~HasCalls(o))
      /\ \A other : HasCalls(other)' <=> HasCalls(other) \/ other = o
  <2>1. registration' = Append(registration, e)
    BY DEF e
  <2>2. IsCalls /\ Alternate
    BY DEF Books, Types, CallsAgree
  <2>3. e.op => \A i \in CallNumbers :
                   FinalCall(i) /\ registration[i].object = e.object => ~registration[i].op
    BY <1>2, <1>3
  <2> QED
    BY <1>1, <1>2, <2>1, <2>2, <2>3, AddCall
<1>6. \A other : (OnRTNow(other)' <=> OnRTNow(other)) /\ (OnHeapNow(other)' <=> OnHeapNow(other))
  BY DEF OnRTNow, OnHeapNow, ThingsOf
<1>7. ThingsOf(items)' = ThingsOf(items)
  BY DEF ThingsOf
<1>8. ASSUME NEW i \in CallNumbers PROVE CallAgrees(i)'
  <2>1. CallAgrees(i) /\ registration'[i] = registration[i]
    BY <1>5 DEF Books, CallsAgree
  <2> QED
    BY <1>4, <1>5, <1>6, <1>7, <2>1 DEF CallAgrees
<1>9. op /\ ~HasCalls(o) => ~OnRTNow(o) /\ ~OnHeapNow(o)
  BY DEF Books, ListsAgree
<1>10. pc # "idle" => ~OnRTNow(o) /\ o \notin ThingsOf(items) /\ o # current
  <2>1. CASE HasCalls(o)
    <3>1. PICK i \in CallNumbers : registration[i].object = o
      BY <2>1 DEF HasCalls
    <3>2. CallAgrees(i)
      BY DEF Books, CallsAgree
    <3> QED
      BY <3>1, <3>2 DEF CallAgrees
  <2>2. CASE ~HasCalls(o) /\ op
    BY <1>9, <2>2 DEF OnHeapNow
  <2> QED
    BY <2>1, <2>2
<1>11. ~op /\ ~HasCalls(o) => (OnRTNow(o) => rt) /\ (OnHeapNow(o) => ~rt)
  BY DEF Books, ListsAgree
<1>12. CallAgrees(n)'
  BY <1>2, <1>5, <1>6, <1>7, <1>9, <1>10, <1>11 DEF CallAgrees
<1>13. CallsAgree'
  BY <1>5, <1>8, <1>12 DEF CallsAgree
<1>14. ListsAgree'
  BY <1>5, <1>6 DEF ListsAgree, Books
<1> QED
  BY <1>13, <1>14 DEF Books

\* A step that takes an object off the list it is on.
LEMMA BooksTaken ==
    ASSUME Books, NEW o \in Things, pc # "idle", UNCHANGED <<registration, isRT, life, pc>>,
           wanted' = wanted \ {o}, Types', Phases', OnceEach',
           OnRTNow(o) \/ o \in ThingsOf(items) \/ o = current,
           ~OnRTNow(o)', ~OnHeapNow(o)',
           \A other \in Things \ {o} :
               /\ OnRTNow(other)' <=> OnRTNow(other)
               /\ OnHeapNow(other)' <=> OnHeapNow(other)
               /\ other \in ThingsOf(items)' => other \in ThingsOf(items)
               /\ other = current' => other = current
    PROVE  Books'
<1>1. /\ CallNumbers' = CallNumbers /\ (IsCalls' <=> IsCalls) /\ (Alternate' <=> Alternate)
      /\ \A i : (FirstCall(i)' <=> FirstCall(i)) /\ (FinalCall(i)' <=> FinalCall(i))
      /\ \A other : HasCalls(other)' <=> HasCalls(other)
  BY SameCalls
<1>2. ASSUME NEW i \in CallNumbers PROVE CallAgrees(i)'
  <2>1. CallAgrees(i) /\ registration[i].object \in Things /\ registration'[i] = registration[i]
    BY CallTypes DEF Books, Types, CallsAgree
  <2>2. registration[i].object # o
    BY <2>1 DEF CallAgrees
  <2> QED
    BY <1>1, <2>1, <2>2 DEF CallAgrees
<1>3. CallsAgree'
  BY <1>1, <1>2 DEF CallsAgree, Books
<1>4. ListsAgree'
  BY <1>1 DEF ListsAgree, Books
<1> QED
  BY <1>3, <1>4 DEF Books

\* What the loop over ItemsRT is at is registered.
LEMMA SlotIs ==
    ASSUME IInv, pc = "rt", updating = None, nextRT <= endRT
    PROVE  AtSlot \in Things /\ OnRTNow(AtSlot)
<1>1. nextRT \in Ahead..endRT
  BY DEF Ahead, IInv, Books, Types
<1>2. Contains(itemsRT, AtSlot)
  BY <1>1 DEF AtSlot, IInv, LoopAgrees
<1> QED
  BY <1>2 DEF OnRTNow, Contains, IInv, Books, Types

\* What is on a list in a frame is wanted.
LEMMA ListedIsWanted ==
    ASSUME Books, NEW o \in Things, pc # "idle", OnRTNow(o) \/ o \in ThingsOf(items) \/ o = current
    PROVE  /\ ~HasCalls(o) /\ o \in wanted
           /\ OnRTNow(o) => isRT[o]
           /\ o \in ThingsOf(items) \/ o = current => ~isRT[o]
<1>1. ~HasCalls(o)
  <2>1. SUFFICES ASSUME NEW i \in CallNumbers, registration[i].object = o PROVE FALSE
    BY DEF HasCalls
  <2>2. CallAgrees(i)
    BY DEF Books, CallsAgree
  <2> QED
    BY <2>1, <2>2 DEF CallAgrees
<1> QED
  BY <1>1 DEF Books, ListsAgree, OnHeapNow

\* The steps of the loop over ItemsRT.
LEMMA LoopBooks ==
    ASSUME IInv, NotNeededRT \/ UpdateRT \/ ReturnRT \/ EndRT
    PROVE  Books'
<1>1. /\ UNCHANGED <<itemsRT, items, processed, registration, current, isRT, life, wanted>>
      /\ pc = "rt" /\ pc' \in {"rt", "step"}
  BY DEF NotNeededRT, UpdateRT, ReturnRT, EndRT, lists, loop, history
<1>2. Types'
  <2>1. IsCalls'
    BY <1>1, SameCalls DEF IInv, Books, Types
  <2>2. CASE NotNeededRT
    BY <1>1, <2>1, <2>2 DEF NotNeededRT, IInv, Books, Types, lists, history
  <2>3. CASE UpdateRT
    BY <1>1, <2>1, <2>3, SlotIs DEF UpdateRT, IInv, Books, Types, Phases, lists, loop
  <2>4. CASE ReturnRT
    BY <1>1, <2>1, <2>4 DEF ReturnRT, IInv, Books, Types, Phases, LoopAgrees, lists, history
  <2>5. CASE EndRT
    BY <1>1, <2>1, <2>5 DEF EndRT, IInv, Books, Types, history
  <2> QED
    BY <2>2, <2>3, <2>4, <2>5
<1>3. Phases'
  <2>1. CASE NotNeededRT
    BY <1>1, <2>1 DEF NotNeededRT, IInv, Books, Phases, lists, history
  <2>2. CASE UpdateRT
    BY <1>1, <2>2 DEF UpdateRT, IInv, Books, Phases, lists, loop
  <2>3. CASE ReturnRT
    BY <1>1, <2>3 DEF ReturnRT, IInv, Books, Phases, lists, history
  <2>4. CASE EndRT
    BY <1>1, <2>4 DEF EndRT, IInv, Books, Phases, history
  <2> QED
    BY <2>1, <2>2, <2>3, <2>4
<1>4. OnceEach'
  BY <1>1 DEF IInv, Books, OnceEach, Distinct, OneItemEach, ThingsOf
<1> QED
  BY <1>1, <1>2, <1>3, <1>4, BooksKept DEF IInv, OnRTNow, OnHeapNow, ThingsOf

\* The steps of ProcessStep.
LEMMA StepBooks ==
    ASSUME IInv, PopNotNeeded \/ UpdateItem \/ ReturnTakenOff \/ ReturnItem
    PROVE  Books'
<1>1. /\ UNCHANGED <<itemsRT, pastEnd, registration, isRT, life, wanted, nextRT, endRT, movedNow>>
      /\ pc = "step" /\ pc' \in {"step", "overloaded"}
  BY DEF PopNotNeeded, UpdateItem, ReturnTakenOff, ReturnItem, lists, loop, history
<1>2. IsCalls' /\ \A o : OnRTNow(o)' <=> OnRTNow(o)
  BY <1>1, SameCalls DEF IInv, Books, Types, OnRTNow
<1> DEFINE Kept(o) ==
             /\ OnHeapNow(o)' => OnHeapNow(o)
             /\ o \in ThingsOf(items)' => o \in ThingsOf(items)
             /\ o = current' => o \in ThingsOf(items) \/ o = current
             /\ life[o] = "live" /\ OnHeapNow(o) => OnHeapNow(o)'
<1>3. ASSUME Types', Phases', OnceEach', \A o \in Things : Kept(o)
      PROVE  Books'
  <2>1. \A o \in Things :
          /\ OnRTNow(o)' => OnRTNow(o)
          /\ OnHeapNow(o)' => OnHeapNow(o)
          /\ pc' # "idle" =>
                 /\ pc # "idle"
                 /\ o \in ThingsOf(items)' => o \in ThingsOf(items)
                 /\ o = current' => o \in ThingsOf(items) \/ o = current
    BY <1>1, <1>2, <1>3
  <2>2. wanted \subseteq Things
    BY DEF IInv, Books, Types
  <2>3. \A o \in wanted :
          /\ isRT'[o] = isRT[o]
          /\ life'[o] = "live" => life[o] = "live"
          /\ OnRTNow(o) \/ OnHeapNow(o) => OnRTNow(o)' \/ OnHeapNow(o)' \/ life'[o] # "live"
    BY <1>1, <1>2, <1>3, <2>2
  <2> QED
    BY <1>1, <1>3, <2>1, <2>3, BooksKept DEF IInv
<1>4. CASE PopNotNeeded
  <2>1. PICK item \in items : life[item.object] # "live" /\ items' = items \ {item}
    BY <1>4 DEF PopNotNeeded, Top, Overdue
  <2>2. UNCHANGED <<processed, current, pc, updating, updatedNow>>
    BY <1>4 DEF PopNotNeeded, loop, history
  <2>3. Types' /\ Phases'
    BY <1>1, <1>2, <2>1, <2>2 DEF IInv, Books, Types, Phases
  <2>4. OnceEach'
    BY <1>1, <2>1, <2>2 DEF IInv, Books, OnceEach, Distinct, OneItemEach, ThingsOf
  <2>5. \A o \in Things : Kept(o)
    BY <2>1, <2>2 DEF OnHeapNow, ThingsOf
  <2> QED
    BY <1>3, <2>3, <2>4, <2>5
<1>5. CASE UpdateItem
  <2>1. PICK item \in items : /\ life[item.object] = "live" /\ items' = items \ {item}
                              /\ current' = item.object /\ updating' = item.object
                              /\ updatedNow' = updatedNow \cup {item.object}
    BY <1>5 DEF UpdateItem, Top, Overdue
  <2>2. UNCHANGED <<processed, pc>> /\ updating = None /\ current = None
    BY <1>5 DEF UpdateItem, loop, IInv, Books, Types
  <2>3. item.object \in Things
    BY DEF IInv, Books, Types
  <2>4. Types' /\ Phases'
    BY <1>1, <1>2, <2>1, <2>2, <2>3 DEF IInv, Books, Types, Phases
  <2>5. OnceEach'
    BY <1>1, <2>1, <2>2 DEF IInv, Books, OnceEach, Distinct, OneItemEach, ThingsOf
  <2>6. \A o \in Things : Kept(o)
    BY <2>1, <2>2, NoneAssumption DEF OnHeapNow, ThingsOf
  <2> QED
    BY <1>3, <2>4, <2>5, <2>6
<1>6. CASE ReturnTakenOff
  <2>1. UNCHANGED <<items, processed, current, pc, updatedNow>> /\ current = None /\ updating' = None
    BY <1>6 DEF ReturnTakenOff, lists, loop, history
  <2>2. Types' /\ Phases'
    BY <1>1, <1>2, <2>1 DEF IInv, Books, Types, Phases
  <2>3. OnceEach'
    BY <1>1, <2>1 DEF IInv, Books, OnceEach, Distinct, OneItemEach, ThingsOf
  <2>4. \A o \in Things : Kept(o)
    BY <2>1 DEF OnHeapNow, ThingsOf
  <2> QED
    BY <1>3, <2>2, <2>3, <2>4
<1>7. CASE ReturnItem
  <2>1. PICK delay \in 0..MaxDelay : processed' = processed \cup {Item(updating, delay)}
    BY <1>7 DEF ReturnItem
  <2>2. /\ UNCHANGED <<items, updatedNow>> /\ updating # None /\ current # None
        /\ current = updating /\ updating \in Things /\ updating' = None /\ current' = None
    BY <1>7 DEF ReturnItem, IInv, Books, Types, history
  <2>3. /\ Item(updating, delay) \in [object : Things, due : Nat]
        /\ Item(updating, delay).object = updating
    BY <2>2, SchedulerBounds DEF Item
  <2>4. Types' /\ Phases'
    BY <1>1, <1>2, <2>1, <2>2, <2>3 DEF IInv, Books, Types, Phases
  <2>5. OnceEach'
    <3>1. ThingsOf(processed)' = ThingsOf(processed) \cup {updating}
      BY <2>1, <2>3 DEF ThingsOf
    <3>2. ThingsOf(items)' = ThingsOf(items) /\ None \notin ThingsOf(items)
      BY <2>2, NoneAssumption DEF ThingsOf, IInv, Books, Types
    <3>3. None \notin ThingsOf(processed) \cup {updating}
      BY <2>2, NoneAssumption DEF ThingsOf, IInv, Books, Types
    <3>4. OneItemEach(processed)'
      <4>1. \A item \in processed : item.object # updating
        BY <2>2 DEF IInv, Books, OnceEach, ThingsOf
      <4> QED
        BY <2>1, <2>3, <4>1 DEF IInv, Books, OnceEach, OneItemEach
    <3>5. Distinct(itemsRT)' /\ OneItemEach(items)'
      BY <1>1, <2>2 DEF IInv, Books, OnceEach, Distinct, OneItemEach
    <3> QED
      BY <2>2, <3>1, <3>2, <3>3, <3>4, <3>5 DEF IInv, Books, OnceEach
  <2>6. \A o \in Things : Kept(o)
    BY <2>1, <2>2, <2>3, NoneAssumption DEF OnHeapNow, ThingsOf
  <2> QED
    BY <1>3, <2>4, <2>5, <2>6
<1> QED
  BY <1>4, <1>5, <1>6, <1>7

\* The calls are carried out, and nothing is being updated.
LEMMA BooksAfterCalls ==
    ASSUME Books, NEW normal \in SUBSET [object : Things, due : Int], OneItemEach(normal),
           \A o \in Things : o \in ThingsOf(normal) <=> OnHeapNow(o),
           LET r == InternalRegistration([Lists EXCEPT !.normal = normal])
           IN  itemsRT' = r.rt /\ items' = r.normal /\ isRT' = r.kind,
           registration' = <<>>, processed' = {}, pastEnd' = <<>>, current' = None, updating' = None,
           UNCHANGED <<life, wanted>>, updatedNow' = {}, movedNow' = FALSE,
           pc' \in {"idle", "rt"}, endRT' \in Nat, nextRT' \in 1..(endRT' + 1)
    PROVE  Books' /\ itemsRT' \in Seq(Things) /\ isRT' = isRT
<1> DEFINE r == InternalRegistration([Lists EXCEPT !.normal = normal])
<1>1. /\ IsLists(r) /\ r.kind = isRT
      /\ \A o \in Things :
            /\ OnRT(r, o) => isRT[o] /\ o \in wanted
            /\ OnHeap(r, o) => ~isRT[o] /\ o \in wanted
            /\ o \in wanted /\ life[o] = "live" => OnRT(r, o) \/ OnHeap(r, o)
  BY Carried
<1>2. itemsRT' = r.rt /\ items' = r.normal /\ isRT' = r.kind
  OBVIOUS
<1> HIDE DEF r
<1>3. /\ itemsRT' \in Seq(Things) /\ items' \in SUBSET [object : Things, due : Int]
      /\ Distinct(itemsRT') /\ OneItemEach(items') /\ isRT' = isRT
  BY <1>1, <1>2 DEF IsLists
<1>4. IsCalls' /\ CallNumbers' = {} /\ Alternate' /\ \A o : ~HasCalls(o)'
  BY NoCalls
<1>5. Types'
  <2>1. pastEnd' \in Seq(Things) /\ processed' \in SUBSET [object : Things, due : Nat]
    OBVIOUS
  <2>2. pc' \in {"idle", "rt", "step", "overloaded"} /\ updatedNow' \subseteq Things
    OBVIOUS
  <2>3. isRT' \in [Things -> BOOLEAN] /\ wanted' \subseteq Things
        /\ life' \in [Things -> {"live", "doomed", "dead"}]
    BY <1>3 DEF Types, Books
  <2> QED
    BY <1>3, <1>4, <2>1, <2>2, <2>3 DEF Types
<1>6. Phases'
  BY DEF Phases, Books
<1>7. OnceEach'
  <2>1. ThingsOf(processed)' = {} /\ None \notin ThingsOf(items)'
    BY <1>3, NoneAssumption DEF ThingsOf
  <2>2. Distinct(itemsRT)' /\ OneItemEach(items)' /\ OneItemEach(processed)'
    BY <1>3 DEF Distinct, OneItemEach
  <2> QED
    BY <2>1, <2>2 DEF OnceEach
<1>8. CallsAgree'
  BY <1>4 DEF CallsAgree
<1>9. \A o \in Things : (OnRTNow(o)' <=> OnRT(r, o)) /\ (OnHeapNow(o)' <=> OnHeap(r, o))
  BY <1>2, NoneAssumption DEF OnRTNow, OnHeapNow, OnRT, OnHeap, ThingsOf
<1>10. ListsAgree'
  BY <1>1, <1>2, <1>9 DEF ListsAgree
<1> QED
  BY <1>3, <1>5, <1>6, <1>7, <1>8, <1>10 DEF Books

\* A frame later there are the same objects on the heap.
LEMMA AgedIs ==
    ASSUME NEW list \in SUBSET [object : Things, due : Int], OneItemEach(list)
    PROVE  /\ Aged(list) \in SUBSET [object : Things, due : Int] /\ OneItemEach(Aged(list))
           /\ ThingsOf(Aged(list)) = ThingsOf(list)
<1> DEFINE older(item) == [item EXCEPT !.due = item.due - 1]
<1>1. \A item \in list : /\ older(item) \in [object : Things, due : Int]
                         /\ older(item).object = item.object
  OBVIOUS
<1>2. Aged(list) = {older(item) : item \in list}
  BY DEF Aged
<1> HIDE DEF older
<1>3. Aged(list) \in SUBSET [object : Things, due : Int]
  BY <1>1, <1>2
<1>4. OneItemEach(Aged(list))
  BY <1>1, <1>2 DEF OneItemEach
<1>5. ThingsOf(Aged(list)) = ThingsOf(list)
  BY <1>1, <1>2 DEF ThingsOf
<1> QED
  BY <1>3, <1>4, <1>5

\* The two steps in which the calls are carried out.
LEMMA BeginBooks ==
    ASSUME Books, BeginUpdate
    PROVE  Books' /\ isRT' = isRT
<1>1. /\ items \in SUBSET [object : Things, due : Int] /\ OneItemEach(items)
      /\ processed = {} /\ current = None /\ updating = None /\ pastEnd = <<>>
      /\ updatedNow = {} /\ movedNow = FALSE
  BY DEF BeginUpdate, Books, Types, Phases, OnceEach
<1> DEFINE normal == Aged(items)
           r == InternalRegistration([Lists EXCEPT !.normal = normal])
<1>2. /\ normal \in SUBSET [object : Things, due : Int] /\ OneItemEach(normal)
      /\ ThingsOf(normal) = ThingsOf(items)
  BY <1>1, AgedIs
<1>3. [Lists EXCEPT !.normal = Aged(@)] = [Lists EXCEPT !.normal = normal]
  BY DEF Lists
<1>4. /\ itemsRT' = r.rt /\ items' = r.normal /\ isRT' = r.kind /\ endRT' = Len(r.rt)
      /\ registration' = <<>> /\ pc' = "rt" /\ nextRT' = 1
      /\ UNCHANGED <<pastEnd, processed, current, updating, life, wanted, updatedNow, movedNow>>
  BY <1>3 DEF BeginUpdate, history
<1> HIDE DEF normal
<1>5. \A o \in Things : o \in ThingsOf(normal) <=> OnHeapNow(o)
  BY <1>1, <1>2, NoneAssumption DEF OnHeapNow, ThingsOf
<1>6. IsLists(r)
  BY <1>2, <1>5, Carried
<1>7. endRT' \in Nat /\ nextRT' \in 1..(endRT' + 1) /\ pc' \in {"idle", "rt"}
  BY <1>4, <1>6 DEF IsLists
<1>8. /\ pastEnd' = <<>> /\ processed' = {} /\ current' = None /\ updating' = None
      /\ updatedNow' = {} /\ movedNow' = FALSE
  BY <1>1, <1>4
<1> QED
  BY <1>2, <1>4, <1>5, <1>7, <1>8, BooksAfterCalls

LEMMA EndBooks ==
    ASSUME Books, EndUpdate
    PROVE  Books' /\ isRT' = isRT
<1>1. current = None /\ updating = None /\ pastEnd = <<>>
  BY DEF EndUpdate, Books, Types, Phases
<1>5. items \cup processed \in SUBSET [object : Things, due : Int]
  BY DEF Books, Types
<1>6. OneItemEach(items \cup processed)
  <2>1. \A x \in items, y \in processed : x.object # y.object
    BY DEF Books, OnceEach, ThingsOf
  <2> QED
    BY <2>1 DEF Books, OnceEach, OneItemEach
<1> DEFINE normal == items \cup processed
           r == InternalRegistration([Lists EXCEPT !.normal = normal])
<1>2. [Lists EXCEPT !.normal = @ \cup processed] = [Lists EXCEPT !.normal = normal]
  BY DEF Lists
<1>3. /\ itemsRT' = r.rt /\ items' = r.normal /\ isRT' = r.kind
      /\ registration' = <<>> /\ pc' = "idle" /\ nextRT' = 1 /\ endRT' = 0 /\ processed' = {}
      /\ updatedNow' = {} /\ movedNow' = FALSE
      /\ UNCHANGED <<pastEnd, current, updating, life, wanted>>
  BY <1>2 DEF EndUpdate
<1>4. \A o \in Things : o \in ThingsOf(normal) <=> OnHeapNow(o)
  BY <1>1, NoneAssumption DEF OnHeapNow, ThingsOf
<1>7. normal \in SUBSET [object : Things, due : Int] /\ OneItemEach(normal)
  BY <1>5, <1>6
<1> HIDE DEF normal
<1>8. /\ pastEnd' = <<>> /\ current' = None /\ updating' = None
      /\ endRT' \in Nat /\ nextRT' \in 1..(endRT' + 1) /\ pc' \in {"idle", "rt"}
  BY <1>1, <1>3
<1> QED
  BY <1>3, <1>4, <1>7, <1>8, BooksAfterCalls

-----------------------------------------------------------------------------
(* The books, and the game.                                                *)

LEMMA MoreCalls ==
    ASSUME IsCalls, NEW op \in BOOLEAN, NEW rt \in BOOLEAN, NEW o \in Things,
           registration' = Append(registration, Entry(op, rt, o))
    PROVE  IsCalls'
<1>1. Entry(op, rt, o) \in [op : BOOLEAN, rt : BOOLEAN, object : Things]
  BY DEF Entry
<1> QED
  BY <1>1 DEF IsCalls

LEMMA RegisterBooks ==
    ASSUME Books, NEW o \in Things, NEW rt \in BOOLEAN, Register(o, rt)
    PROVE  Books'
<1>1. /\ registration' = Append(registration, Entry(TRUE, rt, o))
      /\ UNCHANGED <<itemsRT, pastEnd, items, processed, current, pc, nextRT, endRT, updating,
                     life, updatedNow, movedNow>>
      /\ isRT' = [isRT EXCEPT ![o] = rt] /\ wanted' = wanted \cup {o}
      /\ o \notin wanted /\ life[o] = "live"
  BY DEF Register, Books, Types, loop
<1>2. Types'
  BY <1>1, MoreCalls DEF Books, Types
<1>3. Phases'
  BY <1>1 DEF Books, Phases
<1>4. OnceEach'
  BY <1>1 DEF Books, OnceEach, Distinct, OneItemEach, ThingsOf
<1>5. \A other \in Things \ {o} : /\ other \in wanted' <=> other \in wanted
                                  /\ isRT'[other] = isRT[other] /\ life'[other] = life[other]
  BY <1>1 DEF Books, Types
<1>6. o \in wanted' /\ isRT'[o] = rt
  BY <1>1 DEF Books, Types
<1> QED
  BY <1>1, <1>2, <1>3, <1>4, <1>5, <1>6, BooksAfterCall

\* A taking-off that is put off, by Unregister or by the destructor.
LEMMA PutOffBooks ==
    ASSUME Books, NEW o \in Things, PutOff(o), o \notin wanted', wanted' \subseteq wanted,
           wanted \subseteq wanted' \cup {o},
           UNCHANGED <<processed, isRT, pc, nextRT, endRT, updating, updatedNow>>,
           life' \in [Things -> {"live", "doomed", "dead"}],
           \A other \in Things \ {o} : life'[other] = life[other],
           life' = life \/ updating = None
    PROVE  Books'
<1>1. /\ registration' = Append(registration, Entry(FALSE, isRT[o], o)) /\ isRT[o] \in BOOLEAN
      /\ UNCHANGED <<itemsRT, pastEnd, items, current, movedNow>>
  BY DEF PutOff, Books, Types
<1>2. Types'
  BY <1>1, MoreCalls DEF Books, Types
<1>3. Phases'
  BY <1>1 DEF Books, Phases, Types
<1>4. OnceEach'
  BY <1>1 DEF Books, OnceEach, Distinct, OneItemEach, ThingsOf
<1>5. pc # "idle" => ~OnRTNow(o) /\ o \notin ThingsOf(items) /\ o # current
  <2>1. SUFFICES ASSUME pc # "idle" PROVE ~OnRTNow(o) /\ o \notin ThingsOf(items) /\ o # current
    OBVIOUS
  <2>2. ~OnAList(o) /\ current # o
    BY <2>1 DEF PutOff, processing
  <2> QED
    BY <2>1, <2>2, ListedIsWanted DEF OnAList, OnRTNow
<1>6. \A other \in Things \ {o} : /\ other \in wanted' <=> other \in wanted
                                  /\ isRT'[other] = isRT[other] /\ life'[other] = life[other]
  OBVIOUS
<1> QED
  BY <1>1, <1>2, <1>3, <1>4, <1>5, <1>6, BooksAfterCall

\* Off ItemsRT, off the heap, out of the hands of ProcessStep, or later.
LEMMA UnregisterBooks ==
    ASSUME Books, NEW o \in Things, Unregister(o)
    PROVE  Books'
<1>1. /\ o \in wanted /\ wanted' = wanted \ {o} /\ wanted \subseteq Things
      /\ UNCHANGED <<processed, isRT, pc, nextRT, endRT, updating, life, updatedNow>>
  BY DEF Unregister, loop, Books, Types
<1>2. CASE TakeOffRT(o)
  <2>1. /\ pc # "idle" /\ isRT[o] /\ OnRTNow(o) /\ Contains(itemsRT, o)
        /\ itemsRT' = RemoveFirst(itemsRT, o)
        /\ UNCHANGED <<items, current, registration>>
    BY <1>2 DEF TakeOffRT, processing, OnRTNow
  <2>2. /\ itemsRT' \in Seq(Things) /\ Distinct(itemsRT')
        /\ \A other : Contains(itemsRT', other) <=> Contains(itemsRT, other) /\ other # o
    BY <2>1, RemoveFirstIs DEF Books, Types, OnceEach
  <2>3. pastEnd' \in Seq(Things) /\ (pc # "rt" => pastEnd' = pastEnd) /\ movedNow' \in BOOLEAN
    <3>1. Len(itemsRT) \in Nat \ {0} /\ itemsRT[Len(itemsRT)] \in Things
      BY <2>1 DEF Contains, Books, Types
    <3>2. <<Last(itemsRT)>> \in Seq(Things) /\ pastEnd \in Seq(Things)
      BY <3>1 DEF Last, Books, Types
    <3>3. <<Last(itemsRT)>> \o pastEnd \in Seq(Things)
      BY <3>2
    <3> QED
      BY <1>2, <3>2, <3>3 DEF TakeOffRT
  <2>4. IsCalls'
    BY <2>1, SameCalls DEF Books, Types
  <2>5. Types'
    BY <1>1, <2>1, <2>2, <2>3, <2>4 DEF Books, Types
  <2>6. Phases'
    <3>1. pc = "idle" => ~movedNow'
      BY <2>1
    <3> QED
      BY <1>1, <2>1, <2>3, <3>1 DEF Books, Phases
  <2>7. OnceEach'
    BY <1>1, <2>1, <2>2 DEF Books, OnceEach, OneItemEach, Distinct, ThingsOf
  <2>8. /\ ~OnRTNow(o)' /\ ~OnHeapNow(o)'
        /\ \A other \in Things \ {o} :
              /\ OnRTNow(other)' <=> OnRTNow(other)
              /\ OnHeapNow(other)' <=> OnHeapNow(other)
    <3>1. ~HasCalls(o)
      BY <2>1, ListedIsWanted
    <3>2. ~OnHeapNow(o)
      BY <2>1, <3>1 DEF Books, ListsAgree
    <3> QED
      BY <1>1, <2>1, <2>2, <3>2 DEF OnRTNow, OnHeapNow, ThingsOf
  <2>9. ThingsOf(items)' = ThingsOf(items)
    BY <2>1 DEF ThingsOf
  <2> QED
    BY <1>1, <2>1, <2>5, <2>6, <2>7, <2>8, <2>9, BooksTaken
<1>3. CASE TakeOffItem(o)
  <2>1. /\ pc # "idle" /\ ~isRT[o] /\ o \in ThingsOf(items)
        /\ items' = {item \in items : item.object # o}
        /\ UNCHANGED <<itemsRT, pastEnd, current, registration, movedNow>>
    BY <1>3 DEF TakeOffItem, processing, Drop
  <2>2. IsCalls'
    BY <2>1, SameCalls DEF Books, Types
  <2>3. Types'
    BY <1>1, <2>1, <2>2 DEF Books, Types
  <2>4. Phases'
    BY <1>1, <2>1 DEF Books, Phases
  <2>5. OnceEach'
    <3>1. ThingsOf(items)' \subseteq ThingsOf(items) /\ ThingsOf(processed)' = ThingsOf(processed)
      BY <1>1, <2>1 DEF ThingsOf
    <3>2. Distinct(itemsRT)' /\ OneItemEach(items)' /\ OneItemEach(processed)'
      BY <1>1, <2>1 DEF Books, OnceEach, OneItemEach, Distinct
    <3> QED
      BY <2>1, <3>1, <3>2 DEF Books, OnceEach
  <2>6. /\ ~HasCalls(o) /\ ~OnRTNow(o)
    BY <2>1, ListedIsWanted
  <2>7. o \notin ThingsOf(processed) /\ o # current
    BY <2>1 DEF Books, OnceEach
  <2>8. /\ ~OnRTNow(o)' /\ ~OnHeapNow(o)'
        /\ \A other \in Things \ {o} :
              /\ OnRTNow(other)' <=> OnRTNow(other)
              /\ OnHeapNow(other)' <=> OnHeapNow(other)
              /\ other \in ThingsOf(items)' => other \in ThingsOf(items)
    BY <1>1, <2>1, <2>6, <2>7 DEF OnRTNow, OnHeapNow, ThingsOf
  <2> QED
    BY <1>1, <2>1, <2>3, <2>4, <2>5, <2>8, BooksTaken
<1>4. CASE TakeOffCurrent(o)
  <2>1. /\ pc # "idle" /\ current = o /\ current' = None /\ o # None
        /\ UNCHANGED <<itemsRT, pastEnd, items, registration, movedNow>>
    BY <1>4, NoneAssumption DEF TakeOffCurrent, processing
  <2>2. IsCalls'
    BY <2>1, SameCalls DEF Books, Types
  <2>3. Types'
    BY <1>1, <2>1, <2>2 DEF Books, Types
  <2>4. Phases'
    BY <1>1, <2>1 DEF Books, Phases
  <2>5. None \notin ThingsOf(items) \cup ThingsOf(processed)
    BY NoneAssumption DEF Books, Types, ThingsOf
  <2>6. OnceEach'
    BY <1>1, <2>1, <2>5 DEF Books, OnceEach, OneItemEach, Distinct, ThingsOf
  <2>7. ~isRT[o] /\ ~HasCalls(o)
    BY <2>1, ListedIsWanted
  <2>8. ~OnRTNow(o) /\ o \notin ThingsOf(items) /\ o \notin ThingsOf(processed)
    BY <2>1, <2>7 DEF Books, OnceEach, ListsAgree
  <2>9. /\ ~OnRTNow(o)' /\ ~OnHeapNow(o)'
        /\ \A other \in Things \ {o} :
              /\ OnRTNow(other)' <=> OnRTNow(other)
              /\ OnHeapNow(other)' <=> OnHeapNow(other)
              /\ other \in ThingsOf(items)' => other \in ThingsOf(items)
              /\ other = current' => other = current
    BY <1>1, <2>1, <2>8, NoneAssumption DEF OnRTNow, OnHeapNow, ThingsOf
  <2> QED
    BY <1>1, <2>1, <2>3, <2>4, <2>6, <2>9, BooksTaken
<1>5. CASE PutOff(o)
  <2>1. life' \in [Things -> {"live", "doomed", "dead"}]
    BY <1>1 DEF Books, Types
  <2> QED
    BY <1>1, <1>5, <2>1, PutOffBooks
<1> QED
  BY <1>2, <1>3, <1>4, <1>5 DEF Unregister

\* What becomes of the objects themselves.
LEMMA LifeBooks ==
    ASSUME Books, NEW o \in Things, Construct(o) \/ Doom(o) \/ Destruct(o)
    PROVE  Books'
<1>1. UNCHANGED <<processed, pc, nextRT, endRT, updating, wanted, updatedNow>>
  BY DEF Construct, Doom, Destruct, lists, loop, history
<1>2. CASE Construct(o) \/ Doom(o)
  <2>1. /\ UNCHANGED <<itemsRT, pastEnd, items, registration, current, movedNow>>
        /\ isRT' \in [Things -> BOOLEAN]
        /\ \A other \in wanted : isRT'[other] = isRT[other]
    <3>1. CASE Construct(o)
      <4>1. o \notin wanted
        BY <3>1 DEF Construct, Books, Phases
      <4> QED
        BY <3>1, <4>1 DEF Construct, Books, Types, lists, history
    <3>2. CASE Doom(o)
      BY <3>2 DEF Doom, Books, Types, lists, history
    <3> QED
      BY <1>2, <3>1, <3>2
  <2>2. /\ life' \in [Things -> {"live", "doomed", "dead"}]
        /\ \A other \in Things : life'[other] = "dead" => life[other] = "dead"
        /\ \A other \in wanted : life'[other] = "live" => life[other] = "live"
    <3>1. CASE Construct(o)
      <4>1. o \notin wanted
        BY <3>1 DEF Construct, Books, Phases
      <4> QED
        BY <3>1, <4>1 DEF Construct, Books, Types
    <3>2. CASE Doom(o)
      BY <3>2 DEF Doom, Books, Types
    <3> QED
      BY <1>2, <3>1, <3>2
  <2>3. IsCalls'
    BY <2>1, SameCalls DEF Books, Types
  <2>4. Types'
    BY <1>1, <2>1, <2>2, <2>3 DEF Books, Types
  <2>5. Phases'
    BY <1>1, <2>1, <2>2 DEF Books, Phases, Types
  <2>6. OnceEach'
    BY <1>1, <2>1 DEF Books, OnceEach, Distinct, OneItemEach, ThingsOf
  <2>7. \A other : /\ OnRTNow(other)' <=> OnRTNow(other)
                   /\ OnHeapNow(other)' <=> OnHeapNow(other)
    BY <1>1, <2>1 DEF OnRTNow, OnHeapNow, ThingsOf
  <2>8. ThingsOf(items)' = ThingsOf(items)
    BY <2>1 DEF ThingsOf
  <2> QED
    BY <1>1, <2>1, <2>2, <2>4, <2>5, <2>6, <2>7, <2>8, BooksKept
<1>3. CASE Destruct(o)
  <2>1. /\ PutOff(o) /\ o \notin wanted /\ isRT' = isRT /\ pc = "idle"
        /\ life' = [life EXCEPT ![o] = "dead"]
    BY <1>3 DEF Destruct
  <2>2. /\ life' \in [Things -> {"live", "doomed", "dead"}]
        /\ \A other \in Things \ {o} : life'[other] = life[other]
        /\ updating = None
    BY <2>1 DEF Books, Types, Phases
  <2> QED
    BY <1>1, <2>1, <2>2, PutOffBooks
<1> QED
  BY <1>2, <1>3

\* The lists are emptied, after the calls were carried out.
LEMMA DestroyBooks ==
    ASSUME Books, Destroy
    PROVE  Books' /\ isRT' = isRT
<1>1. pc = "idle" /\ processed = {} /\ current = None /\ updating = None
  BY DEF Destroy, Books, Phases
<1>2. /\ itemsRT' = <<>> /\ items' = {} /\ processed' = {} /\ registration' = <<>> /\ wanted' = {}
      /\ UNCHANGED <<pastEnd, current, pc, nextRT, endRT, updating, life, updatedNow, movedNow>>
  BY DEF Destroy, loop
<1>3. isRT' = isRT
  <2>1. [Lists EXCEPT !.normal = items] = Lists
    BY DEF Lists
  <2>2. \A o \in Things : o \in ThingsOf(items) <=> OnHeapNow(o)
    BY <1>1, NoneAssumption DEF OnHeapNow, ThingsOf
  <2>3. items \in SUBSET [object : Things, due : Int] /\ OneItemEach(items)
    BY DEF Books, Types, OnceEach
  <2>4. InternalRegistration([Lists EXCEPT !.normal = items]).kind = isRT
    BY <2>2, <2>3, Carried
  <2> QED
    BY <2>1, <2>4 DEF Destroy
<1>4. IsCalls' /\ CallNumbers' = {} /\ Alternate' /\ \A o : ~HasCalls(o)'
  BY <1>2, NoCalls
<1>5. Types'
  BY <1>2, <1>3, <1>4 DEF Books, Types
<1>6. Phases'
  BY <1>2 DEF Books, Phases
<1>7. ThingsOf(items)' = {} /\ ThingsOf(processed)' = {} /\ \A o : ~OnRTNow(o)'
  BY <1>2 DEF ThingsOf, OnRTNow, Contains
<1>8. OnceEach'
  BY <1>2, <1>7 DEF OnceEach, Distinct, OneItemEach
<1>9. CallsAgree'
  BY <1>4 DEF CallsAgree
<1>10. ListsAgree'
  BY <1>1, <1>2, <1>7, NoneAssumption DEF ListsAgree, OnHeapNow
<1> QED
  BY <1>3, <1>5, <1>6, <1>8, <1>9, <1>10 DEF Books

-----------------------------------------------------------------------------
(* The loop over ItemsRT, and who has been updated.                        *)

\* A step beside the loop.
LEMMA LoopKept ==
    ASSUME IInv, UNCHANGED <<itemsRT, pastEnd, pc, nextRT, endRT, updating, updatedNow, movedNow>>,
           ThingsOf(items)' \subseteq ThingsOf(items),
           pc = "rt" => \A o \in Things : OnRTNow(o) /\ life'[o] = "live" => life[o] = "live"
    PROVE  LoopAgrees' /\ UpdatesAgree'
<1>1. Ahead' = Ahead /\ (pc = "rt" => Ahead \in 1..(endRT + 1))
  BY DEF Ahead, IInv, Books, Types, LoopAgrees
<1>2. LoopAgrees'
  BY <1>1 DEF LoopAgrees, IInv
<1>3. ASSUME pc = "rt", ~movedNow, NEW j \in 1..(Ahead - 1), life'[itemsRT[j]] = "live"
      PROVE  itemsRT[j] \in updatedNow
  <2>1. pastEnd = <<>> /\ Len(itemsRT) + Len(pastEnd) = endRT
    BY <1>3 DEF IInv, LoopAgrees
  <2>2. j \in 1..Len(itemsRT)
    BY <1>1, <1>3, <2>1 DEF IInv, Books, Types
  <2>3. itemsRT[j] \in Things /\ OnRTNow(itemsRT[j])
    BY <2>2 DEF OnRTNow, Contains, IInv, Books, Types
  <2>4. life[itemsRT[j]] = "live"
    BY <1>3, <2>3
  <2> QED
    BY <1>3, <2>4 DEF IInv, UpdatesAgree
<1>4. UpdatesAgree'
  BY <1>1, <1>3 DEF UpdatesAgree, IInv
<1> QED
  BY <1>2, <1>4

\* A step to a place where ItemsRT is not gone through.
LEMMA LoopOver ==
    ASSUME pc' # "rt", ThingsOf(items)' \cap updatedNow' = {}
    PROVE  LoopAgrees' /\ UpdatesAgree'
  BY DEF LoopAgrees, UpdatesAgree

LEMMA BeginLoop ==
    ASSUME IInv, BeginUpdate
    PROVE  LoopAgrees' /\ UpdatesAgree'
<1>1. Books'
  BY BeginBooks DEF IInv
<1>2. /\ pc' = "rt" /\ nextRT' = 1 /\ endRT' = Len(itemsRT') /\ updating' = None /\ pastEnd' = <<>>
      /\ updatedNow' = {}
  BY DEF BeginUpdate, history, IInv, Books, Phases
<1>3. itemsRT' \in Seq(Things)
  BY <1>1 DEF Books, Types
<1>4. itemsRT' \o pastEnd' = itemsRT' /\ Len(pastEnd') = 0
  BY <1>2, <1>3
<1>5. Ahead' = 1
  BY <1>2 DEF Ahead
<1>6. \A j \in Ahead'..endRT' : Contains(itemsRT', (itemsRT' \o pastEnd')[j])
  BY <1>2, <1>3, <1>4, <1>5 DEF Contains
<1>7. LoopAgrees'
  BY <1>2, <1>3, <1>4, <1>6 DEF LoopAgrees
<1>8. UpdatesAgree'
  BY <1>2, <1>5 DEF UpdatesAgree
<1> QED
  BY <1>7, <1>8

LEMMA InLoop ==
    ASSUME IInv, NotNeededRT \/ UpdateRT \/ ReturnRT \/ EndRT
    PROVE  LoopAgrees' /\ UpdatesAgree'
<1>1. /\ UNCHANGED <<itemsRT, items, life>> /\ pc = "rt" /\ ThingsOf(items)' = ThingsOf(items)
  BY DEF NotNeededRT, UpdateRT, ReturnRT, EndRT, lists, ThingsOf
<1>2. /\ nextRT \in Nat /\ endRT \in Nat /\ itemsRT \in Seq(Things)
      /\ Len(itemsRT) + Len(pastEnd) = endRT
      /\ ~movedNow => pastEnd = <<>> /\ itemsRT \o pastEnd = itemsRT
  BY <1>1 DEF IInv, Books, Types, LoopAgrees
<1>3. ThingsOf(items) \cap updatedNow = {}
  BY DEF IInv, UpdatesAgree
<1>4. CASE NotNeededRT
  <2>1. /\ UNCHANGED <<pastEnd, pc, endRT, updating, updatedNow, movedNow>>
        /\ nextRT' = nextRT + 1 /\ updating = None /\ life[AtSlot] # "live"
    BY <1>4 DEF NotNeededRT, lists, history
  <2>2. Ahead = nextRT /\ Ahead' = nextRT + 1
    BY <2>1 DEF Ahead
  <2>3. \A j \in Ahead'..endRT : j \in Ahead..endRT
    BY <1>2, <2>2
  <2>4. LoopAgrees'
    BY <1>1, <2>1, <2>3 DEF LoopAgrees, IInv
  <2>5. 1..(Ahead' - 1) = 1..(Ahead - 1) \cup (IF nextRT = 0 THEN {} ELSE {nextRT})
    BY <1>2, <2>2
  <2>6. ~movedNow => life[itemsRT[nextRT]] # "live"
    BY <1>2, <2>1 DEF AtSlot
  <2>7. UpdatesAgree'
    BY <1>1, <1>3, <2>1, <2>5, <2>6 DEF UpdatesAgree, IInv
  <2> QED
    BY <2>4, <2>7
<1>5. CASE UpdateRT
  <2>1. /\ UNCHANGED <<pastEnd, pc, nextRT, endRT, movedNow>> /\ updating = None
        /\ nextRT <= endRT /\ updating' = AtSlot /\ updatedNow' = updatedNow \cup {AtSlot}
    BY <1>5 DEF UpdateRT, lists, loop
  <2>2. AtSlot \in Things /\ OnRTNow(AtSlot)
    BY <1>1, <2>1, SlotIs
  <2>3. Ahead = nextRT /\ Ahead' = nextRT + 1
    BY <2>1, <2>2, NoneAssumption DEF Ahead
  <2>4. \A j \in Ahead'..endRT : j \in Ahead..endRT
    BY <1>2, <2>3
  <2>5. ~movedNow => itemsRT[nextRT] = AtSlot
    BY <1>2, <2>1 DEF AtSlot
  <2>6. LoopAgrees'
    BY <1>1, <2>1, <2>4, <2>5 DEF LoopAgrees, IInv
  <2>7. AtSlot \notin ThingsOf(items)
    BY <1>1, <2>2, ListedIsWanted DEF IInv
  <2>8. nextRT # 0 /\ 1..(Ahead' - 1) = 1..(Ahead - 1) \cup {nextRT}
    BY <1>2, <2>3 DEF IInv, Books, Types
  <2>9. UpdatesAgree'
    BY <1>1, <1>3, <2>1, <2>5, <2>7, <2>8 DEF UpdatesAgree, IInv
  <2> QED
    BY <2>6, <2>9
<1>6. CASE ReturnRT
  <2>1. /\ UNCHANGED <<pastEnd, pc, endRT, updatedNow, movedNow>>
        /\ nextRT' = nextRT + 1 /\ updating # None /\ updating' = None
    BY <1>6 DEF ReturnRT, lists, history
  <2>2. Ahead' = Ahead
    BY <2>1 DEF Ahead
  <2>3. LoopAgrees'
    BY <1>1, <2>1, <2>2 DEF LoopAgrees, IInv
  <2>4. UpdatesAgree'
    BY <1>1, <1>3, <2>1, <2>2 DEF UpdatesAgree, IInv
  <2> QED
    BY <2>3, <2>4
<1>7. CASE EndRT
  <2>1. pc' = "step" /\ updatedNow' = updatedNow
    BY <1>7 DEF EndRT, history
  <2> QED
    BY <1>1, <1>3, <2>1, LoopOver
<1> QED
  BY <1>4, <1>5, <1>6, <1>7

LEMMA AfterLoop ==
    ASSUME IInv, PopNotNeeded \/ UpdateItem \/ ReturnTakenOff \/ ReturnItem \/ EndUpdate \/ Destroy
    PROVE  LoopAgrees' /\ UpdatesAgree'
<1>1. pc' # "rt"
  BY DEF PopNotNeeded, UpdateItem, ReturnTakenOff, ReturnItem, EndUpdate, Destroy, loop
<1>2. ThingsOf(items) \cap updatedNow = {}
  BY DEF IInv, UpdatesAgree
<1>3. CASE PopNotNeeded \/ ReturnTakenOff \/ ReturnItem
  <2>1. items' \subseteq items /\ updatedNow' = updatedNow
    BY <1>3 DEF PopNotNeeded, ReturnTakenOff, ReturnItem, lists, history
  <2> QED
    BY <1>1, <1>2, <2>1, LoopOver DEF ThingsOf
<1>4. CASE UpdateItem
  <2>1. PICK item \in items : /\ items' = items \ {item}
                              /\ updatedNow' = updatedNow \cup {item.object}
    BY <1>4 DEF UpdateItem, Top, Overdue
  <2>2. item.object \notin ThingsOf(items)'
    BY <2>1 DEF ThingsOf, IInv, Books, OnceEach, OneItemEach
  <2>3. ThingsOf(items)' \subseteq ThingsOf(items)
    BY <2>1 DEF ThingsOf
  <2> QED
    BY <1>1, <1>2, <2>1, <2>2, <2>3, LoopOver
<1>5. CASE EndUpdate
  BY <1>1, <1>5, LoopOver DEF EndUpdate
<1>6. CASE Destroy
  <2>1. ThingsOf(items)' = {}
    BY <1>6 DEF Destroy, ThingsOf
  <2> QED
    BY <1>1, <2>1, LoopOver
<1> QED
  BY <1>3, <1>4, <1>5, <1>6

\* An object that leaves the loop it is updated in.
LEMMA LeaveLoop ==
    ASSUME IInv, NEW o \in Things, pc = "rt", Unregister(o), TakeOffRT(o)
    PROVE  LoopAgrees' /\ UpdatesAgree'
<1> DEFINE n == Len(itemsRT)
<1>1. o = updating /\ updating # None /\ ~movedNow
  BY NoneAssumption DEF Unregister, MayTakeOff, TakeOffRT
<1>2. /\ pastEnd = <<>> /\ n = endRT /\ itemsRT[nextRT] = o /\ nextRT \in 1..n
      /\ itemsRT \in Seq(Things) /\ n \in Nat /\ Distinct(itemsRT)
  BY <1>1 DEF IInv, Books, Types, OnceEach, LoopAgrees
<1>3. /\ itemsRT' = RemoveFirst(itemsRT, o) /\ pastEnd' = <<itemsRT[n]>> \o pastEnd /\ movedNow'
      /\ UNCHANGED <<items, pc, nextRT, endRT, updating, updatedNow>>
  BY DEF TakeOffRT, Unregister, loop, Last
<1>4. /\ itemsRT' \in Seq(Things) /\ Len(itemsRT') = n - 1
      /\ \A other : Contains(itemsRT', other) <=> Contains(itemsRT, other) /\ other # o
  <2>1. Contains(itemsRT, o)
    BY DEF TakeOffRT
  <2> QED
    BY <1>2, <1>3, <2>1, RemoveFirstIs
<1>5. pastEnd' = <<itemsRT[n]>> /\ Len(pastEnd') = 1 /\ itemsRT[n] \in Things
  BY <1>2, <1>3
<1>6. Ahead' = nextRT + 1
  BY <1>1, <1>3 DEF Ahead
<1>7. ASSUME NEW j \in (nextRT + 1)..n, NEW x, x = (itemsRT' \o pastEnd')[j]
      PROVE  Contains(itemsRT', x)
  <2>1. CASE j < n
    <3>1. j \in 1..Len(itemsRT')
      BY <1>2, <1>4, <1>7, <2>1
    <3>2. x = itemsRT'[j]
      BY <1>4, <1>5, <1>7, <3>1
    <3> QED
      BY <3>1, <3>2 DEF Contains
  <2>2. CASE j = n
    <3>1. x = itemsRT[n]
      BY <1>2, <1>4, <1>5, <1>7, <2>2
    <3>2. itemsRT[n] # o /\ Contains(itemsRT, itemsRT[n])
      BY <1>2, <1>7, <2>2 DEF Distinct, Contains
    <3> QED
      BY <1>4, <3>1, <3>2
  <2>3. j < n \/ j = n
    BY <1>2
  <2> QED
    BY <2>1, <2>2, <2>3
<1>8. LoopAgrees'
  BY <1>1, <1>2, <1>3, <1>4, <1>5, <1>6, <1>7 DEF LoopAgrees
<1>9. UpdatesAgree'
  BY <1>3 DEF UpdatesAgree, IInv, ThingsOf
<1> QED
  BY <1>8, <1>9

LEMMA GameLoop ==
    ASSUME IInv, NEW o \in Things,
           \/ \E rt \in BOOLEAN : Register(o, rt)
           \/ Unregister(o) \/ Construct(o) \/ Doom(o) \/ Destruct(o)
    PROVE  LoopAgrees' /\ UpdatesAgree'
<1>1. UNCHANGED <<pc, nextRT, endRT, updating, updatedNow>>
  BY DEF Register, Unregister, Construct, Doom, Destruct, loop, history
<1>2. ThingsOf(items)' \subseteq ThingsOf(items)
  <2>1. items' \subseteq items
    BY DEF Register, Unregister, Construct, Doom, Destruct, TakeOffRT, TakeOffItem, TakeOffCurrent,
           PutOff, lists, Drop
  <2> QED
    BY <2>1 DEF ThingsOf
<1>3. CASE Unregister(o) /\ TakeOffRT(o)
  <2>1. CASE pc = "rt"
    BY <1>3, <2>1, LeaveLoop
  <2>2. CASE pc # "rt"
    <3>1. ThingsOf(items)' \cap updatedNow' = {}
      BY <1>1, <1>2 DEF IInv, UpdatesAgree
    <3> QED
      BY <1>1, <2>2, <3>1, LoopOver
  <2> QED
    BY <2>1, <2>2
<1>4. CASE ~(Unregister(o) /\ TakeOffRT(o))
  <2>1. UNCHANGED <<itemsRT, pastEnd, movedNow>>
    BY <1>4 DEF Register, Unregister, Construct, Doom, Destruct, TakeOffItem, TakeOffCurrent,
                PutOff, lists, history
  <2>2. pc = "rt" => \A other \in Things :
                       OnRTNow(other) /\ life'[other] = "live" => life[other] = "live"
    <3>1. CASE Construct(o)
      <4>1. SUFFICES ASSUME pc = "rt", NEW other \in Things, OnRTNow(other), life'[other] = "live"
                     PROVE  life[other] = "live"
        OBVIOUS
      <4>2. other \in wanted
        BY <4>1, ListedIsWanted DEF IInv
      <4>3. other # o
        BY <3>1, <4>2 DEF Construct, IInv, Books, Phases
      <4> QED
        BY <3>1, <4>1, <4>3 DEF Construct, IInv, Books, Types
    <3>2. CASE Doom(o) \/ Destruct(o)
      BY <3>2 DEF Doom, Destruct, IInv, Books, Types
    <3>3. CASE Unregister(o) \/ \E rt \in BOOLEAN : Register(o, rt)
      BY <3>3 DEF Unregister, Register
    <3> QED
      BY <3>1, <3>2, <3>3
  <2> QED
    BY <1>1, <1>2, <2>1, <2>2, LoopKept
<1> QED
  BY <1>3, <1>4

-----------------------------------------------------------------------------
(* The invariant.                                                          *)

LEMMA InitInvariant ==
    ASSUME Init
    PROVE  IInv
<1>1. /\ IsCalls /\ CallNumbers = {} /\ Alternate /\ ThingsOf(items) = {} /\ ThingsOf(processed) = {}
      /\ \A o : ~Contains(itemsRT, o)
  BY DEF Init, IsCalls, CallNumbers, Alternate, ThingsOf, Contains
<1>2. Types
  <2>1. isRT \in [Things -> BOOLEAN] /\ life \in [Things -> {"live", "doomed", "dead"}]
    BY DEF Init
  <2>2. endRT \in Nat /\ nextRT \in 1..(endRT + 1)
    BY DEF Init
  <2>3. /\ itemsRT \in Seq(Things) /\ pastEnd \in Seq(Things)
        /\ items \in SUBSET [object : Things, due : Int]
        /\ processed \in SUBSET [object : Things, due : Nat]
    BY DEF Init
  <2>4. /\ current \in {None, updating} /\ updating \in Things \cup {None}
        /\ pc \in {"idle", "rt", "step", "overloaded"}
        /\ wanted \subseteq Things /\ updatedNow \subseteq Things /\ movedNow \in BOOLEAN
    BY DEF Init
  <2> QED
    BY <1>1, <2>1, <2>2, <2>3, <2>4 DEF Types
<1>3. Phases /\ OnceEach
  BY <1>1 DEF Init, Phases, OnceEach, Distinct, OneItemEach
<1>4. CallsAgree /\ ListsAgree
  BY <1>1, NoneAssumption DEF Init, CallsAgree, ListsAgree, OnRTNow, OnHeapNow
<1>5. LoopAgrees /\ UpdatesAgree
  BY <1>1 DEF Init, LoopAgrees, UpdatesAgree
<1> QED
  BY <1>2, <1>3, <1>4, <1>5 DEF IInv, Books

LEMMA StepInvariant ==
    ASSUME IInv, Next
    PROVE  IInv'
<1>1. CASE BeginUpdate
  BY <1>1, BeginBooks, BeginLoop DEF IInv
<1>2. CASE NotNeededRT \/ UpdateRT \/ ReturnRT \/ EndRT
  BY <1>2, LoopBooks, InLoop DEF IInv
<1>3. CASE PopNotNeeded \/ UpdateItem \/ ReturnTakenOff \/ ReturnItem
  BY <1>3, StepBooks, AfterLoop DEF IInv
<1>4. CASE EndUpdate
  BY <1>4, EndBooks, AfterLoop DEF IInv
<1>5. ASSUME NEW o \in Things,
             \/ \E rt \in BOOLEAN : Register(o, rt)
             \/ Unregister(o) \/ Construct(o) \/ Doom(o) \/ Destruct(o)
      PROVE  IInv'
  <2>1. Books'
    BY <1>5, RegisterBooks, UnregisterBooks, LifeBooks DEF IInv
  <2>2. LoopAgrees' /\ UpdatesAgree'
    BY <1>5, GameLoop
  <2> QED
    BY <2>1, <2>2 DEF IInv
<1>6. CASE Destroy
  BY <1>6, DestroyBooks, AfterLoop DEF IInv
<1> QED
  BY <1>1, <1>2, <1>3, <1>4, <1>5, <1>6 DEF Next

LEMMA StutterInvariant ==
    ASSUME IInv, UNCHANGED vars
    PROVE  IInv'
<1>1. /\ UNCHANGED <<itemsRT, pastEnd, items, processed, registration, current, isRT, pc, nextRT,
                     endRT, updating, life, wanted, updatedNow, movedNow>>
  BY DEF vars, lists, loop, history
<1>2. IsCalls'
  BY <1>1, SameCalls DEF IInv, Books, Types
<1>3. Types' /\ Phases'
  BY <1>1, <1>2 DEF IInv, Books, Types, Phases
<1>4. OnceEach'
  BY <1>1 DEF IInv, Books, OnceEach, Distinct, OneItemEach, ThingsOf
<1>5. \A o : (OnRTNow(o)' <=> OnRTNow(o)) /\ (OnHeapNow(o)' <=> OnHeapNow(o))
  BY <1>1 DEF OnRTNow, OnHeapNow, ThingsOf
<1>6. ThingsOf(items)' = ThingsOf(items)
  BY <1>1 DEF ThingsOf
<1>7. Books'
  BY <1>1, <1>3, <1>4, <1>5, <1>6, BooksKept DEF IInv
<1>8. LoopAgrees' /\ UpdatesAgree'
  BY <1>1, <1>6, LoopKept
<1> QED
  BY <1>7, <1>8 DEF IInv

\* The calls that are put off agree with what is registered and with what the
\* lists hold, the loop over ItemsRT is at what is registered, and the frame
\* has updated what is behind it.
THEOREM Invariant == Spec => []IInv
<1>1. Init => IInv
  BY InitInvariant
<1>2. IInv /\ [Next]_vars => IInv'
  BY StepInvariant, StutterInvariant
<1> QED
  BY <1>1, <1>2, PTL DEF Spec

-----------------------------------------------------------------------------
(* Who waits.                                                              *)

\* There are no more items than things.
LEMMA FewItems ==
    ASSUME NEW list \in SUBSET [object : Things, due : Int], OneItemEach(list)
    PROVE  IsFiniteSet(list) /\ Cardinality(list) <= Cardinality(Things)
<1> DEFINE f == [item \in list |-> item.object]
<1>1. f \in Injection(list, Things)
  <2>1. f \in [list -> Things]
    OBVIOUS
  <2>2. \A x, y \in list : f[x] = f[y] => x = y
    BY DEF OneItemEach
  <2> QED
    BY <2>1, <2>2 DEF Injection, IsInjective
<1> QED
  BY <1>1, FS_Injection, SchedulerBounds

LEMMA LateAreFinite ==
    ASSUME IInv, NEW k
    PROVE  IsFiniteSet(Late(k)) /\ Cardinality(Late(k)) \in Nat
<1>1. IsFiniteSet(items)
  BY FewItems DEF IInv, Books, Types, OnceEach
<1>2. IsFiniteSet(Late(k))
  BY <1>1, FS_Subset DEF Late
<1> QED
  BY <1>2, FS_CardinalityType

LEMMA ManyThings == Cardinality(Things) \in Nat
  BY SchedulerBounds, FS_CardinalityType

LEMMA FewerLate ==
    ASSUME IInv, LateOnes, \A k \in Nat \ {0} : Late(k)' \subseteq Late(k), Waiting => Waiting'
    PROVE  LateOnes'
<1>1. SUFFICES ASSUME NEW k \in Nat \ {0}, Late(k)' # {}
               PROVE  Cardinality(Late(k)') + k <= Cardinality(Things) + (IF Waiting' THEN 1 ELSE 0)
  BY DEF LateOnes
<1>2. Late(k) # {} /\ IsFiniteSet(Late(k)) /\ Late(k)' \in SUBSET Late(k)
  BY <1>1, LateAreFinite
<1>3. /\ Cardinality(Late(k)') \in Nat /\ Cardinality(Late(k)) \in Nat
      /\ Cardinality(Late(k)') <= Cardinality(Late(k))
  BY <1>2, FS_Subset, FS_CardinalityType
<1>4. Cardinality(Late(k)) + k <= Cardinality(Things) + (IF Waiting THEN 1 ELSE 0)
  BY <1>2 DEF LateOnes
<1> QED
  BY <1>3, <1>4, ManyThings

\* A frame begins: those who are late now were so by one frame less before.
LEMMA BeginLate ==
    ASSUME IInv, IInv', LateOnes, BeginUpdate
    PROVE  LateOnes'
<1>1. /\ items \in SUBSET [object : Things, due : Int] /\ OneItemEach(items)
      /\ items' \in SUBSET [object : Things, due : Int] /\ OneItemEach(items')
  BY DEF IInv, Books, Types, OnceEach, OneItemEach
<1>2. ~Waiting /\ Waiting'
  BY DEF BeginUpdate, Waiting
<1>3. items' \subseteq Aged(items) \cup {Item(o, 0) : o \in Things}
  <2> DEFINE normal == Aged(items)
             r == InternalRegistration([Lists EXCEPT !.normal = normal])
  <2>1. /\ normal \in SUBSET [object : Things, due : Int] /\ OneItemEach(normal)
        /\ ThingsOf(normal) = ThingsOf(items)
    BY <1>1, AgedIs
  <2>2. [Lists EXCEPT !.normal = Aged(@)] = [Lists EXCEPT !.normal = normal]
    BY DEF Lists
  <2>3. items' = r.normal /\ processed = {} /\ current = None
    BY <2>2 DEF BeginUpdate, IInv, Books, Phases
  <2> HIDE DEF normal
  <2>4. \A o \in Things : o \in ThingsOf(normal) <=> OnHeapNow(o)
    BY <2>1, <2>3, NoneAssumption DEF OnHeapNow, ThingsOf
  <2>5. r.normal \subseteq normal \cup {Item(o, 0) : o \in Things}
    BY <2>1, <2>4, Carried DEF IInv
  <2> QED
    BY <2>3, <2>5 DEF normal
<1>4. ASSUME NEW k \in Nat \ {0}, Late(k)' # {}
      PROVE  Cardinality(Late(k)') + k <= Cardinality(Things) + 1
  <2>1. IsFiniteSet(items') /\ Cardinality(items') <= Cardinality(Things)
    BY <1>1, FewItems
  <2>2. /\ Cardinality(Late(k)') \in Nat /\ Cardinality(items') \in Nat
        /\ Cardinality(Late(k)') <= Cardinality(items')
    <3>1. Late(k)' \in SUBSET items'
      BY DEF Late
    <3> QED
      BY <2>1, <3>1, FS_Subset, FS_CardinalityType
  <2>3. CASE k = 1
    BY <2>1, <2>2, <2>3, ManyThings
  <2>4. CASE k # 1
    <3> DEFINE before(item) == [object |-> item.object, due |-> item.due + 1]
               f == [item \in Late(k)' |-> before(item)]
    <3>1. k - 1 \in Nat \ {0}
      BY <2>4
    <3>2. ASSUME NEW item \in Late(k)' PROVE before(item) \in Late(k - 1)
      <4>1. item \in items' /\ item.due <= -k /\ item.due \in Int
        BY <1>1 DEF Late
      <4>2. \A o \in Things : item # Item(o, 0)
        BY <4>1 DEF Item
      <4>3. PICK old \in items : item = [old EXCEPT !.due = old.due - 1]
        BY <1>3, <4>1, <4>2 DEF Aged
      <4>4. old \in [object : Things, due : Int]
        BY <1>1
      <4>5. item.object = old.object /\ item.due = old.due - 1
        BY <4>3, <4>4
      <4>6. before(item) = old /\ old.due <= -(k - 1)
        BY <4>1, <4>4, <4>5
      <4> QED
        BY <4>6 DEF Late
    <3>3. \A x, y \in Late(k)' : before(x) = before(y) => x = y
      <4>1. SUFFICES ASSUME NEW x \in Late(k)', NEW y \in Late(k)', before(x) = before(y)
                     PROVE  x = y
        OBVIOUS
      <4>2. x \in items' /\ y \in items' /\ x.object = y.object
        BY <4>1 DEF Late
      <4> QED
        BY <1>1, <4>2 DEF OneItemEach
    <3>4. f \in Injection(Late(k)', Late(k - 1))
      <4> HIDE DEF before
      <4>1. f \in [Late(k)' -> Late(k - 1)]
        BY <3>2
      <4>2. \A x, y \in Late(k)' : f[x] = f[y] => x = y
        BY <3>3
      <4> QED
        BY <4>1, <4>2 DEF Injection, IsInjective
    <3>5. /\ IsFiniteSet(Late(k - 1)) /\ Cardinality(Late(k - 1)) \in Nat
          /\ Late(k - 1) # {}
      BY <1>4, <3>2, LateAreFinite
    <3>6. Cardinality(Late(k)') <= Cardinality(Late(k - 1))
      BY <3>4, <3>5, FS_Injection
    <3>7. Cardinality(Late(k - 1)) + (k - 1) <= Cardinality(Things)
      BY <1>2, <3>1, <3>5, ManyThings DEF LateOnes
    <3> QED
      BY <2>2, <3>5, <3>6, <3>7, ManyThings
  <2> QED
    BY <2>3, <2>4
<1> QED
  BY <1>2, <1>4 DEF LateOnes

\* The first in the heap is the one who has waited longest.
LEMMA UpdateLate ==
    ASSUME IInv, LateOnes, UpdateItem
    PROVE  LateOnes'
<1>1. PICK item \in Top : items' = items \ {item} /\ updating' = item.object
  BY DEF UpdateItem
<1>2. /\ item \in items /\ items \in SUBSET [object : Things, due : Int] /\ item.due < 0
      /\ \A other \in Overdue : item.due <= other.due
  BY DEF Top, Overdue, IInv, Books, Types
<1>3. Waiting
  BY DEF UpdateItem, Waiting
<1>4. SUFFICES ASSUME NEW k \in Nat \ {0}, Late(k)' # {}
               PROVE  Cardinality(Late(k)') + k <= Cardinality(Things)
  <2>1. Cardinality(Things) \in Nat
    BY ManyThings
  <2>2. \A k \in Nat \ {0} : Late(k)' # {} => Cardinality(Late(k)') \in Nat
    <3>1. \A k \in Nat \ {0} : Late(k)' \in SUBSET Late(k)
      BY <1>1 DEF Late
    <3> QED
      BY <3>1, LateAreFinite, FS_Subset, FS_CardinalityType
  <2> QED
    BY <1>4, <2>1, <2>2 DEF LateOnes
<1>5. item \in Late(k)
  <2>1. PICK other \in items : other.due <= -k
    BY <1>1, <1>4 DEF Late
  <2>2. other.due \in Int /\ item.due \in Int
    BY <1>2
  <2>3. other \in Overdue
    BY <1>4, <2>1, <2>2 DEF Overdue
  <2>4. item.due <= other.due
    BY <1>2, <2>3
  <2> QED
    BY <1>2, <1>4, <2>1, <2>2, <2>4 DEF Late
<1>6. Late(k)' = Late(k) \ {item}
  BY <1>1 DEF Late
<1>7. IsFiniteSet(Late(k)) /\ Cardinality(Late(k)) \in Nat
  BY LateAreFinite
<1>8. Cardinality(Late(k)') = Cardinality(Late(k)) - 1
  BY <1>5, <1>6, <1>7, FS_RemoveElement
<1>9. Cardinality(Late(k)) + k <= Cardinality(Things) + 1
  BY <1>3, <1>4, <1>5 DEF LateOnes
<1> QED
  BY <1>4, <1>7, <1>8, <1>9, ManyThings

LEMMA EndLate ==
    ASSUME IInv, LateOnes, EndUpdate
    PROVE  LateOnes'
<1> DEFINE normal == items \cup processed
           r == InternalRegistration([Lists EXCEPT !.normal = normal])
<1>1. current = None
  BY DEF EndUpdate, IInv, Books, Types
<1>2. normal \in SUBSET [object : Things, due : Int]
  BY DEF IInv, Books, Types
<1>3. OneItemEach(normal)
  <2>1. \A x \in items, y \in processed : x.object # y.object
    BY DEF IInv, Books, OnceEach, ThingsOf
  <2> QED
    BY <2>1 DEF IInv, Books, OnceEach, OneItemEach
<1>4. [Lists EXCEPT !.normal = @ \cup processed] = [Lists EXCEPT !.normal = normal]
  BY DEF Lists
<1>5. items' = r.normal
  BY <1>4 DEF EndUpdate
<1>6. \A o \in Things : o \in ThingsOf(normal) <=> OnHeapNow(o)
  BY <1>1, NoneAssumption DEF OnHeapNow, ThingsOf
<1>7. items' \subseteq items \cup processed \cup {Item(o, 0) : o \in Things}
  BY <1>2, <1>3, <1>5, <1>6, Carried DEF IInv
<1>8. \A item \in processed \cup {Item(o, 0) : o \in Things} : item.due \in Nat
  BY DEF IInv, Books, Types, Item
<1>9. ASSUME NEW k \in Nat \ {0} PROVE Late(k)' \subseteq Late(k)
  <2>1. SUFFICES ASSUME NEW item \in items', item.due <= -k PROVE item \in items
    BY DEF Late
  <2>2. item.due \notin Nat
    BY <2>1
  <2> QED
    BY <1>7, <1>8, <2>1, <2>2
<1>10. CASE Overdue = {}
  <2>1. ASSUME NEW k \in Nat \ {0} PROVE Late(k) = {}
    <3>1. \A item \in items : item.due \in Int
      BY DEF IInv, Books, Types
    <3> QED
      BY <1>10, <3>1 DEF Late, Overdue
  <2> QED
    BY <1>9, <2>1 DEF LateOnes
<1>11. CASE Overdue # {}
  <2>1. pc = "overloaded"
    BY <1>11 DEF EndUpdate
  <2>2. ~Waiting
    BY <2>1 DEF Waiting
  <2> QED
    BY <1>9, <2>2, FewerLate
<1> QED
  BY <1>10, <1>11

LEMMA StepLate ==
    ASSUME IInv, IInv', LateOnes, [Next]_vars
    PROVE  LateOnes'
<1>1. ASSUME items' \subseteq items, Waiting => Waiting' PROVE LateOnes'
  BY <1>1, FewerLate DEF Late
<1>2. CASE BeginUpdate
  BY <1>2, BeginLate
<1>3. CASE NotNeededRT \/ UpdateRT \/ ReturnRT \/ EndRT
  <2>1. items' = items /\ (pc' = "rt" \/ (pc' = "step" /\ updating' = None))
    BY <1>3 DEF NotNeededRT, UpdateRT, ReturnRT, EndRT, lists, loop
  <2> QED
    BY <1>1, <2>1 DEF Waiting
<1>4. CASE PopNotNeeded
  <2>1. items' \subseteq items /\ UNCHANGED <<pc, updating>>
    BY <1>4 DEF PopNotNeeded, loop
  <2> QED
    BY <1>1, <2>1 DEF Waiting
<1>5. CASE UpdateItem
  BY <1>5, UpdateLate
<1>6. CASE ReturnTakenOff \/ ReturnItem
  <2>1. items' = items /\ ~Waiting
    BY <1>6 DEF ReturnTakenOff, ReturnItem, lists, Waiting
  <2> QED
    BY <1>1, <2>1
<1>7. CASE EndUpdate
  BY <1>7, EndLate
<1>8. ASSUME NEW o \in Things,
             \/ \E rt \in BOOLEAN : Register(o, rt)
             \/ Unregister(o) \/ Construct(o) \/ Doom(o) \/ Destruct(o)
      PROVE  LateOnes'
  <2>1. items' \subseteq items
    BY <1>8 DEF Register, Unregister, Construct, Doom, Destruct, TakeOffRT, TakeOffItem,
                TakeOffCurrent, PutOff, lists, Drop
  <2>2. UNCHANGED <<pc, updating>>
    BY <1>8 DEF Register, Unregister, Construct, Doom, Destruct, loop
  <2> QED
    BY <1>1, <2>1, <2>2 DEF Waiting
<1>9. CASE Destroy
  <2>1. items' \subseteq items /\ UNCHANGED <<pc, updating>>
    BY <1>9 DEF Destroy, loop
  <2> QED
    BY <1>1, <2>1 DEF Waiting
<1>10. CASE UNCHANGED vars
  BY <1>1, <1>10 DEF vars, lists, loop, Waiting
<1> QED
  BY <1>2, <1>3, <1>4, <1>5, <1>6, <1>7, <1>8, <1>9, <1>10 DEF Next

\* If somebody has waited for k frames beyond his time, there are at most as
\* many in his place or worse as there are things, less k.
THEOREM LateAreFew == Spec => []LateOnes
<1>1. Init => LateOnes
  BY DEF Init, LateOnes, Late
<1>2. IInv /\ IInv' /\ LateOnes /\ [Next]_vars => LateOnes'
  BY StepLate
<1> QED
  BY <1>1, <1>2, Invariant, PTL DEF Spec

\* A frame over its budget stops after one update at the earliest and takes the
\* most overdue first: nobody waits for more frames than there are things.
THEOREM NobodyWaitsLong == Spec => []NobodyStarves
<1>1. IInv /\ LateOnes => NobodyStarves
  <2>1. SUFFICES ASSUME IInv, LateOnes, NEW item \in items, ~(item.due >= -Cardinality(Things))
                 PROVE  FALSE
    BY DEF NobodyStarves
  <2> DEFINE k == Cardinality(Things) + 1
  <2>2. k \in Nat \ {0} /\ Cardinality(Things) \in Nat
    BY ManyThings
  <2>3. item \in Late(k)
    <3>1. item.due \in Int
      BY <2>1 DEF IInv, Books, Types
    <3> QED
      BY <2>1, <2>2, <3>1 DEF Late
  <2>4. IsFiniteSet(Late(k)) /\ Cardinality(Late(k)) \in Nat
    BY <2>1, LateAreFinite
  <2>5. Cardinality(Late(k)) # 0
    BY <2>3, <2>4, FS_EmptySet
  <2>6. Cardinality(Late(k)) + k <= Cardinality(Things) + (IF Waiting THEN 1 ELSE 0)
    BY <2>1, <2>2, <2>3 DEF LateOnes
  <2> QED
    BY <2>2, <2>4, <2>5, <2>6
<1> QED
  BY <1>1, Invariant, LateAreFew, PTL

-----------------------------------------------------------------------------
(* What the runs check, for every number of things.                        *)

\* The lists hold things, m_current_step_obj is what is being updated or
\* nothing, and the loop is at a slot it may be at.
THEOREM TypeCorrect == Spec => []TypeOK
<1>1. IInv => TypeOK
  BY DEF IInv, Books, Types, IsCalls, TypeOK
<1> QED
  BY <1>1, Invariant, PTL

\* The lists as they will be.
LEMMA SettledIs ==
    ASSUME IInv
    PROVE  /\ IsLists(Settled) /\ Settled.kind = isRT
           /\ Settled.touched \subseteq wanted
           /\ \A o \in Things :
                 /\ OnRT(Settled, o) => isRT[o] /\ o \in wanted
                 /\ OnHeap(Settled, o) => ~isRT[o] /\ o \in wanted
                 /\ o \in wanted /\ life[o] = "live" => OnRT(Settled, o) \/ OnHeap(Settled, o)
<1> DEFINE back == IF current = None THEN {} ELSE {Item(current, 0)}
           normal == items \cup processed \cup back
<1>1. Settled = InternalRegistration([Lists EXCEPT !.normal = normal])
  BY DEF Settled, Lists
<1>2. /\ back \in SUBSET [object : Things, due : Int]
      /\ \A item \in back : item = Item(current, 0) /\ item.object = current
      /\ \A o \in Things : o = current => \E item \in back : item.object = o
  <2>1. CASE current = None
    BY <2>1, NoneAssumption
  <2>2. CASE current # None
    <3>1. current \in Things
      BY <2>2 DEF IInv, Books, Types
    <3>2. /\ Item(current, 0) \in [object : Things, due : Int]
          /\ Item(current, 0).object = current
      BY <3>1 DEF Item
    <3>3. back = {Item(current, 0)}
      BY <2>2
    <3> HIDE DEF back
    <3> QED
      BY <3>2, <3>3
  <2> QED
    BY <2>1, <2>2
<1> HIDE DEF back
<1>3. normal \in SUBSET [object : Things, due : Int]
  BY <1>2 DEF IInv, Books, Types
<1>4. OneItemEach(normal)
  <2>1. \A x \in items, y \in processed : x.object # y.object
    BY DEF IInv, Books, OnceEach, ThingsOf
  <2>2. \A x \in items \cup processed, y \in back : x.object # y.object
    BY <1>2 DEF IInv, Books, OnceEach, ThingsOf
  <2>3. OneItemEach(items) /\ OneItemEach(processed) /\ OneItemEach(back)
    BY <1>2 DEF IInv, Books, OnceEach, OneItemEach
  <2> QED
    BY <2>1, <2>2, <2>3 DEF OneItemEach
<1>5. \A o \in Things : o \in ThingsOf(normal) <=> OnHeapNow(o)
  BY <1>2 DEF OnHeapNow, ThingsOf
<1> HIDE DEF normal
<1> QED
  BY <1>1, <1>3, <1>4, <1>5, Carried DEF IInv

\* On a list, and once.
LEMMA OccurrencesAre ==
    ASSUME NEW q, IsLists(q), NEW o \in Things
    PROVE  Occurrences(q, o) = (IF OnRT(q, o) THEN 1 ELSE 0) + (IF OnHeap(q, o) THEN 1 ELSE 0)
<1> DEFINE slots == {i \in DOMAIN q.rt : q.rt[i] = o}
           entries == {item \in q.normal : item.object = o}
<1>1. q.rt \in Seq(Things) /\ DOMAIN q.rt = 1..Len(q.rt)
  BY DEF IsLists
<1>2. Cardinality(slots) = IF OnRT(q, o) THEN 1 ELSE 0
  <2>1. CASE OnRT(q, o)
    <3>1. PICK i \in 1..Len(q.rt) : q.rt[i] = o
      BY <2>1 DEF OnRT, Contains
    <3>2. slots = {i}
      BY <1>1, <3>1 DEF IsLists, Distinct
    <3> QED
      BY <2>1, <3>2, FS_Singleton
  <2>2. CASE ~OnRT(q, o)
    <3>1. slots = {}
      BY <1>1, <2>2 DEF OnRT, Contains
    <3> QED
      BY <2>2, <3>1, FS_EmptySet
  <2> QED
    BY <2>1, <2>2
<1>3. Cardinality(entries) = IF OnHeap(q, o) THEN 1 ELSE 0
  <2>1. CASE OnHeap(q, o)
    <3>1. PICK item \in q.normal : item.object = o
      BY <2>1 DEF OnHeap, ThingsOf
    <3>2. entries = {item}
      BY <3>1 DEF IsLists, OneItemEach
    <3> QED
      BY <2>1, <3>2, FS_Singleton
  <2>2. CASE ~OnHeap(q, o)
    <3>1. entries = {}
      BY <2>2 DEF OnHeap, ThingsOf
    <3> QED
      BY <2>2, <3>1, FS_EmptySet
  <2> QED
    BY <2>1, <2>2
<1> QED
  BY <1>2, <1>3 DEF Occurrences

\* Whatever was registered and taken off before, in and after updates: once the
\* calls are carried out, what is registered is on one list, once, on the one
\* that internal_Unregister will look through, and nothing else is on any.
THEOREM BooksAreAlwaysKept == Spec => []BooksAreKept
<1>1. IInv => BooksAreKept
  <2> DEFINE q == Settled
  <2>1. SUFFICES ASSUME IInv, NEW o \in Things
                 PROVE  /\ life[o] = "live" => Occurrences(q, o) = (IF o \in wanted THEN 1 ELSE 0)
                        /\ Occurrences(q, o) <= (IF o \in wanted THEN 1 ELSE 0)
                        /\ (\E i \in DOMAIN q.rt : q.rt[i] = o) => q.kind[o]
                        /\ o \in ThingsOf(q.normal) => ~q.kind[o]
    BY DEF BooksAreKept
  <2>2. /\ IsLists(q) /\ q.kind = isRT
        /\ OnRT(q, o) => isRT[o] /\ o \in wanted
        /\ OnHeap(q, o) => ~isRT[o] /\ o \in wanted
        /\ o \in wanted /\ life[o] = "live" => OnRT(q, o) \/ OnHeap(q, o)
    BY <2>1, SettledIs
  <2> HIDE DEF q
  <2>3. Occurrences(q, o) = (IF OnRT(q, o) THEN 1 ELSE 0) + (IF OnHeap(q, o) THEN 1 ELSE 0)
    BY <2>2, OccurrencesAre
  <2>4. (\E i \in DOMAIN q.rt : q.rt[i] = o) => OnRT(q, o)
    BY <2>2 DEF OnRT, Contains, IsLists
  <2> QED
    BY <2>2, <2>3, <2>4 DEF OnHeap
<1> QED
  BY <1>1, Invariant, PTL

\* internal_Registration registers nothing that was destroyed in the meantime.
THEOREM NothingEverDangles == Spec => []NothingDangles
<1>1. IInv => NothingDangles
  BY SettledIs DEF NothingDangles, IInv, Books, Phases
<1> QED
  BY <1>1, Invariant, PTL

\* No object is updated twice in a frame, and no realtime object left out,
\* unless one of them took itself off in the loop.
THEOREM UpdatesOnceAFrame == Spec => ServedOnceAFrame
<1> DEFINE Once == \/ updating' \in {None, updating} \/ updating' \notin updatedNow \/ movedNow
           All == pc = "rt" /\ pc' = "step" /\ ~movedNow =>
                     \A i \in DOMAIN itemsRT :
                         life[itemsRT[i]] = "live" => itemsRT[i] \in updatedNow
<1>1. ASSUME IInv, Next PROVE Once
  <2>1. CASE UpdateRT
    <3>1. SUFFICES ASSUME ~movedNow PROVE AtSlot \notin updatedNow
      BY <2>1 DEF UpdateRT
    <3>2. /\ pc = "rt" /\ updating = None /\ nextRT <= endRT /\ pastEnd = <<>>
          /\ itemsRT \in Seq(Things) /\ Len(itemsRT) = endRT /\ nextRT \in 1..endRT
      BY <1>1, <2>1, <3>1 DEF UpdateRT, IInv, Books, Types, LoopAgrees
    <3>3. AtSlot = itemsRT[nextRT] /\ Ahead = nextRT
      BY <3>2 DEF AtSlot, Ahead
    <3>4. \A j \in 1..(nextRT - 1) : itemsRT[j] # itemsRT[nextRT]
      BY <1>1, <3>2 DEF IInv, Books, OnceEach, Distinct
    <3> QED
      BY <1>1, <3>1, <3>2, <3>3, <3>4 DEF IInv, UpdatesAgree
  <2>2. CASE UpdateItem
    <3>1. PICK item \in items : updating' = item.object
      BY <2>2 DEF UpdateItem, Top, Overdue
    <3> QED
      BY <1>1, <3>1 DEF IInv, UpdatesAgree, ThingsOf
  <2>3. CASE ~UpdateRT /\ ~UpdateItem
    <3>1. updating' \in {None, updating}
      BY <1>1, <2>3 DEF Next, BeginUpdate, NotNeededRT, ReturnRT, EndRT, PopNotNeeded, ReturnTakenOff,
                        ReturnItem, EndUpdate, Register, Unregister, Construct, Doom, Destruct, Destroy
    <3> QED
      BY <3>1
  <2> QED
    BY <2>1, <2>2, <2>3
<1>2. ASSUME IInv, Next PROVE All
  <2>1. SUFFICES ASSUME pc = "rt", pc' = "step", ~movedNow, NEW i \in DOMAIN itemsRT,
                        life[itemsRT[i]] = "live"
                 PROVE  itemsRT[i] \in updatedNow
    OBVIOUS
  <2>2. EndRT
    BY <1>2, <2>1 DEF Next, BeginUpdate, NotNeededRT, UpdateRT, ReturnRT, PopNotNeeded, UpdateItem,
                      ReturnTakenOff, ReturnItem, EndUpdate, Register, Unregister, Construct, Doom,
                      Destruct, Destroy, loop
  <2>3. updating = None /\ nextRT > endRT /\ Len(itemsRT) + Len(pastEnd) = endRT /\ pastEnd = <<>>
    BY <1>2, <2>1, <2>2 DEF EndRT, IInv, LoopAgrees
  <2>4. Ahead = nextRT /\ i \in 1..(nextRT - 1)
    BY <1>2, <2>1, <2>3 DEF Ahead, IInv, Books, Types
  <2> QED
    BY <1>2, <2>1, <2>4 DEF IInv, UpdatesAgree
<1>3. IInv /\ [Next]_vars => [Once /\ All]_vars
  BY <1>1, <1>2
<1> QED
  BY <1>3, Invariant, PTL DEF Spec, ServedOnceAFrame

\* Each step is one of the abstract scheduler, or none.
LEMMA StepRefines ==
    ASSUME IInv, [Next]_vars
    PROVE  [Abstract!SetNext]_(Abstract!setVars)
<1> DEFINE doomed == {o \in Things : life[o] # "live"}
<1>1. ASSUME UNCHANGED <<wanted, life, updating>> PROVE UNCHANGED Abstract!setVars
  BY <1>1 DEF Abstract!setVars
<1>2. CASE BeginUpdate \/ NotNeededRT \/ EndRT \/ PopNotNeeded \/ EndUpdate
  BY <1>1, <1>2 DEF BeginUpdate, NotNeededRT, EndRT, PopNotNeeded, EndUpdate, history
<1>3. CASE UpdateRT
  <2>1. AtSlot \in Things /\ AtSlot \in wanted
    BY <1>3, SlotIs, ListedIsWanted DEF UpdateRT, IInv
  <2>2. Abstract!BeginUpdate(AtSlot)
    BY <1>3, <2>1 DEF UpdateRT, Abstract!BeginUpdate
  <2> QED
    BY <2>1, <2>2 DEF Abstract!SetNext
<1>4. CASE UpdateItem
  <2>1. PICK item \in items : life[item.object] = "live" /\ updating' = item.object
    BY <1>4 DEF UpdateItem, Top, Overdue
  <2>2. item.object \in Things /\ item.object \in ThingsOf(items)
    BY DEF IInv, Books, Types, ThingsOf
  <2>3. item.object \in wanted
    BY <1>4, <2>2, ListedIsWanted DEF UpdateItem, IInv
  <2>4. Abstract!BeginUpdate(item.object)
    BY <1>4, <2>1, <2>2, <2>3 DEF UpdateItem, Abstract!BeginUpdate
  <2> QED
    BY <2>2, <2>4 DEF Abstract!SetNext
<1>5. CASE ReturnRT \/ ReturnTakenOff \/ ReturnItem
  <2>1. Abstract!EndUpdate
    BY <1>5 DEF ReturnRT, ReturnTakenOff, ReturnItem, history, Abstract!EndUpdate
  <2> QED
    BY <2>1 DEF Abstract!SetNext
<1>6. ASSUME NEW o \in Things,
             \/ \E rt \in BOOLEAN : Register(o, rt)
             \/ Unregister(o) \/ Construct(o) \/ Doom(o) \/ Destruct(o)
      PROVE  Abstract!SetNext
  <2>1. CASE \E rt \in BOOLEAN : Register(o, rt)
    <3>1. Abstract!Enter(o)
      BY <2>1 DEF Register, Abstract!Enter
    <3> QED
      BY <3>1 DEF Abstract!SetNext
  <2>2. CASE Unregister(o)
    <3>1. Abstract!Leave(o)
      BY <2>2 DEF Unregister, Abstract!Leave
    <3> QED
      BY <3>1 DEF Abstract!SetNext
  <2>3. CASE Construct(o)
    <3>1. o \notin wanted /\ updating # o
      BY <2>3, NoneAssumption DEF Construct, IInv, Books, Phases
    <3>2. doomed' = doomed \ {o}
      BY <2>3 DEF Construct, IInv, Books, Types
    <3>3. Abstract!Make(o)
      BY <2>3, <3>1, <3>2 DEF Construct, history, Abstract!Make
    <3> QED
      BY <3>3 DEF Abstract!SetNext
  <2>4. CASE Doom(o) \/ Destruct(o)
    <3>1. doomed' = doomed \cup {o}
      BY <2>4 DEF Doom, Destruct, IInv, Books, Types
    <3>2. Abstract!Doom(o)
      BY <2>4, <3>1 DEF Doom, Destruct, history, Abstract!Doom
    <3> QED
      BY <3>2 DEF Abstract!SetNext
  <2> QED
    BY <1>6, <2>1, <2>2, <2>3, <2>4
<1>7. CASE Destroy
  <2>1. Abstract!Dissolve
    BY <1>7 DEF Destroy, Abstract!Dissolve
  <2> QED
    BY <2>1 DEF Abstract!SetNext
<1>8. CASE UNCHANGED vars
  BY <1>1, <1>8 DEF vars, history
<1> QED
  BY <1>2, <1>3, <1>4, <1>5, <1>6, <1>7, <1>8 DEF Next

\* The scheduler updates one object at a time, one that is registered and that
\* nobody is about to destroy.
THEOREM Refinement == Spec => ImplementsScheduledSet
<1>1. Init => Abstract!SetInit
  BY DEF Init, Abstract!SetInit
<1>2. IInv /\ [Next]_vars => [Abstract!SetNext]_(Abstract!setVars)
  BY StepRefines
<1> QED
  BY <1>1, <1>2, Invariant, PTL DEF Spec, ImplementsScheduledSet, Abstract!SetSpec
=============================================================================
