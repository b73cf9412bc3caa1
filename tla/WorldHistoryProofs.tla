------------------------- MODULE WorldHistoryProofs -------------------------
(***************************************************************************)
(* The history of a world, for any capacities, populations and requests    *)
(* and any names of one word: the log accounts for the population, a       *)
(* replay on the baseline reproduces the world and one on another baseline *)
(* is noticed, exactly the histories without a rejected call survive a     *)
(* snapshot, and no cut-off snapshot is taken for a whole one.             *)
(***************************************************************************)
EXTENDS WorldHistory, WorldStateProofs

-----------------------------------------------------------------------------
(* What the log says of a population.                                      *)

Its(log, r, s, i) == IF log[i].region = r /\ log[i].species = s THEN log[i].applied ELSE 0
IsTotal(run, log, r, s, n) ==
    run = [i \in 0..n |-> IF i = 0 THEN 0 ELSE run[i - 1] + Its(log, r, s, i)]

LEMMA TotalExists ==
    ASSUME NEW log, NEW r, NEW s
    PROVE  \A n \in Nat : \E run : IsTotal(run, log, r, s, n)
<1> DEFINE S == {n \in Nat : \E run : IsTotal(run, log, r, s, n)}
<1>1. 0 \in S
  <2>1. IsTotal([i \in 0..0 |-> 0], log, r, s, 0)
    BY DEF IsTotal
  <2> QED
    BY <2>1
<1>2. ASSUME NEW n \in Nat, n \in S PROVE n + 1 \in S
  <2>1. PICK run : IsTotal(run, log, r, s, n)
    BY <1>2
  <2> DEFINE more == [i \in 0..(n + 1) |-> IF i = n + 1 THEN run[n] + Its(log, r, s, n + 1)
                                           ELSE run[i]]
  <2>2. \A i \in 0..n : more[i] = run[i]
    OBVIOUS
  <2>3. ASSUME NEW i \in 0..(n + 1)
        PROVE  more[i] = IF i = 0 THEN 0 ELSE more[i - 1] + Its(log, r, s, i)
    <3>1. CASE i = n + 1
      BY <2>2, <3>1
    <3>2. CASE i # n + 1
      <4>1. i \in 0..n /\ (i # 0 => i - 1 \in 0..n)
        BY <3>2
      <4>2. run[i] = IF i = 0 THEN 0 ELSE run[i - 1] + Its(log, r, s, i)
        BY <2>1, <4>1 DEF IsTotal
      <4> QED
        BY <2>2, <4>1, <4>2
    <3> QED
      BY <3>1, <3>2
  <2>4. IsTotal(more, log, r, s, n + 1)
    <3>1. more = [i \in 0..(n + 1) |-> more[i]]
      OBVIOUS
    <3> QED
      BY <2>3, <3>1 DEF IsTotal
  <2> QED
    BY <2>4
<1> HIDE DEF S
<1>3. Nat \subseteq S
  BY <1>1, <1>2, AllNaturals
<1> QED
  BY <1>3 DEF S

LEMMA AppliedToIs ==
    ASSUME NEW log, Len(log) \in Nat, NEW r, NEW s
    PROVE  \E run : /\ run[0] = 0
                    /\ \A i \in 1..Len(log) : run[i] = run[i - 1] + Its(log, r, s, i)
                    /\ AppliedTo(log, r, s) = run[Len(log)]
<1> DEFINE run == CHOOSE run : IsTotal(run, log, r, s, Len(log))
<1>1. IsTotal(run, log, r, s, Len(log))
  BY TotalExists
<1>2. AppliedTo(log, r, s) = run[Len(log)]
  BY DEF AppliedTo, IsTotal, Its
<1> HIDE DEF run
<1>3. run[0] = 0 /\ \A i \in 1..Len(log) : run[i] = run[i - 1] + Its(log, r, s, i)
  BY <1>1 DEF IsTotal
<1> QED
  BY <1>2, <1>3

LEMMA NothingApplied ==
    ASSUME NEW r, NEW s
    PROVE  AppliedTo(<<>>, r, s) = 0
<1>1. Len(<<>>) = 0
  BY EmptySeq
<1> QED
  BY <1>1, AppliedToIs

\* One more record counts for its own pair.
LEMMA OneMoreApplied ==
    ASSUME NEW log \in Seq(CallRecords), NEW record \in CallRecords, NEW r, NEW s
    PROVE  AppliedTo(Append(log, record), r, s) = AppliedTo(log, r, s)
               + IF record.region = r /\ record.species = s THEN record.applied ELSE 0
<1> DEFINE more == Append(log, record)
           n == Len(log)
<1>1. /\ n \in Nat /\ Len(more) = n + 1 /\ more[n + 1] = record
      /\ \A i \in 1..n : more[i] = log[i]
  BY AppendProperties
<1> HIDE DEF more, n
<1>2. PICK run : /\ run[0] = 0
                 /\ \A i \in 1..n : run[i] = run[i - 1] + Its(log, r, s, i)
                 /\ AppliedTo(log, r, s) = run[n]
  BY <1>1, AppliedToIs DEF n
<1>3. PICK longer : /\ longer[0] = 0
                    /\ \A i \in 1..(n + 1) : longer[i] = longer[i - 1] + Its(more, r, s, i)
                    /\ AppliedTo(more, r, s) = longer[n + 1]
  <2>1. Len(more) \in Nat
    BY <1>1
  <2>2. PICK run2 : /\ run2[0] = 0
                    /\ \A i \in 1..Len(more) : run2[i] = run2[i - 1] + Its(more, r, s, i)
                    /\ AppliedTo(more, r, s) = run2[Len(more)]
    BY <2>1, AppliedToIs
  <2> QED
    BY <1>1, <2>2
<1> DEFINE S == {i \in Nat : i <= n => longer[i] = run[i]}
<1>4. 0 \in S
  BY <1>2, <1>3
<1>5. ASSUME NEW i \in Nat, i \in S PROVE i + 1 \in S
  <2>1. ASSUME i + 1 <= n PROVE longer[i + 1] = run[i + 1]
    <3>1. i + 1 \in 1..n /\ i + 1 \in 1..(n + 1) /\ (i + 1) - 1 = i /\ longer[i] = run[i]
      BY <1>1, <1>5, <2>1
    <3>2. longer[i + 1] = longer[i] + Its(more, r, s, i + 1)
      BY <1>3, <3>1
    <3>3. run[i + 1] = run[i] + Its(log, r, s, i + 1)
      BY <1>2, <3>1
    <3>4. Its(more, r, s, i + 1) = Its(log, r, s, i + 1)
      BY <1>1, <3>1 DEF Its
    <3> QED
      BY <3>1, <3>2, <3>3, <3>4
  <2> QED
    BY <2>1
<1> HIDE DEF S
<1>6. n \in S
  BY <1>1, <1>4, <1>5, AllNaturals
<1>7. longer[n] = run[n] /\ longer[n + 1] = longer[n] + Its(more, r, s, n + 1)
  <2>1. n + 1 \in 1..(n + 1) /\ (n + 1) - 1 = n
    BY <1>1
  <2> QED
    BY <1>1, <1>3, <1>6, <2>1 DEF S
<1>8. Its(more, r, s, n + 1)
          = IF record.region = r /\ record.species = s THEN record.applied ELSE 0
  BY <1>1 DEF Its
<1> QED
  BY <1>2, <1>3, <1>7, <1>8 DEF more

-----------------------------------------------------------------------------
(* A world with another population, under the same calls.                  *)

Recounted(w, i, count) == [w EXCEPT !.cohorts[i].count = count]

LEMMA RecountedIs ==
    ASSUME NEW w, IsWorld(w), NEW i \in DOMAIN w.cohorts, NEW k \in Nat
    PROVE  LET v == Recounted(w, i, k)
               c == w.cohorts[i]
           IN  /\ v \in WorldRecords
               /\ v.regions = w.regions /\ v.species = w.species /\ v.log = w.log
               /\ v.cohorts = [w.cohorts EXCEPT ![i] = [region |-> c.region,
                                                        species |-> c.species, count |-> k]]
               /\ v.cohorts \in Seq(CohortRecords) /\ Len(v.cohorts) = Len(w.cohorts)
               /\ DOMAIN v.cohorts = DOMAIN w.cohorts
<1> DEFINE v == Recounted(w, i, k)
           c == w.cohorts[i]
           d == [region |-> c.region, species |-> c.species, count |-> k]
<1>1. w \in WorldRecords /\ w.cohorts \in Seq(CohortRecords)
  BY DEF IsWorld, WorldRecords
<1>2. c \in CohortRecords /\ d \in CohortRecords
  <2>1. c \in CohortRecords
    BY <1>1
  <2> QED
    BY <2>1 DEF CohortRecords
<1>3. v = [w EXCEPT !.cohorts = [w.cohorts EXCEPT ![i] = [c EXCEPT !.count = k]]]
  BY DEF Recounted
<1>4. [c EXCEPT !.count = k] = d
  BY <1>2 DEF CohortRecords
<1> HIDE DEF v, c, d
<1>5. v = [w EXCEPT !.cohorts = [w.cohorts EXCEPT ![i] = d]]
  BY <1>3, <1>4
<1>6. /\ [w.cohorts EXCEPT ![i] = d] \in Seq(CohortRecords)
      /\ Len([w.cohorts EXCEPT ![i] = d]) = Len(w.cohorts)
      /\ DOMAIN [w.cohorts EXCEPT ![i] = d] = DOMAIN w.cohorts
  BY <1>1, <1>2, ExceptSeq
<1>7. /\ v \in WorldRecords /\ v.cohorts = [w.cohorts EXCEPT ![i] = d]
      /\ v.regions = w.regions /\ v.species = w.species /\ v.log = w.log
  BY <1>1, <1>5, <1>6 DEF WorldRecords
<1> QED
  BY <1>6, <1>7 DEF v, c, d

\* A call finds the same cohort in both.
LEMMA RecountedFinds ==
    ASSUME NEW w, IsWorld(w), NEW i \in DOMAIN w.cohorts, NEW k \in Nat, NEW r, NEW s
    PROVE  FindCohort(Recounted(w, i, k), r, s) = FindCohort(w, r, s)
<1> DEFINE v == Recounted(w, i, k)
<1>1. /\ v.cohorts = [w.cohorts EXCEPT ![i] = [region |-> w.cohorts[i].region,
                                    species |-> w.cohorts[i].species, count |-> k]]
      /\ Len(v.cohorts) = Len(w.cohorts)
  BY RecountedIs
<1>2. DOMAIN w.cohorts = 1..Len(w.cohorts)
  BY DEF IsWorld, WorldRecords
<1> HIDE DEF v
<1>3. \A j \in 1..Len(w.cohorts) :
          v.cohorts[j].region = w.cohorts[j].region /\ v.cohorts[j].species = w.cohorts[j].species
  BY <1>1, <1>2
<1>4. {j \in 1..Len(v.cohorts) : v.cohorts[j].region = r /\ v.cohorts[j].species = s}
          = {j \in 1..Len(w.cohorts) : w.cohorts[j].region = r /\ w.cohorts[j].species = s}
  BY <1>1, <1>3
<1>5. FindCohort(v, r, s) = FindCohort(w, r, s)
  BY <1>4, Zenon DEF FindCohort, SelectInSeq
<1> QED
  BY <1>5 DEF v

\* If a call moves as many in both, they differ by as much as before: in the
\* count of that one cohort.
LEMMA AdjustKeepsApart ==
    ASSUME NEW w, IsWorld(w), NEW i \in DOMAIN w.cohorts, NEW k \in Nat,
           k # w.cohorts[i].count, IsWorld(Recounted(w, i, k)),
           NEW seq \in Int, NEW r \in HandleRecords, NEW s \in HandleRecords,
           NEW delta \in Int, NEW day \in Int,
           Moved(Recounted(w, i, k), r, s, delta) = Moved(w, r, s, delta)
    PROVE  LET wn == ApplyAdjustPopulation(w, seq, r, s, delta, day).world
               vn == ApplyAdjustPopulation(Recounted(w, i, k), seq, r, s, delta, day).world
           IN  /\ i \in DOMAIN wn.cohorts
               /\ \E m \in Nat : m # wn.cohorts[i].count /\ vn = Recounted(wn, i, m)
<1> DEFINE v == Recounted(w, i, k)
           wn == ApplyAdjustPopulation(w, seq, r, s, delta, day).world
           vn == ApplyAdjustPopulation(v, seq, r, s, delta, day).world
           n == Len(w.cohorts)
           c == w.cohorts[i]
           d == [region |-> c.region, species |-> c.species, count |-> k]
           j == FindCohort(w, r, s)
<1>1. /\ v.regions = w.regions /\ v.species = w.species /\ v.log = w.log
      /\ v.cohorts = [w.cohorts EXCEPT ![i] = d] /\ v.cohorts \in Seq(CohortRecords)
      /\ Len(v.cohorts) = n
  BY RecountedIs
<1>2. FindCohort(v, r, s) = j
  BY RecountedFinds
<1>3. /\ w \in WorldRecords /\ w.cohorts \in Seq(CohortRecords) /\ CohortsFit(w)
      /\ DOMAIN w.cohorts = 1..n /\ n \in Nat /\ c \in CohortRecords
  BY DEF IsWorld, WorldRecords
<1> HIDE DEF v, d
<1>4. Refusal(v, r, s) = Refusal(w, r, s)
  BY <1>1, RefusalDepends
<1>5. Recorded(v, seq, r, s, delta, day) = Recorded(w, seq, r, s, delta, day)
  BY <1>4 DEF Recorded, v
<1>6. /\ IsWorld(wn) /\ wn.regions = w.regions /\ wn.species = w.species
      /\ wn.log = Append(w.log, Recorded(w, seq, r, s, delta, day))
      /\ wn.cohorts = IF Refusal(w, r, s) = NoReason
                      THEN Counted(w, r, s, NextCount(w, r, s, delta)) ELSE w.cohorts
  BY AdjustFits
<1>7. /\ IsWorld(vn) /\ vn.regions = v.regions /\ vn.species = v.species
      /\ vn.log = Append(v.log, Recorded(v, seq, r, s, delta, day))
      /\ vn.cohorts = IF Refusal(v, r, s) = NoReason
                      THEN Counted(v, r, s, NextCount(v, r, s, delta)) ELSE v.cohorts
  <2>1. IsWorld(v)
    BY DEF v
  <2> QED
    BY <2>1, AdjustFits
<1> HIDE DEF wn, vn
<1>8. j \in 0..n /\ (j # 0 => IsPair(w.cohorts[j], r, s))
  BY <1>3, FindCohortIs
<1>9. /\ j # 0 => Population(w, r, s) = w.cohorts[j].count /\ Population(v, r, s) = v.cohorts[j].count
      /\ j = 0 => Population(w, r, s) = 0 /\ Population(v, r, s) = 0
  BY <1>2 DEF Population
<1> HIDE DEF j
<1>10. /\ i \in DOMAIN wn.cohorts
       /\ \E m \in Nat : /\ m # wn.cohorts[i].count
                         /\ vn.cohorts = [wn.cohorts EXCEPT ![i] =
                                [region |-> wn.cohorts[i].region,
                                 species |-> wn.cohorts[i].species, count |-> m]]
  <2>1. CASE Refusal(w, r, s) # NoReason
    BY <1>1, <1>3, <1>4, <1>6, <1>7, <2>1 DEF d
  <2>2. CASE Refusal(w, r, s) = NoReason
    <3> DEFINE a == NextCount(w, r, s, delta)
               b == NextCount(v, r, s, delta)
               at == IF j # 0 THEN j ELSE n + 1
               size == IF j # 0 THEN n ELSE n + 1
               aa == [region |-> r, species |-> s, count |-> a]
               bb == [region |-> r, species |-> s, count |-> b]
    <3>1. a \in Nat /\ b \in Nat
      <4>1. v \in WorldRecords /\ CohortsFit(v) /\ Refusal(v, r, s) = NoReason
        BY <1>4, <2>2 DEF IsWorld, v
      <4>2. a \in 0..w.regions[r.index].cap /\ b \in 0..v.regions[r.index].cap
        BY <1>3, <2>2, <4>1, NextCountFits
      <4>3. w.regions[r.index].cap \in Nat /\ v.regions[r.index].cap \in Nat
        BY <1>3, <2>2, <4>1, PopulationFits
      <4> QED
        BY <4>2, <4>3
    <3>2. a - Population(w, r, s) = b - Population(v, r, s)
      BY <1>4, <2>2 DEF Moved, v
    <3> HIDE DEF a, b
    <3>3. /\ wn.cohorts \in Seq(CohortRecords) /\ Len(wn.cohorts) = size
          /\ \A l \in 1..n : l # j => wn.cohorts[l] = w.cohorts[l]
          /\ wn.cohorts[at] = aa
      <4>1. wn.cohorts = Counted(w, r, s, a)
        BY <1>6, <2>2 DEF a
      <4> QED
        <5>1. w.cohorts \in Seq(CohortRecords)
          BY <1>3
        <5>2. /\ wn.cohorts \in Seq(CohortRecords)
              /\ Len(wn.cohorts) = IF FindCohort(w, r, s) # 0 THEN n ELSE n + 1
              /\ \A l \in 1..n : l # FindCohort(w, r, s) => wn.cohorts[l] = w.cohorts[l]
              /\ wn.cohorts[IF FindCohort(w, r, s) # 0 THEN FindCohort(w, r, s) ELSE n + 1] = aa
          BY <3>1, <4>1, <5>1, CountedIs
        <5> QED
          BY <5>2 DEF j
    <3>4. /\ vn.cohorts \in Seq(CohortRecords) /\ Len(vn.cohorts) = size
          /\ \A l \in 1..n : l # j => vn.cohorts[l] = v.cohorts[l]
          /\ vn.cohorts[at] = bb
      <4>1. vn.cohorts = Counted(v, r, s, b)
        BY <1>4, <1>7, <2>2 DEF b
      <4>2. /\ vn.cohorts \in Seq(CohortRecords)
            /\ Len(vn.cohorts) = IF FindCohort(v, r, s) # 0 THEN n ELSE n + 1
            /\ \A l \in 1..n : l # FindCohort(v, r, s) => vn.cohorts[l] = v.cohorts[l]
            /\ vn.cohorts[IF FindCohort(v, r, s) # 0 THEN FindCohort(v, r, s) ELSE n + 1] = bb
        <5>1. /\ Counted(v, r, s, b) \in Seq(CohortRecords)
              /\ Len(Counted(v, r, s, b))
                   = IF FindCohort(v, r, s) # 0 THEN Len(v.cohorts) ELSE Len(v.cohorts) + 1
              /\ \A l \in 1..Len(v.cohorts) :
                    l # FindCohort(v, r, s) => Counted(v, r, s, b)[l] = v.cohorts[l]
              /\ Counted(v, r, s, b)[IF FindCohort(v, r, s) # 0 THEN FindCohort(v, r, s)
                                     ELSE Len(v.cohorts) + 1] = bb
          <6>1. v.cohorts \in Seq(CohortRecords)
            BY <1>1
          <6> QED
            BY <3>1, <6>1, CountedIs
        <5> QED
          BY <1>1, <4>1, <5>1
      <4> QED
        BY <1>2, <4>2
    <3>5. /\ i \in 1..n /\ v.cohorts[i] = d
          /\ \A l \in 1..n : l # i => v.cohorts[l] = w.cohorts[l]
      BY <1>1, <1>3
    <3>6. /\ i \in DOMAIN wn.cohorts /\ at \in 1..size
          /\ \A l \in 1..size : l # at => l \in 1..n /\ l # j
      <4>1. size \in Nat /\ DOMAIN wn.cohorts = 1..size
        BY <1>3, <3>3
      <4>2. CASE j = 0
        BY <1>3, <3>5, <4>1, <4>2
      <4>3. CASE j # 0
        BY <1>3, <1>8, <3>5, <4>1, <4>3
      <4> QED
        BY <4>2, <4>3
    <3>7. CASE j = i
      <4>1. Population(w, r, s) = c.count /\ Population(v, r, s) = k
        BY <1>3, <1>9, <3>5, <3>7 DEF d
      <4>2. c.count \in Nat
        BY <1>3 DEF CohortRecords
      <4>3. a # b
        BY <3>1, <3>2, <4>1, <4>2
      <4>4. wn.cohorts[i] = aa /\ vn.cohorts[i] = bb
        BY <1>3, <3>3, <3>4, <3>5, <3>7
      <4>5. \A l \in 1..size : l # i => vn.cohorts[l] = wn.cohorts[l]
        BY <3>3, <3>4, <3>5, <3>6, <3>7
      <4> HIDE DEF size, at, aa, bb
      <4>6. vn.cohorts = [wn.cohorts EXCEPT ![i] = vn.cohorts[i]]
        <5>1. Len(wn.cohorts) = Len(vn.cohorts)
          BY <3>3, <3>4
        <5>2. \A l \in 1..Len(wn.cohorts) : l # i => vn.cohorts[l] = wn.cohorts[l]
          BY <3>3, <4>5
        <5> QED
          <6>1. DOMAIN wn.cohorts = 1..size /\ DOMAIN vn.cohorts = 1..size
            BY <3>3, <3>4
          <6>2. vn.cohorts = [l \in 1..size |-> vn.cohorts[l]]
            BY <3>4, <6>1
          <6>3. [wn.cohorts EXCEPT ![i] = vn.cohorts[i]]
                    = [l \in 1..size |-> IF l = i THEN vn.cohorts[i] ELSE wn.cohorts[l]]
            BY <6>1
          <6> QED
            BY <3>3, <5>2, <6>2, <6>3
      <4> QED
        BY <3>1, <3>6, <4>3, <4>4, <4>6 DEF aa, bb
    <3>8. CASE j # i
      <4>1. Population(w, r, s) = Population(v, r, s) /\ Population(w, r, s) \in Nat
        <5>1. j # 0 => v.cohorts[j] = w.cohorts[j]
          BY <1>8, <3>5, <3>8
        <5> QED
          BY <1>3, <1>9, <5>1, PopulationFits
      <4>2. aa = bb
        BY <3>1, <3>2, <4>1
      <4>3. wn.cohorts[i] = c /\ vn.cohorts[i] = d
        BY <3>3, <3>4, <3>5, <3>8
      <4>4. \A l \in 1..size : l # i => vn.cohorts[l] = wn.cohorts[l]
        <5>1. ASSUME NEW l \in 1..size, l # i, l # at PROVE vn.cohorts[l] = wn.cohorts[l]
          BY <3>3, <3>4, <3>5, <3>6, <5>1
        <5> QED
          BY <3>3, <3>4, <4>2, <5>1
      <4> HIDE DEF size, at, aa, bb
      <4>5. vn.cohorts = [wn.cohorts EXCEPT ![i] = vn.cohorts[i]]
        <5>1. Len(wn.cohorts) = Len(vn.cohorts)
          BY <3>3, <3>4
        <5>2. \A l \in 1..Len(wn.cohorts) : l # i => vn.cohorts[l] = wn.cohorts[l]
          BY <3>3, <4>4
        <5> QED
          <6>1. DOMAIN wn.cohorts = 1..size /\ DOMAIN vn.cohorts = 1..size
            BY <3>3, <3>4
          <6>2. vn.cohorts = [l \in 1..size |-> vn.cohorts[l]]
            BY <3>4, <6>1
          <6>3. [wn.cohorts EXCEPT ![i] = vn.cohorts[i]]
                    = [l \in 1..size |-> IF l = i THEN vn.cohorts[i] ELSE wn.cohorts[l]]
            BY <6>1
          <6> QED
            BY <3>3, <5>2, <6>2, <6>3
      <4> QED
        BY <3>6, <4>3, <4>5 DEF d
    <3> QED
      BY <3>7, <3>8
  <2> QED
    BY <2>1, <2>2
<1>11. PICK m \in Nat : /\ m # wn.cohorts[i].count
                        /\ vn.cohorts = [wn.cohorts EXCEPT ![i] =
                                [region |-> wn.cohorts[i].region,
                                 species |-> wn.cohorts[i].species, count |-> m]]
  BY <1>10
<1>12. vn = Recounted(wn, i, m)
  <2> DEFINE u == Recounted(wn, i, m)
  <2>1. /\ u \in WorldRecords /\ u.cohorts = vn.cohorts
        /\ u.regions = wn.regions /\ u.species = wn.species /\ u.log = wn.log
    <3>1. /\ u \in WorldRecords
          /\ u.cohorts = [wn.cohorts EXCEPT ![i] = [region |-> wn.cohorts[i].region,
                                    species |-> wn.cohorts[i].species, count |-> m]]
          /\ u.regions = wn.regions /\ u.species = wn.species /\ u.log = wn.log
      <4>1. IsWorld(wn) /\ i \in DOMAIN wn.cohorts
        BY <1>6, <1>10
      <4> QED
        BY <4>1, RecountedIs
    <3> HIDE DEF u
    <3> QED
      BY <1>11, <3>1
  <2>2. vn \in WorldRecords
    BY <1>7 DEF IsWorld
  <2> HIDE DEF u
  <2>3. /\ vn.regions = u.regions /\ vn.species = u.species /\ vn.log = u.log
    BY <1>1, <1>5, <1>6, <1>7, <2>1
  <2>4. /\ u = [regions |-> u.regions, species |-> u.species, cohorts |-> u.cohorts,
                 log |-> u.log]
        /\ vn = [regions |-> vn.regions, species |-> vn.species, cohorts |-> vn.cohorts,
                  log |-> vn.log]
    BY <2>1, <2>2 DEF WorldRecords
  <2>5. u = vn
    BY <2>1, <2>3, <2>4
  <2> QED
    BY <2>5 DEF u
<1> QED
  BY <1>10, <1>11, <1>12 DEF wn, vn, v

\* Any count that the region carries makes a world.
LEMMA RecountedFits ==
    ASSUME NEW w, IsWorld(w), NEW i \in DOMAIN w.cohorts, NEW k \in Nat,
           k <= w.regions[w.cohorts[i].region.index].cap
    PROVE  IsWorld(Recounted(w, i, k))
<1> DEFINE v == Recounted(w, i, k)
           c == w.cohorts[i]
           d == [region |-> c.region, species |-> c.species, count |-> k]
<1>1. /\ v \in WorldRecords
      /\ v.regions = w.regions /\ v.species = w.species /\ v.log = w.log
      /\ v.cohorts = [w.cohorts EXCEPT ![i] = d]
      /\ DOMAIN v.cohorts = DOMAIN w.cohorts
  BY RecountedIs
<1>2. CohortsFit(w) /\ RecordsFit(w)
  BY DEF IsWorld
<1> HIDE DEF v
<1>3. /\ v.cohorts[i] = d
      /\ \A j \in DOMAIN w.cohorts : j # i => v.cohorts[j] = w.cohorts[j]
  BY <1>1
<1>4. ASSUME NEW j \in DOMAIN v.cohorts
      PROVE  /\ j \in DOMAIN w.cohorts
             /\ v.cohorts[j].region = w.cohorts[j].region
             /\ v.cohorts[j].species = w.cohorts[j].species
             /\ v.cohorts[j].count <= v.regions[v.cohorts[j].region.index].cap
  <2>1. CASE j = i
    BY <1>1, <1>3, <2>1
  <2>2. CASE j # i
    BY <1>1, <1>2, <1>3, <2>2 DEF CohortsFit
  <2> QED
    BY <2>1, <2>2
<1>5. ASSUME NEW j \in DOMAIN v.cohorts, NEW l \in DOMAIN v.cohorts,
             IsPair(v.cohorts[j], v.cohorts[l].region, v.cohorts[l].species)
      PROVE  j = l
  <2>1. IsPair(w.cohorts[j], w.cohorts[l].region, w.cohorts[l].species)
    BY <1>4, <1>5 DEF IsPair
  <2> QED
    BY <1>2, <1>4, <2>1 DEF CohortsFit
<1>6. ASSUME NEW j \in DOMAIN v.cohorts
      PROVE  Refusal(v, v.cohorts[j].region, v.cohorts[j].species) = NoReason
  <2>1. Refusal(w, w.cohorts[j].region, w.cohorts[j].species) = NoReason
    BY <1>2, <1>4 DEF CohortsFit
  <2> QED
    <3>1. Refusal(v, w.cohorts[j].region, w.cohorts[j].species) = NoReason
      BY <1>1, <2>1, RefusalDepends
    <3> QED
      BY <1>4, <3>1
<1>7. CohortsFit(v)
  BY <1>4, <1>5, <1>6 DEF CohortsFit
<1>8. RecordsFit(v)
  BY <1>1, <1>2 DEF RecordsFit
<1>9. HandlesFit(v)
  BY <1>1 DEF IsWorld, HandlesFit
<1> QED
  BY <1>1, <1>7, <1>8, <1>9 DEF IsWorld, v

\* A replay of the log on a baseline with another population stops, or ends in
\* a world that still has another one.
IsApart(u, w, i) ==
    /\ i \in DOMAIN w.cohorts
    /\ \E k \in Nat : k # w.cohorts[i].count /\ u = Recounted(w, i, k) /\ IsWorld(u)
Separates(base, w) ==
    \A i \in DOMAIN base.cohorts, c \in Nat :
        /\ c # base.cohorts[i].count
        /\ IsWorld(Recounted(base, i, c))
        /\ Replayed(Recounted(base, i, c), w.log).ok
        => IsApart(Replayed(Recounted(base, i, c), w.log).world, w, i)

LEMMA BaselineSeparates ==
    ASSUME NEW w, w.log = <<>>
    PROVE  Separates(w, w)
<1> SUFFICES ASSUME NEW i \in DOMAIN w.cohorts, NEW c \in Nat, c # w.cohorts[i].count,
                    IsWorld(Recounted(w, i, c))
             PROVE  IsApart(Replayed(Recounted(w, i, c), w.log).world, w, i)
  BY DEF Separates
<1>1. Replayed(Recounted(w, i, c), w.log).world = Recounted(w, i, c)
  BY ReplayOfNothing DEF Start, Result
<1> QED
  BY <1>1 DEF IsApart

LEMMA AdjustSeparates ==
    ASSUME NEW base, NEW w, IsWorld(w), Separates(base, w),
           NEW seq \in Int, NEW r \in HandleRecords, NEW s \in HandleRecords,
           NEW delta \in Int, NEW day \in Int
    PROVE  Separates(base, ApplyAdjustPopulation(w, seq, r, s, delta, day).world)
<1> DEFINE next == ApplyAdjustPopulation(w, seq, r, s, delta, day).world
           record == Recorded(w, seq, r, s, delta, day)
<1> SUFFICES ASSUME NEW i \in DOMAIN base.cohorts, NEW c \in Nat,
                    c # base.cohorts[i].count, IsWorld(Recounted(base, i, c)),
                    Replayed(Recounted(base, i, c), next.log).ok
             PROVE  IsApart(Replayed(Recounted(base, i, c), next.log).world, next, i)
  BY DEF Separates
<1> DEFINE sofar == Replayed(Recounted(base, i, c), w.log)
           actual == ApplyAdjustPopulation(sofar.world, seq, r, s, delta, day)
<1>1. next.log = Append(w.log, record) /\ record \in CallRecords /\ w.log \in Seq(CallRecords)
  <2>1. w.log \in Seq(CallRecords)
    BY DEF IsWorld, WorldRecords
  <2> QED
    BY <2>1, AdjustFits
<1>2. /\ record.seq = seq /\ record.region = r /\ record.species = s
      /\ record.requested = delta /\ record.day = day
      /\ record.applied = Moved(w, r, s, delta)
  BY DEF Recorded
<1> HIDE DEF record
<1>3. Replayed(Recounted(base, i, c), next.log) = ReplayStep(sofar, record)
  BY <1>1, ReplayOfOneMore
<1> HIDE DEF sofar, next, actual
<1>4. /\ sofar.ok
      /\ actual.applied = record.applied
      /\ Replayed(Recounted(base, i, c), next.log).world = actual.world
  <2> DEFINE same == actual.ok = record.accepted /\ actual.applied = record.applied
             why == IF same THEN NoReason ELSE "replay_mismatch"
  <2>1. ReplayStep(sofar, record)
          = IF ~sofar.ok THEN sofar ELSE Result(actual.world, same, actual.applied, why)
    BY <1>2 DEF ReplayStep, actual
  <2>2. ReplayStep(sofar, record).ok
    BY <1>3 DEF next
  <2> HIDE DEF why, same
  <2>3. sofar.ok
    BY <2>1, <2>2
  <2>4. ReplayStep(sofar, record) = Result(actual.world, same, actual.applied, why)
    BY <2>1, <2>3
  <2>5. /\ ReplayStep(sofar, record).ok = same
        /\ ReplayStep(sofar, record).world = actual.world
    BY <2>4 DEF Result
  <2>6. same
    BY <2>2, <2>5
  <2> QED
    BY <1>3, <2>3, <2>5, <2>6 DEF same
<1>5. IsApart(sofar.world, w, i)
  BY <1>4 DEF Separates, sofar
<1>6. PICK k \in Nat : k # w.cohorts[i].count /\ sofar.world = Recounted(w, i, k)
                       /\ IsWorld(sofar.world)
  BY <1>5 DEF IsApart
<1>7. Moved(Recounted(w, i, k), r, s, delta) = Moved(w, r, s, delta)
  <2>1. actual.applied = Moved(sofar.world, r, s, delta)
    BY Zenon DEF actual, ApplyAdjustPopulation, Result, NextCount, Moved, AppliedDelta
  <2> QED
    BY <1>2, <1>4, <1>6, <2>1
<1>8. i \in DOMAIN w.cohorts /\ IsWorld(Recounted(w, i, k))
  BY <1>5, <1>6 DEF IsApart
<1>9. /\ i \in DOMAIN next.cohorts
      /\ \E m \in Nat : m # next.cohorts[i].count /\ actual.world = Recounted(next, i, m)
  BY <1>6, <1>7, <1>8, AdjustKeepsApart DEF next, actual
<1>10. IsWorld(actual.world)
  BY <1>6, AdjustFits DEF actual
<1> QED
  BY <1>4, <1>9, <1>10 DEF IsApart, next

\* ... which the digests tell.
LEMMA ApartIsFound ==
    ASSUME NEW base, NEW w, IsWorld(w), Separates(base, w), NEW i \in DOMAIN base.cohorts,
           NEW c \in Nat, c # base.cohorts[i].count, IsWorld(Recounted(base, i, c))
    PROVE  ~ReplayToolLogFrom(Recounted(base, i, c), w).ok
<1> DEFINE replayed == Replayed(Recounted(base, i, c), w.log)
<1>1. ASSUME replayed.ok
      PROVE  Digest(replayed.world) # Digest(w)
  <2> DEFINE u == replayed.world
  <2>1. IsApart(u, w, i)
    BY <1>1 DEF Separates
  <2> HIDE DEF replayed
  <2>2. PICK k \in Nat : k # w.cohorts[i].count /\ u = Recounted(w, i, k)
    BY <2>1 DEF IsApart
  <2>3. i \in DOMAIN w.cohorts
    BY <2>1 DEF IsApart
  <2>4. i \in DOMAIN u.cohorts /\ u.cohorts[i].count = k
    <3>1. /\ u.cohorts = [w.cohorts EXCEPT ![i] = [region |-> w.cohorts[i].region,
                                    species |-> w.cohorts[i].species, count |-> k]]
          /\ DOMAIN u.cohorts = DOMAIN w.cohorts
      BY <2>2, <2>3, RecountedIs
    <3> HIDE DEF u
    <3> QED
      BY <2>3, <3>1
  <2> HIDE DEF u
  <2>5. Digest(u).pop[i][3] = u.cohorts[i].count
    BY <2>4 DEF Digest
  <2>6. Digest(w).pop[i][3] = w.cohorts[i].count
    BY <2>3 DEF Digest
  <2>7. Digest(u) # Digest(w)
    BY <2>2, <2>4, <2>5, <2>6
  <2> QED
    BY <2>7 DEF u
<1> HIDE DEF replayed
<1> QED
  BY <1>1 DEF ReplayToolLogFrom, Result, replayed

-----------------------------------------------------------------------------
(* The invariant.                                                          *)

IsSmall(w) == /\ Len(w.regions) <= MaxRegions
              /\ Len(w.species) <= MaxSpecies
              /\ Len(w.log) <= MaxLog

\* What the log says of every pair, be it known to the world or not.
Accounts(base, w) ==
    \A r, s \in HandleRecords :
        /\ AppliedTo(w.log, r, s) \in Int
        /\ Population(w, r, s) = Population(base, r, s) + AppliedTo(w.log, r, s)

\* A world that came from the baseline through tool calls alone, all of which
\* are in its log.
Lived(base, w) ==
    /\ IsWorld(w) /\ IsSmall(w)
    /\ w.regions = base.regions
    /\ Reproduces(base, w)
    /\ Separates(base, w)
    /\ Accounts(base, w)

\* The world is one, and once it runs it and what was saved of it have lived
\* from the baseline on: a restore goes back to an earlier stage of that life.
HistoryInv ==
    /\ phase \in {"setup", "running"}
    /\ phase = "setup" =>
          /\ IsWorld(world) /\ IsSmall(world)
          /\ world.log = <<>> /\ saved = <<>>
    /\ phase = "running" =>
          /\ IsWorld(baseline) /\ baseline.regions # <<>>
          /\ Lived(baseline, world)
          /\ \/ saved = <<>>
             \/ \E w : Lived(baseline, w) /\ saved = <<SaveSnapshot(w)>>

\* What the theorems ask of the names: a restore may change any other.
NamesAreWords == RegionNames \cup SpeciesNames \subseteq Names

LEMMA HandlesAre ==
    /\ RegionHandles \subseteq HandleRecords
    /\ SpeciesHandles \subseteq HandleRecords
<1>1. ASSUME NEW max \in 0..(IndexSpan - 1)
      PROVE  Handles(max) \subseteq HandleRecords
  <2>1. \A i \in 1..max : i \in 0..(IndexSpan - 1)
    BY DEF IndexSpan
  <2> QED
    BY <2>1 DEF Handles, Handle, Invalid, FirstGeneration, HandleRecords, IndexSpan
<1> QED
  BY <1>1, HistoryAssumption DEF RegionHandles, SpeciesHandles

LEMMA BaselineAccounts ==
    ASSUME NEW w, IsWorld(w), w.log = <<>>
    PROVE  Accounts(w, w)
<1>1. ASSUME NEW r, NEW s PROVE AppliedTo(w.log, r, s) = 0 /\ Population(w, r, s) \in Nat
  BY NothingApplied, PopulationFits DEF IsWorld
<1> QED
  BY <1>1 DEF Accounts

LEMMA AdjustAccounts ==
    ASSUME NEW base, IsWorld(base), NEW w, IsWorld(w), Accounts(base, w),
           NEW seq \in Int, NEW r \in HandleRecords, NEW s \in HandleRecords,
           NEW delta \in Int, NEW day \in Int
    PROVE  Accounts(base, ApplyAdjustPopulation(w, seq, r, s, delta, day).world)
<1> DEFINE next == ApplyAdjustPopulation(w, seq, r, s, delta, day).world
           record == Recorded(w, seq, r, s, delta, day)
           moved == Moved(w, r, s, delta)
<1>1. /\ next.log = Append(w.log, record) /\ record \in CallRecords /\ moved \in Int
      /\ Population(next, r, s) = Population(w, r, s) + moved
      /\ \A q, t : ~(q = r /\ t = s) => Population(next, q, t) = Population(w, q, t)
  BY AdjustFits
<1>2. w.log \in Seq(CallRecords)
  BY DEF IsWorld, WorldRecords
<1>3. record.region = r /\ record.species = s /\ record.applied = moved
  BY DEF Recorded
<1> HIDE DEF next, record, moved
<1>4. SUFFICES ASSUME NEW q \in HandleRecords, NEW t \in HandleRecords
               PROVE  /\ AppliedTo(next.log, q, t) \in Int
                      /\ Population(next, q, t) = Population(base, q, t) + AppliedTo(next.log, q, t)
  BY DEF Accounts, next
<1>5. AppliedTo(next.log, q, t) = AppliedTo(w.log, q, t) + IF q = r /\ t = s THEN moved ELSE 0
  <2>1. AppliedTo(next.log, q, t) = AppliedTo(w.log, q, t)
               + IF record.region = q /\ record.species = t THEN record.applied ELSE 0
    BY <1>1, <1>2, OneMoreApplied
  <2> QED
    BY <1>3, <2>1
<1>6. /\ AppliedTo(w.log, q, t) \in Int /\ Population(base, q, t) \in Int
      /\ Population(w, q, t) = Population(base, q, t) + AppliedTo(w.log, q, t)
  BY PopulationFits DEF Accounts, IsWorld
<1>7. CASE q = r /\ t = s
  BY <1>1, <1>5, <1>6, <1>7
<1>8. CASE ~(q = r /\ t = s)
  BY <1>1, <1>5, <1>6, <1>8
<1> QED
  BY <1>7, <1>8

LEMMA AdjustLogs ==
    ASSUME NEW w, IsWorld(w), NEW seq \in Int, NEW r \in HandleRecords, NEW s \in HandleRecords,
           NEW delta \in Int, NEW day \in Int
    PROVE  LET next == ApplyAdjustPopulation(w, seq, r, s, delta, day).world
           IN  /\ IsWorld(next) /\ next.regions = w.regions /\ next.species = w.species
               /\ next.log = Append(w.log, Recorded(w, seq, r, s, delta, day))
               /\ Recorded(w, seq, r, s, delta, day) \in CallRecords
  BY AdjustFits

LEMMA AdjustMoves ==
    ASSUME NEW w, IsWorld(w), NEW seq \in Int, NEW r \in HandleRecords, NEW s \in HandleRecords,
           NEW delta \in Int, NEW day \in Int
    PROVE  Population(ApplyAdjustPopulation(w, seq, r, s, delta, day).world, r, s)
               = Population(w, r, s) + Moved(w, r, s, delta)
  BY AdjustFits

LEMMA HistoryInit == Init => HistoryInv
<1> SUFFICES ASSUME Init PROVE HistoryInv
  OBVIOUS
<1>1. world = EmptyWorld /\ phase = "setup" /\ saved = <<>>
  BY DEF Init
<1>2. IsWorld(world)
  BY <1>1, EmptyIsWorld
<1>3. /\ world.regions = <<>> /\ world.species = <<>> /\ world.cohorts = <<>> /\ world.log = <<>>
  BY <1>1 DEF EmptyWorld
<1>4. IsSmall(world)
  BY <1>3, HistoryAssumption DEF IsSmall
<1> QED
  BY <1>1, <1>2, <1>3, <1>4 DEF HistoryInv

LEMMA CreateKeeps ==
    ASSUME NamesAreWords
    PROVE  HistoryInv /\ Create => HistoryInv'
<1> SUFFICES ASSUME HistoryInv, Create PROVE HistoryInv'
  OBVIOUS
<1>1. /\ phase = "setup" /\ phase' = "setup" /\ saved' = <<>>
      /\ IsWorld(world) /\ IsSmall(world) /\ world.log = <<>>
  BY DEF HistoryInv, Create
<1>2. Len(world.regions) \in Nat /\ Len(world.species) \in Nat
  BY <1>1 DEF IsWorld, WorldRecords
<1>3. IsWorld(world') /\ IsSmall(world') /\ world'.log = <<>>
  <2>1. CASE \E name \in RegionNames, cap \in Capacities :
              /\ Len(world.regions) < MaxRegions
              /\ world' = CreateRegion(world, name, cap)
    <3>1. PICK name \in RegionNames, cap \in Capacities :
              /\ Len(world.regions) < MaxRegions
              /\ world' = CreateRegion(world, name, cap)
      BY <2>1
    <3>2. name \in Names /\ cap \in Int /\ Len(world.regions) + 1 < IndexSpan
      <4>1. name \in Names /\ cap \in Int
        BY <3>1, HistoryAssumption DEF NamesAreWords
      <4>2. Len(world.regions) + 1 < IndexSpan
        <5>1. Len(world.regions) < MaxRegions /\ MaxRegions \in 0..(IndexSpan - 1)
          BY <3>1, HistoryAssumption
        <5> QED
          BY <1>2, <5>1 DEF IndexSpan
      <4> QED
        BY <4>1, <4>2
    <3>3. /\ IsWorld(world') /\ world'.log = <<>>
          /\ Len(world'.regions) = Len(world.regions) + 1 /\ world'.species = world.species
      BY <1>1, <3>1, <3>2, CreateRegionFits
    <3> QED
      BY <1>1, <1>2, <3>1, <3>3, HistoryAssumption DEF IsSmall
  <2>2. CASE \E name \in SpeciesNames :
              /\ Len(world.species) < MaxSpecies
              /\ world' = CreateSpecies(world, name)
    <3>1. PICK name \in SpeciesNames :
              /\ Len(world.species) < MaxSpecies
              /\ world' = CreateSpecies(world, name)
      BY <2>2
    <3>2. name \in Names /\ Len(world.species) + 1 < IndexSpan
      <4>1. name \in Names
        BY <3>1 DEF NamesAreWords
      <4>2. Len(world.species) + 1 < IndexSpan
        BY <1>2, <3>1, HistoryAssumption DEF IndexSpan
      <4> QED
        BY <4>1, <4>2
    <3>3. /\ IsWorld(world') /\ world'.log = <<>>
          /\ Len(world'.species) = Len(world.species) + 1 /\ world'.regions = world.regions
      BY <1>1, <3>1, <3>2, CreateSpeciesFits
    <3> QED
      BY <1>1, <1>2, <3>1, <3>3, HistoryAssumption DEF IsSmall
  <2> QED
    BY <2>1, <2>2 DEF Create
<1> QED
  BY <1>1, <1>3 DEF HistoryInv

LEMMA PopulateKeeps ==
    ASSUME NEW r \in RegionHandles, NEW s \in SpeciesHandles, NEW count \in Counts
    PROVE  HistoryInv /\ Populate(r, s, count) => HistoryInv'
<1> SUFFICES ASSUME HistoryInv, Populate(r, s, count) PROVE HistoryInv'
  OBVIOUS
<1>1. /\ phase = "setup" /\ phase' = "setup" /\ saved' = <<>>
      /\ IsWorld(world) /\ IsSmall(world) /\ world.log = <<>>
      /\ world' = SetPopulation(world, r, s, count).world
  BY DEF HistoryInv, Populate
<1>2. r \in HandleRecords /\ s \in HandleRecords /\ count \in Int
  BY HandlesAre, HistoryAssumption
<1>3. /\ IsWorld(world') /\ world'.log = world.log
      /\ world'.regions = world.regions /\ world'.species = world.species
  BY <1>1, <1>2, SetPopulationFits
<1>4. IsSmall(world')
  BY <1>1, <1>3 DEF IsSmall
<1> QED
  BY <1>1, <1>3, <1>4 DEF HistoryInv

LEMMA StartRunningKeeps == HistoryInv /\ StartRunning => HistoryInv'
<1> SUFFICES ASSUME HistoryInv, StartRunning PROVE HistoryInv'
  OBVIOUS
<1>1. /\ phase = "setup" /\ phase' = "running" /\ world' = world /\ saved' = <<>>
      /\ baseline' = world /\ world.regions # <<>>
      /\ IsWorld(world) /\ IsSmall(world) /\ world.log = <<>>
  BY DEF HistoryInv, StartRunning
<1>2. Lived(world, world)
  BY <1>1, BaselineReproduces, BaselineSeparates, BaselineAccounts DEF Lived
<1>3. Lived(baseline', world') /\ IsWorld(baseline') /\ baseline'.regions # <<>>
  BY <1>1, <1>2
<1> QED
  BY <1>1, <1>3 DEF HistoryInv

LEMMA AdjustKeeps ==
    ASSUME NEW r \in RegionHandles, NEW s \in SpeciesHandles, NEW delta \in Deltas
    PROVE  HistoryInv /\ Adjust(r, s, delta) => HistoryInv'
<1> SUFFICES ASSUME HistoryInv, Adjust(r, s, delta) PROVE HistoryInv'
  OBVIOUS
<1> DEFINE n == Len(world.log)
           next == ApplyAdjustPopulation(world, n + 1, r, s, delta, 0).world
<1>1. /\ phase = "running" /\ phase' = "running" /\ baseline' = baseline /\ saved' = saved
      /\ world' = next /\ n < MaxLog
      /\ IsWorld(baseline) /\ baseline.regions # <<>> /\ Lived(baseline, world)
  BY DEF HistoryInv, Adjust
<1>2. /\ r \in HandleRecords /\ s \in HandleRecords /\ delta \in Int
      /\ n + 1 \in Int /\ n \in Nat /\ IsWorld(world) /\ world.log \in Seq(CallRecords)
  <2>1. IsWorld(world) /\ world.log \in Seq(CallRecords)
    BY <1>1 DEF Lived, IsWorld, WorldRecords
  <2> QED
    BY <2>1, HandlesAre, HistoryAssumption
<1>3. /\ IsWorld(next) /\ next.regions = world.regions /\ next.species = world.species
      /\ next.log = Append(world.log, Recorded(world, n + 1, r, s, delta, 0))
      /\ Recorded(world, n + 1, r, s, delta, 0) \in CallRecords
  <2>1. 0 \in Int
    OBVIOUS
  <2> QED
    BY <1>2, <2>1, AdjustLogs
<1>4. Len(next.log) = n + 1
  BY <1>2, <1>3, AppendProperties
<1>5. Reproduces(baseline, next)
  BY <1>1, <1>2, AdjustReproduces DEF Lived
<1>6. Separates(baseline, next)
  BY <1>1, <1>2, AdjustSeparates DEF Lived
<1>7. Accounts(baseline, next)
  BY <1>1, <1>2, AdjustAccounts DEF Lived
<1> HIDE DEF next
<1>8. IsSmall(next)
  <2>1. IsSmall(world)
    BY <1>1 DEF Lived
  <2> QED
    BY <1>1, <1>2, <1>3, <1>4, <2>1, HistoryAssumption DEF IsSmall
<1>9. Lived(baseline, next)
  BY <1>1, <1>3, <1>5, <1>6, <1>7, <1>8 DEF Lived
<1>10. saved = <<>> \/ \E w : Lived(baseline, w) /\ saved = <<SaveSnapshot(w)>>
  BY <1>1 DEF HistoryInv
<1> QED
  BY <1>1, <1>9, <1>10 DEF HistoryInv

LEMMA SaveKeeps == HistoryInv /\ Save => HistoryInv'
<1> SUFFICES ASSUME HistoryInv, Save PROVE HistoryInv'
  OBVIOUS
<1>1. /\ phase = "running" /\ phase' = "running" /\ baseline' = baseline /\ world' = world
      /\ saved' = <<SaveSnapshot(world)>>
      /\ IsWorld(baseline) /\ baseline.regions # <<>> /\ Lived(baseline, world)
  BY DEF HistoryInv, Save
<1> QED
  BY <1>1 DEF HistoryInv

\* Whatever is read, the world goes back to a stage of its life, or stays.
LEMMA RestoreIs ==
    ASSUME HistoryInv, NEW i \in DOMAIN saved, NEW p \in {saved[i]} \cup Damaged(saved[i]),
           Restore(p)
    PROVE  /\ phase = "running" /\ phase' = phase /\ baseline' = baseline /\ saved' = saved
           /\ world' = world \/ Lived(baseline, world')
<1>1. /\ phase = "running" /\ phase' = phase /\ baseline' = baseline /\ saved' = saved
      /\ world' = LoadSnapshot(world, p).world
  BY DEF Restore
<1>2. PICK w : Lived(baseline, w) /\ saved = <<SaveSnapshot(w)>>
  BY <1>1 DEF HistoryInv
<1>3. saved[i] = SaveSnapshot(w) /\ IsWorld(w) /\ w \in WorldRecords /\ w.regions # <<>>
  <2>1. saved[i] = SaveSnapshot(w)
    BY <1>2
  <2>2. IsWorld(w) /\ w.regions = baseline.regions
    BY <1>2 DEF Lived
  <2> QED
    BY <1>1, <2>1, <2>2 DEF IsWorld, HistoryInv
<1>4. CASE p = saved[i]
  <2>1. world' = w \/ world' = world
    BY <1>1, <1>3, <1>4, LoadOfSaved
  <2> QED
    BY <1>1, <1>2, <2>1
<1>5. CASE p \in Damaged(saved[i])
  <2>1. CASE p = [saved[i] EXCEPT ![1] = Word("xrsim_snapshot_v2")]
    BY <1>1, <1>3, <2>1, OtherVersionsAreRefused
  <2>2. CASE p = SubSeq(saved[i], 1, Len(saved[i]) - 1)
    <3>1. Len(SaveSnapshot(w)) - 1 \in 0..(Len(SaveSnapshot(w)) - 1)
      <4>1. Len(SaveSnapshot(w)) \in Nat \ {0}
        <5>1. HandlesFit(w)
          BY <1>3 DEF IsWorld
        <5> QED
          BY <1>3, <5>1, PlacesAre
      <4> QED
        BY <4>1
    <3> QED
      BY <1>1, <1>3, <2>2, <3>1, CutOffTextsAreRefused
  <2>3. CASE p = [saved[i] EXCEPT ![RegionsAt + 3] = HandleToken(Handle(2, FirstGeneration))]
    <3>1. FirstGeneration \in Nat
      BY DEF FirstGeneration
    <3>2. p = [SaveSnapshot(w) EXCEPT ![RegionsAt + 3]
                                        = HandleToken(Handle(2, FirstGeneration))]
      BY <1>3, <2>3
    <3>3. LoadSnapshot(world, p).world = world
      BY <1>3, <3>1, <3>2, RegionsOutOfPlaceAreRefused
    <3> QED
      BY <1>1, <3>3
  <2> QED
    BY <1>5, <2>1, <2>2, <2>3 DEF Damaged
<1> QED
  BY <1>4, <1>5

LEMMA RestoreKeeps ==
    ASSUME HistoryInv, NEW i \in DOMAIN saved, NEW p \in {saved[i]} \cup Damaged(saved[i]),
           Restore(p)
    PROVE  HistoryInv'
<1>1. /\ phase = "running" /\ phase' = phase /\ baseline' = baseline /\ saved' = saved
      /\ world' = world \/ Lived(baseline, world')
  BY RestoreIs
<1>2. /\ IsWorld(baseline) /\ baseline.regions # <<>> /\ Lived(baseline, world)
      /\ saved = <<>> \/ \E w : Lived(baseline, w) /\ saved = <<SaveSnapshot(w)>>
  BY <1>1 DEF HistoryInv
<1> QED
  BY <1>1, <1>2 DEF HistoryInv

LEMMA HistoryStep ==
    ASSUME NamesAreWords
    PROVE  HistoryInv /\ [Next]_vars => HistoryInv'
<1> SUFFICES ASSUME HistoryInv, [Next]_vars PROVE HistoryInv'
  OBVIOUS
<1>1. CASE Create
  BY <1>1, CreateKeeps
<1>2. CASE \E r \in RegionHandles, s \in SpeciesHandles, count \in Counts : Populate(r, s, count)
  BY <1>2, PopulateKeeps
<1>3. CASE StartRunning
  BY <1>3, StartRunningKeeps
<1>4. CASE \E r \in RegionHandles, s \in SpeciesHandles, delta \in Deltas : Adjust(r, s, delta)
  BY <1>4, AdjustKeeps
<1>5. CASE Save
  BY <1>5, SaveKeeps
<1>6. CASE \E i \in DOMAIN saved :
              \/ Restore(saved[i])
              \/ \E text \in Damaged(saved[i]) : Restore(text)
  <2>1. PICK i \in DOMAIN saved : \E p \in {saved[i]} \cup Damaged(saved[i]) : Restore(p)
    BY <1>6
  <2> QED
    BY <2>1, RestoreKeeps
<1>7. CASE UNCHANGED vars
  BY <1>7 DEF vars, HistoryInv
<1> QED
  BY <1>1, <1>2, <1>3, <1>4, <1>5, <1>6, <1>7 DEF Next

\* However it is set up, called, saved and restored, the world keeps the shape
\* its methods rely on, and a running one is always the outcome of the calls in
\* its log on the baseline, and so is what was saved.
THEOREM HistoryInvariant ==
    ASSUME NamesAreWords
    PROVE  Spec => []HistoryInv
<1>1. Init => HistoryInv
  BY HistoryInit
<1>2. HistoryInv /\ [Next]_vars => HistoryInv'
  BY HistoryStep
<1> QED
  BY <1>1, <1>2, PTL DEF Spec

\* Both phases: the world is a small one.
LEMMA WorldIs == HistoryInv => IsWorld(world) /\ IsSmall(world)
  BY DEF HistoryInv, Lived

\* No count ever leaves the range its region allows, no cohort is about a
\* region or species that does not exist.
THEOREM TypeCorrect ==
    ASSUME NamesAreWords
    PROVE  Spec => []TypeOK
<1>1. HistoryInv => TypeOK
  <2> SUFFICES ASSUME HistoryInv PROVE TypeOK
    OBVIOUS
  <2>1. /\ phase \in {"setup", "running"}
        /\ IsWorld(world) /\ IsSmall(world)
    BY WorldIs DEF HistoryInv
  <2>2. world \in WorldRecords /\ CohortsFit(world)
    BY <2>1 DEF IsWorld
  <2>3. /\ Len(world.regions) \in 0..MaxRegions /\ Len(world.species) \in 0..MaxSpecies
        /\ Len(world.log) \in 0..MaxLog
    <3>1. /\ Len(world.regions) \in Nat /\ Len(world.species) \in Nat /\ Len(world.log) \in Nat
      BY <2>2 DEF WorldRecords
    <3> QED
      BY <2>1, <3>1, HistoryAssumption DEF IsSmall
  <2>4. ASSUME NEW i \in DOMAIN world.cohorts
        PROVE  /\ HasRegion(world, world.cohorts[i].region)
               /\ HasSpecies(world, world.cohorts[i].species)
               /\ world.cohorts[i].count \in
                      0..world.regions[world.cohorts[i].region.index].cap
    <3> DEFINE r == world.cohorts[i].region
               s == world.cohorts[i].species
    <3>1. /\ Refusal(world, r, s) = NoReason
          /\ world.cohorts[i].count <= world.regions[r.index].cap
      BY <2>2 DEF CohortsFit
    <3>2. world.regions[r.index].cap \in Nat
      BY <2>2, <3>1, PopulationFits
    <3>3. world.cohorts[i].count \in Nat
      <4>1. world.cohorts[i] \in CohortRecords
        BY <2>2 DEF WorldRecords
      <4> QED
        BY <4>1 DEF CohortRecords
    <3> QED
      BY <3>1, <3>2, <3>3, RefusalIs
  <2> QED
    BY <2>1, <2>3, <2>4 DEF TypeOK
<1> QED
  BY <1>1, HistoryInvariant, PTL

\* The log is a full account of the population, for every pair of handles: the
\* limits and clamps of a call, and calls that are rejected, included.
THEOREM LogAccounts ==
    ASSUME NamesAreWords
    PROVE  Spec => []LogAccountsForPopulation
<1>1. HistoryInv => LogAccountsForPopulation
  BY HandlesAre DEF HistoryInv, Lived, Accounts, LogAccountsForPopulation
<1> QED
  BY <1>1, HistoryInvariant, PTL

\* A replay of the log on the baseline always succeeds and always ends in the
\* recorded world, digest included.
THEOREM ReplayIsFaithful ==
    ASSUME NamesAreWords
    PROVE  Spec => []ReplayReproduces
<1>1. HistoryInv => ReplayReproduces
  <2> SUFFICES ASSUME HistoryInv, phase = "running"
               PROVE  LET replay == ReplayToolLogFrom(baseline, world)
                      IN  replay.ok /\ Digest(replay.world) = Digest(world)
    BY DEF ReplayReproduces
  <2>1. Reproduces(baseline, world)
    BY DEF HistoryInv, Lived
  <2> QED
    BY <2>1, ReplayOfReproducing
<1> QED
  BY <1>1, HistoryInvariant, PTL

\* A replay on a baseline that differs in one population never passes, although
\* limits and clamps may make the two worlds meet.
THEOREM DivergenceIsDetected ==
    ASSUME NamesAreWords
    PROVE  Spec => []ReplayDetectsDivergence
<1>1. HistoryInv => ReplayDetectsDivergence
  <2> SUFFICES ASSUME HistoryInv, phase = "running", NEW i \in DOMAIN baseline.cohorts,
                      NEW x \in Counts,
                      ClampPopulation(x, baseline.regions[baseline.cohorts[i].region.index].cap)
                          # baseline.cohorts[i].count
               PROVE  ~ReplayToolLogFrom([baseline EXCEPT !.cohorts[i].count =
                          ClampPopulation(x,
                              baseline.regions[baseline.cohorts[i].region.index].cap)],
                          world).ok
    BY DEF ReplayDetectsDivergence
  <2> DEFINE cap == baseline.regions[baseline.cohorts[i].region.index].cap
             c == ClampPopulation(x, cap)
  <2>1. IsWorld(baseline) /\ IsWorld(world) /\ Separates(baseline, world)
    BY DEF HistoryInv, Lived
  <2>2. cap \in Nat /\ x \in Int
    <3>1. baseline \in WorldRecords /\ CohortsFit(baseline)
      BY <2>1 DEF IsWorld
    <3>2. Refusal(baseline, baseline.cohorts[i].region, baseline.cohorts[i].species) = NoReason
      BY <3>1 DEF CohortsFit
    <3> QED
      BY <3>1, <3>2, PopulationFits, HistoryAssumption
  <2>3. c \in Nat /\ c <= cap
    <3> HIDE DEF cap
    <3>1. c \in 0..cap
      BY <2>2, ClampIs
    <3> QED
      BY <2>2, <3>1
  <2>4. c # baseline.cohorts[i].count
    OBVIOUS
  <2> HIDE DEF c
  <2>5. IsWorld(Recounted(baseline, i, c))
    BY <2>1, <2>3, RecountedFits
  <2>6. ~ReplayToolLogFrom(Recounted(baseline, i, c), world).ok
    BY <2>1, <2>3, <2>4, <2>5, ApartIsFound
  <2> QED
    BY <2>6 DEF Recounted, c
<1> QED
  BY <1>1, HistoryInvariant, PTL

LEMMA NamesAreReadable == \A name \in Names : IsReadable(name)
<1> SUFFICES ASSUME NEW word \in Vocabulary PROVE IsReadable(OneWord(word))
  BY DEF Names
<1>1. Len(<<Word(word)>>) = 1
  OBVIOUS
<1> QED
  BY <1>1 DEF IsReadable, OneWord

\* Whatever its calls, a world comes back from what SaveSnapshot writes of it,
\* generations and capacities included, exactly if none of them was rejected;
\* otherwise LoadSnapshot refuses the text.
THEOREM RoundTrips ==
    ASSUME NamesAreWords
    PROVE  Spec => []RoundTripOfReadable
<1>1. HistoryInv => RoundTripOfReadable
  <2> SUFFICES ASSUME HistoryInv PROVE RoundTripOfReadable
    OBVIOUS
  <2> DEFINE loaded == LoadSnapshot(EmptyWorld, SaveSnapshot(world))
  <2>1. IsWorld(world)
    BY WorldIs
  <2>2. /\ loaded.ok <=> AllAccepted(world)
        /\ AllAccepted(world) => loaded.world = world
    BY <2>1, LoadOfSaved
  <2>3. \A name \in Names : IsReadable(name)
    BY NamesAreReadable
  <2>4. /\ \A i \in DOMAIN world.regions : world.regions[i].name \in Names
        /\ \A i \in DOMAIN world.species : world.species[i].name \in Names
    <3>1. world.regions \in Seq(RegionRecords) /\ world.species \in Seq(SpeciesRecords)
      BY <2>1 DEF IsWorld, WorldRecords
    <3>2. /\ \A i \in DOMAIN world.regions : world.regions[i] \in RegionRecords
          /\ \A i \in DOMAIN world.species : world.species[i] \in SpeciesRecords
      BY <3>1
    <3> QED
      BY <3>2 DEF RegionRecords, SpeciesRecords
  <2> HIDE DEF loaded
  <2> QED
    BY <2>2, <2>3, <2>4 DEF RoundTripOfReadable, HasReadableNames, AllAccepted, loaded
<1> QED
  BY <1>1, HistoryInvariant, PTL

\* No text that was cut off is taken for a whole one, whatever the world it was
\* printed from, worlds with rejected calls included.
THEOREM CutOffsAreRefused ==
    ASSUME NamesAreWords
    PROVE  Spec => []CutOffIsRefused
<1>1. HistoryInv => CutOffIsRefused
  BY WorldIs, CutOffTextsAreRefused DEF CutOffIsRefused
<1> QED
  BY <1>1, HistoryInvariant, PTL

-----------------------------------------------------------------------------
(* How much a call moves.  The sum of a count and what is asked for is an  *)
(* int32_t, made before it is cut down to the capacity.                    *)

\* The sum of a full region and the most a call may move still fits.
HasRoom(cap) == cap + cap \div 10 + 1 <= IntMax
RegionsHaveRoom(w) == \A i \in DOMAIN w.regions : HasRoom(w.regions[i].cap)

\* Where there is room, a call moves what the limit and the clamp leave of the
\* request.
LEMMA MovedIsLimited ==
    ASSUME NEW w, IsWorld(w), NEW r, NEW s, Refusal(w, r, s) = NoReason, NEW delta \in Int,
           HasRoom(w.regions[r.index].cap)
    PROVE  LET moved == Moved(w, r, s, delta)
               cap == w.regions[r.index].cap
           IN  /\ moved \in Int
               /\ moved * 10 <= cap \/ moved <= 1
               /\ -moved * 10 <= cap \/ moved >= -1
               /\ delta >= 0 => moved >= 0
               /\ delta <= 0 => moved <= 0
<1> DEFINE cap == w.regions[r.index].cap
           old == Population(w, r, s)
           limited == RateLimited(delta, cap)
           next == NextCount(w, r, s, delta)
<1>1. cap \in Nat /\ old \in Nat /\ old <= cap /\ IntMax \in Nat
  BY PopulationFits, IntMaxAssumption DEF IsWorld
<1>2. cap \div 10 \in Nat /\ cap + cap \div 10 + 1 <= IntMax
  BY <1>1 DEF HasRoom
<1>3. next = ClampPopulation(Wrap(old + limited), cap) /\ Moved(w, r, s, delta) = next - old
  BY DEF NextCount, Moved
<1> HIDE DEF cap, old
<1>4. /\ limited \in Int
      /\ limited * 10 <= cap \/ limited <= 1
      /\ -limited * 10 <= cap \/ limited >= -1
      /\ delta >= 0 => limited >= 0
      /\ delta <= 0 => limited <= 0
  BY <1>1, RateLimitedIs
<1>5. limited <= cap \div 10 + 1 /\ -limited <= cap \div 10 + 1
  BY <1>1, <1>2 DEF RateLimited
<1> HIDE DEF limited, next
<1>6. old + limited \in (-IntMax - 1)..IntMax
  BY <1>1, <1>2, <1>4, <1>5
<1>7. next = ClampPopulation(old + limited, cap)
  BY <1>1, <1>3, <1>4, <1>6, WrapIs
<1>8. /\ next \in Int
      /\ limited >= 0 => next - old >= 0 /\ next - old <= limited
      /\ limited <= 0 => next - old <= 0 /\ next - old >= limited
  BY <1>1, <1>4, <1>7 DEF ClampPopulation
<1>9. LET moved == next - old
      IN  /\ moved \in Int
          /\ moved * 10 <= cap \/ moved <= 1
          /\ -moved * 10 <= cap \/ moved >= -1
          /\ delta >= 0 => moved >= 0
          /\ delta <= 0 => moved <= 0
  BY <1>1, <1>4, <1>8
<1> QED
  BY <1>3, <1>9 DEF cap

\* Where there is none, the limit protects nothing: a region of the largest
\* capacity, full, loses everyone to a call that asks for more of them, since
\* the sum wraps around to a negative number.
THEOREM FullRegionIsWiped ==
    ASSUME NEW w, IsWorld(w), NEW seq \in Int, NEW r \in HandleRecords, NEW s \in HandleRecords,
           Refusal(w, r, s) = NoReason, w.regions[r.index].cap = IntMax,
           Population(w, r, s) = IntMax, NEW delta \in Int, delta > 0, NEW day \in Int
    PROVE  LET call == ApplyAdjustPopulation(w, seq, r, s, delta, day)
           IN  call.ok /\ call.applied = -IntMax /\ Population(call.world, r, s) = 0
<1> DEFINE limited == RateLimited(delta, IntMax)
           next == NextCount(w, r, s, delta)
<1>1. IntMax \in Nat /\ IntMax >= 1
  BY IntMaxAssumption
<1>2. limited \in 1..(IntMax + 1)
  <2>1. IntMax \div 10 \in Nat /\ IntMax \div 10 <= IntMax
    BY <1>1
  <2> QED
    BY <1>1, <2>1 DEF RateLimited
<1>3. next = ClampPopulation(Wrap(IntMax + limited), IntMax)
  BY DEF NextCount
<1> HIDE DEF limited
<1>4. Wrap(IntMax + limited) \in Int /\ Wrap(IntMax + limited) < 0
  <2> DEFINE x == IntMax + limited
  <2>1. (x + IntMax + 1) % (2 * IntMax + 2) = limited - 1
    <3>1. ASSUME NEW a \in Nat, NEW b \in Nat \ {0}, a < b PROVE (b + a) % b = a
      BY <3>1, Z3
    <3>2. /\ limited - 1 \in Nat /\ 2 * IntMax + 2 \in Nat \ {0}
          /\ limited - 1 < 2 * IntMax + 2
          /\ x + IntMax + 1 = (2 * IntMax + 2) + (limited - 1)
      BY <1>1, <1>2
    <3> QED
      BY <3>1, <3>2
  <2>2. Wrap(x) = limited - 1 - IntMax - 1
    BY <2>1 DEF Wrap
  <2> HIDE DEF x
  <2> QED
    BY <1>1, <1>2, <2>2 DEF x
<1>5. next = 0
  BY <1>1, <1>3, <1>4 DEF ClampPopulation
<1>6. Moved(w, r, s, delta) = -IntMax
  BY <1>1, <1>5 DEF Moved
<1>7. LET call == ApplyAdjustPopulation(w, seq, r, s, delta, day)
      IN  call.ok /\ call.applied = Moved(w, r, s, delta)
  BY Zenon DEF ApplyAdjustPopulation, Result, NextCount, Moved, AppliedDelta
<1>8. Population(ApplyAdjustPopulation(w, seq, r, s, delta, day).world, r, s)
          = Population(w, r, s) + Moved(w, r, s, delta)
  BY AdjustFits
<1> QED
  BY <1>1, <1>6, <1>7, <1>8

\* The regions of a world are those that were created.
LEMMA RoomStep ==
    ASSUME NamesAreWords, \A cap \in Capacities : HasRoom(cap)
    PROVE  HistoryInv /\ (RegionsHaveRoom(world) /\ RegionsHaveRoom(baseline)) /\ [Next]_vars
               => (RegionsHaveRoom(world) /\ RegionsHaveRoom(baseline))'
<1> SUFFICES ASSUME HistoryInv, RegionsHaveRoom(world), RegionsHaveRoom(baseline), [Next]_vars
             PROVE  RegionsHaveRoom(world') /\ RegionsHaveRoom(baseline')
  OBVIOUS
<1>1. CASE Create
  <2>1. CASE \E name \in RegionNames, cap \in Capacities : world' = CreateRegion(world, name, cap)
    <3>1. PICK name \in RegionNames, cap \in Capacities : world' = CreateRegion(world, name, cap)
      BY <2>1
    <3> DEFINE region == [name |-> name, gen |-> FirstGeneration, cap |-> NotNegative(cap)]
    <3>2. world \in WorldRecords /\ world.regions \in Seq(RegionRecords)
      BY WorldIs DEF IsWorld, WorldRecords
    <3>3. world'.regions = Append(world.regions, region)
      BY <3>1, <3>2 DEF CreateRegion, WorldRecords
    <3>4. region \in RegionRecords /\ HasRoom(region.cap)
      <4>1. name \in Names /\ cap \in Int /\ HasRoom(cap) /\ IntMax \in Nat /\ IntMax >= 1
        <5>1. name \in Names /\ cap \in Int
          BY HistoryAssumption DEF NamesAreWords
        <5>2. HasRoom(cap)
          OBVIOUS
        <5>3. IntMax \in Nat /\ IntMax >= 1
          BY IntMaxAssumption
        <5> QED
          BY <5>1, <5>2, <5>3
      <4>2. NotNegative(cap) \in Nat /\ HasRoom(NotNegative(cap))
        BY <4>1 DEF HasRoom, NotNegative
      <4> QED
        BY <4>1, <4>2 DEF RegionRecords, FirstGeneration
    <3> HIDE DEF region
    <3>5. /\ DOMAIN world'.regions = 1..(Len(world.regions) + 1)
          /\ world'.regions[Len(world.regions) + 1] = region
          /\ \A i \in 1..Len(world.regions) : world'.regions[i] = world.regions[i]
          /\ DOMAIN world.regions = 1..Len(world.regions) /\ Len(world.regions) \in Nat
      BY <3>2, <3>3, <3>4, AppendProperties
    <3>6. \A i \in DOMAIN world'.regions :
              i \in DOMAIN world.regions \/ i = Len(world.regions) + 1
      BY <3>5
    <3>7. RegionsHaveRoom(world')
      BY <3>4, <3>5, <3>6 DEF RegionsHaveRoom
    <3> QED
      BY <1>1, <3>7 DEF Create
  <2>2. CASE \E name \in SpeciesNames : world' = CreateSpecies(world, name)
    <3>1. world \in WorldRecords
      BY WorldIs DEF IsWorld
    <3>2. world'.regions = world.regions
      BY <2>2, <3>1 DEF CreateSpecies, WorldRecords
    <3> QED
      BY <1>1, <3>2 DEF Create, RegionsHaveRoom
  <2> QED
    BY <1>1, <2>1, <2>2 DEF Create
<1>2. CASE \E r \in RegionHandles, s \in SpeciesHandles, count \in Counts : Populate(r, s, count)
  <2>1. PICK r \in RegionHandles, s \in SpeciesHandles, count \in Counts : Populate(r, s, count)
    BY <1>2
  <2>2. /\ r \in HandleRecords /\ s \in HandleRecords /\ count \in Int
        /\ IsWorld(world) /\ world' = SetPopulation(world, r, s, count).world
        /\ baseline' = baseline
    BY <2>1, HandlesAre, HistoryAssumption, WorldIs DEF Populate
  <2>3. world'.regions = world.regions
    BY <2>2, SetPopulationFits
  <2> QED
    BY <2>2, <2>3 DEF RegionsHaveRoom
<1>3. CASE StartRunning
  BY <1>3 DEF StartRunning
<1>4. CASE \E r \in RegionHandles, s \in SpeciesHandles, delta \in Deltas : Adjust(r, s, delta)
  <2>1. PICK r \in RegionHandles, s \in SpeciesHandles, delta \in Deltas : Adjust(r, s, delta)
    BY <1>4
  <2>2. HistoryInv' /\ phase' = "running" /\ baseline' = baseline
    BY <2>1, AdjustKeeps DEF Adjust
  <2>3. world'.regions = baseline'.regions
    BY <2>2 DEF HistoryInv, Lived
  <2> QED
    BY <2>2, <2>3 DEF RegionsHaveRoom
<1>5. CASE Save
  BY <1>5 DEF Save
<1>6. CASE \E i \in DOMAIN saved :
              \/ Restore(saved[i])
              \/ \E text \in Damaged(saved[i]) : Restore(text)
  <2>1. PICK i \in DOMAIN saved : \E p \in {saved[i]} \cup Damaged(saved[i]) : Restore(p)
    BY <1>6
  <2>2. baseline' = baseline /\ (world' = world \/ Lived(baseline, world'))
    BY <2>1, RestoreIs
  <2> QED
    BY <2>2 DEF Lived, RegionsHaveRoom
<1>7. CASE UNCHANGED vars
  BY <1>7 DEF vars
<1> QED
  BY <1>1, <1>2, <1>3, <1>4, <1>5, <1>6, <1>7 DEF Next

\* As long as every region a world is set up with leaves room for the sum, one
\* call moves a tenth of the capacity at most, or one, and never against the
\* direction it was asked for.
THEOREM LimitHolds ==
    ASSUME NamesAreWords, \A cap \in Capacities : HasRoom(cap)
    PROVE  Spec => CallsAreLimited
<1> DEFINE Inv == RegionsHaveRoom(world) /\ RegionsHaveRoom(baseline)
           Limited == last'.op = "adjust" /\ last'.ok =>
               LET r == last'.region
                   s == last'.species
                   moved == Population(world', r, s) - Population(world, r, s)
                   cap == world.regions[r.index].cap
               IN  /\ moved * 10 <= cap \/ moved <= 1
                   /\ -moved * 10 <= cap \/ moved >= -1
                   /\ last'.delta >= 0 => moved >= 0
                   /\ last'.delta <= 0 => moved <= 0
<1>1. Init => Inv
  BY DEF Init, EmptyWorld, RegionsHaveRoom
<1>2. HistoryInv /\ Inv /\ [Next]_vars => Inv'
  BY RoomStep
<1>3. HistoryInv /\ Inv /\ Next => Limited
  <2> SUFFICES ASSUME HistoryInv, RegionsHaveRoom(world), Next,
                      last'.op = "adjust", last'.ok
               PROVE  LET r == last'.region
                          s == last'.species
                          moved == Population(world', r, s) - Population(world, r, s)
                          cap == world.regions[r.index].cap
                      IN  /\ moved * 10 <= cap \/ moved <= 1
                          /\ -moved * 10 <= cap \/ moved >= -1
                          /\ last'.delta >= 0 => moved >= 0
                          /\ last'.delta <= 0 => moved <= 0
    OBVIOUS
  <2>1. CASE \E r \in RegionHandles, s \in SpeciesHandles, delta \in Deltas : Adjust(r, s, delta)
    <3>1. PICK r \in RegionHandles, s \in SpeciesHandles, delta \in Deltas : Adjust(r, s, delta)
      BY <2>1
    <3> DEFINE call == ApplyAdjustPopulation(world, Len(world.log) + 1, r, s, delta, 0)
               cap == world.regions[r.index].cap
               moved == Moved(world, r, s, delta)
    <3>2. /\ world' = call.world /\ last'.ok = call.ok
          /\ last'.region = r /\ last'.species = s /\ last'.delta = delta
      BY <3>1 DEF Adjust, Called
    <3>3. /\ r \in HandleRecords /\ s \in HandleRecords /\ delta \in Int
          /\ IsWorld(world) /\ Len(world.log) + 1 \in Int
      <4>1. IsWorld(world) /\ Len(world.log) \in Nat
        BY WorldIs DEF IsWorld, WorldRecords
      <4> QED
        BY <4>1, HandlesAre, HistoryAssumption
    <3>4. Refusal(world, r, s) = NoReason
      <4>1. call.ok = (Refusal(world, r, s) = NoReason)
        BY Zenon DEF ApplyAdjustPopulation, Result
      <4> QED
        BY <3>2, <4>1, Zenon
    <3>5. HasRoom(cap)
      BY <3>4, RefusalIs DEF HasRegion, RegionsHaveRoom
    <3>6. Population(world', r, s) = Population(world, r, s) + moved
      BY <3>2, <3>3, AdjustMoves
    <3>7. Population(world, r, s) \in Nat
      BY <3>3, PopulationFits DEF IsWorld
    <3>8. /\ moved \in Int
          /\ moved * 10 <= cap \/ moved <= 1
          /\ -moved * 10 <= cap \/ moved >= -1
          /\ delta >= 0 => moved >= 0
          /\ delta <= 0 => moved <= 0
      BY <3>3, <3>4, <3>5, MovedIsLimited
    <3> HIDE DEF cap, moved, call
    <3>9. Population(world', r, s) - Population(world, r, s) = moved
      BY <3>6, <3>7, <3>8
    <3> QED
      BY <3>2, <3>8, <3>9 DEF cap
  <2>2. CASE Create
    BY <2>2 DEF Create, CalledOther, Called
  <2>3. CASE \E r \in RegionHandles, s \in SpeciesHandles, count \in Counts : Populate(r, s, count)
    BY <2>3 DEF Populate, CalledOther, Called
  <2>4. CASE StartRunning
    BY <2>4 DEF StartRunning, CalledOther, Called
  <2>5. CASE Save
    BY <2>5 DEF Save, CalledOther, Called
  <2>6. CASE \E i \in DOMAIN saved :
              \/ Restore(saved[i])
              \/ \E text \in Damaged(saved[i]) : Restore(text)
    BY <2>6 DEF Restore, CalledOther, Called
  <2> QED
    BY <2>1, <2>2, <2>3, <2>4, <2>5, <2>6 DEF Next
<1> HIDE DEF Limited, Inv
<1>4. Spec => [][Limited]_vars
  BY <1>1, <1>2, <1>3, HistoryInvariant, PTL DEF Spec
<1> QED
  BY <1>4 DEF CallsAreLimited, Limited

=============================================================================
