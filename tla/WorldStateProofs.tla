-------------------------- MODULE WorldStateProofs --------------------------
(***************************************************************************)
(* What the operators of WorldState do to a world of any size: the shape   *)
(* they keep, what a call changes and logs, when a replay reproduces a     *)
(* world, and what a snapshot brings back.                                 *)
(***************************************************************************)
EXTENDS WorldState, SequenceTheorems, WellFoundedInduction, TLAPS

-----------------------------------------------------------------------------
(* The worlds.                                                             *)

\* A literal is a string, which the provers have to be told.
Vocabulary == STRING \cup
    {"", "-", "xrsim_snapshot_v1", "regions", "region", "species", "cohorts", "cohort",
     "tools", "tool", "adjust_population", "unknown", "end", "debug_region", "blind_dog"}
Tokens == [digits : BOOLEAN, word : Vocabulary, number : Int]

Reasons == {NoReason, "unknown_region", "unknown_species"}
HandleRecords == [index : 0..(IndexSpan - 1), gen : Nat]
\* The names that a reader finds again: one word, with nothing around it.
Names == {OneWord(word) : word \in Vocabulary}

RegionRecords == [name : Names, gen : Nat, cap : Nat]
SpeciesRecords == [name : Names, gen : Nat]
CohortRecords == [region : HandleRecords, species : HandleRecords, count : Nat]
CallRecords == [seq : Int, day : Int, region : HandleRecords, species : HandleRecords,
                accepted : BOOLEAN, requested : Int, applied : Int, reason : Reasons]
WorldRecords == [regions : Seq(RegionRecords), species : Seq(SpeciesRecords),
                 cohorts : Seq(CohortRecords), log : Seq(CallRecords)]

IsPair(cohort, r, s) == cohort.region = r /\ cohort.species = s

\* A pair has one cohort at most, which lives in a region that exists, within
\* its capacity, and is of a species that exists.
CohortsFit(w) ==
    /\ \A i, k \in DOMAIN w.cohorts :
          IsPair(w.cohorts[i], w.cohorts[k].region, w.cohorts[k].species) => i = k
    /\ \A i \in DOMAIN w.cohorts :
          /\ Refusal(w, w.cohorts[i].region, w.cohorts[i].species) = NoReason
          /\ w.cohorts[i].count <= w.regions[w.cohorts[i].region.index].cap

\* A record has a reason exactly if its call was rejected.
RecordsFit(w) == \A i \in DOMAIN w.log : w.log[i].accepted <=> w.log[i].reason = NoReason

\* Every index can be printed.
HandlesFit(w) == Len(w.regions) < IndexSpan /\ Len(w.species) < IndexSpan

IsWorld(w) == w \in WorldRecords /\ CohortsFit(w) /\ RecordsFit(w) /\ HandlesFit(w)

-----------------------------------------------------------------------------
(* Look-ups.                                                               *)

\* Every set of natural numbers has a least one.
LEMMA LeastNatural ==
    ASSUME NEW S, S \subseteq Nat, S # {}
    PROVE  \E n \in S : \A k \in S : n <= k
<1>1. PICK n \in S : \A k \in S : <<k, n>> \notin OpToRel(<, Nat)
  BY NatLessThanWellFounded, WFMin
<1>2. \A k \in S : ~(k < n)
  BY <1>1 DEF OpToRel
<1> QED
  BY <1>2

\* Induction, for a set of numbers.
LEMMA AllNaturals ==
    ASSUME NEW S, 0 \in S, \A n \in Nat : n \in S => n + 1 \in S
    PROVE  Nat \subseteq S
<1>1. SUFFICES ASSUME Nat \ S # {} PROVE FALSE
  OBVIOUS
<1>2. PICK n \in Nat \ S : \A k \in Nat \ S : n <= k
  BY <1>1, LeastNatural
<1>3. n - 1 \in Nat /\ n - 1 \in S
  BY <1>2
<1> QED
  BY <1>2, <1>3

\* FindCohort: 0, or the first cohort of the pair.
LEMMA FindCohortIs ==
    ASSUME NEW w, w.cohorts \in Seq(CohortRecords), NEW r, NEW s
    PROVE  LET i == FindCohort(w, r, s)
           IN  /\ i \in 0..Len(w.cohorts)
               /\ i # 0 => IsPair(w.cohorts[i], r, s)
               /\ i = 0 => \A k \in 1..Len(w.cohorts) : ~IsPair(w.cohorts[k], r, s)
<1> DEFINE I == {k \in 1..Len(w.cohorts) : w.cohorts[k].region = r /\ w.cohorts[k].species = s}
<1>1. Len(w.cohorts) \in Nat
  OBVIOUS
<1>2. FindCohort(w, r, s) = IF I # {} THEN Min(I) ELSE 0
  BY DEF FindCohort, SelectInSeq
<1>3. I \subseteq Nat
  BY <1>1
<1>4. I # {} => Min(I) \in I
  <2> HIDE DEF I
  <2> QED
    BY <1>3, LeastNatural DEF Min
<1>5. CASE I = {}
  BY <1>1, <1>2, <1>5 DEF IsPair
<1>6. CASE I # {}
  <2>1. FindCohort(w, r, s) \in I
    BY <1>2, <1>4, <1>6
  <2>2. \A k \in I : k \in 1..Len(w.cohorts) /\ IsPair(w.cohorts[k], r, s)
    BY DEF IsPair
  <2> HIDE DEF I
  <2> QED
    BY <1>1, <2>1, <2>2
<1> QED
  BY <1>5, <1>6

\* Where the pairs are distinct, the cohort of a pair is the one that is found.
LEMMA FindCohortFinds ==
    ASSUME NEW w, w.cohorts \in Seq(CohortRecords), CohortsFit(w),
           NEW r, NEW s, NEW i \in DOMAIN w.cohorts, IsPair(w.cohorts[i], r, s)
    PROVE  FindCohort(w, r, s) = i
<1>1. DOMAIN w.cohorts = 1..Len(w.cohorts) /\ Len(w.cohorts) \in Nat
  OBVIOUS
<1>2. FindCohort(w, r, s) \in DOMAIN w.cohorts /\ IsPair(w.cohorts[FindCohort(w, r, s)], r, s)
  BY <1>1, FindCohortIs
<1> QED
  BY <1>2 DEF CohortsFit, IsPair

-----------------------------------------------------------------------------
(* Numbers.                                                                *)

LEMMA ClampIs ==
    ASSUME NEW cap \in Nat, NEW x \in Int
    PROVE  /\ ClampPopulation(x, cap) \in 0..cap
           /\ x \in 0..cap => ClampPopulation(x, cap) = x
  BY DEF ClampPopulation

\* A sum of two int32_t is some int32_t, the right one if it fits.
LEMMA WrapIs ==
    ASSUME NEW x \in Int
    PROVE  /\ Wrap(x) \in Int
           /\ x \in (-IntMax - 1)..IntMax => Wrap(x) = x
<1>1. IntMax \in Nat
  BY IntMaxAssumption
<1> DEFINE y == x + IntMax + 1
           d == 2 * IntMax + 2
<1>2. y \in Int /\ d \in Nat \ {0}
  BY <1>1
<1>3. ASSUME NEW a \in Int, NEW b \in Nat \ {0}
      PROVE  a % b \in Int /\ (a \in 0..(b - 1) => a % b = a)
  BY <1>3, Z3
<1>4. y % d \in Int /\ (y \in 0..(d - 1) => y % d = y)
  BY <1>2, <1>3
<1> QED
  BY <1>1, <1>4 DEF Wrap

LEMMA RateLimitedIs ==
    ASSUME NEW cap \in Nat, NEW delta \in Int
    PROVE  LET l == RateLimited(delta, cap)
           IN  /\ l \in Int
               /\ l * 10 <= cap \/ l <= 1
               /\ -l * 10 <= cap \/ l >= -1
               /\ delta >= 0 => l >= 0
               /\ delta <= 0 => l <= 0
<1>1. cap \div 10 \in Nat /\ (cap \div 10) * 10 <= cap
  OBVIOUS
<1> QED
  BY <1>1 DEF RateLimited

-----------------------------------------------------------------------------
(* Mutations.                                                              *)

\* A call is rejected for a reason, or the region and the species exist.
LEMMA RefusalIs ==
    ASSUME NEW w, NEW r, NEW s
    PROVE  /\ Refusal(w, r, s) \in Reasons
           /\ Refusal(w, r, s) = NoReason <=> HasRegion(w, r) /\ HasSpecies(w, s)
<1>1. NoReason \notin {"unknown_region", "unknown_species"}
  BY Zenon DEF NoReason
<1> QED
  BY <1>1 DEF Refusal, Reasons

\* What decides about a call is not touched by calls.
LEMMA RefusalDepends ==
    ASSUME NEW w, NEW v, v.regions = w.regions, v.species = w.species, NEW r, NEW s
    PROVE  Refusal(v, r, s) = Refusal(w, r, s)
  BY DEF Refusal, HasRegion, HasSpecies

\* The list of cohorts when the pair has got a count.
Counted(w, r, s, count) ==
    IF FindCohort(w, r, s) # 0
    THEN [w.cohorts EXCEPT ![FindCohort(w, r, s)] = [region |-> r, species |-> s, count |-> count]]
    ELSE Append(w.cohorts, [region |-> r, species |-> s, count |-> count])

LEMMA CountedIs ==
    ASSUME NEW w, w.cohorts \in Seq(CohortRecords), NEW r \in HandleRecords,
           NEW s \in HandleRecords, NEW count \in Nat
    PROVE  LET c == Counted(w, r, s, count)
               n == Len(w.cohorts)
               i == FindCohort(w, r, s)
           IN  /\ c \in Seq(CohortRecords) /\ n \in Nat /\ i \in 0..n
               /\ Len(c) = IF i # 0 THEN n ELSE n + 1
               /\ \A k \in 1..n : k # i => c[k] = w.cohorts[k]
               /\ c[IF i # 0 THEN i ELSE n + 1] = [region |-> r, species |-> s, count |-> count]
<1> DEFINE n == Len(w.cohorts)
           i == FindCohort(w, r, s)
           new == [region |-> r, species |-> s, count |-> count]
<1>1. n \in Nat /\ i \in 0..n /\ new \in CohortRecords
  <2>1. new \in CohortRecords
    BY DEF CohortRecords
  <2> QED
    BY <2>1, FindCohortIs
<1> HIDE DEF i, new
<1>2. CASE i # 0
  <2>1. Counted(w, r, s, count) = [w.cohorts EXCEPT ![i] = new]
    BY <1>2 DEF Counted, i, new
  <2>2. i \in 1..n
    BY <1>1, <1>2
  <2> QED
    BY <1>1, <1>2, <2>1, <2>2, ExceptSeq DEF i, new
<1>3. CASE i = 0
  <2>1. Counted(w, r, s, count) = Append(w.cohorts, new)
    BY <1>3 DEF Counted, i, new
  <2> QED
    BY <1>1, <1>3, <2>1, AppendProperties DEF i, new
<1> QED
  BY <1>2, <1>3

LEMMA WithCountIs ==
    ASSUME NEW w \in WorldRecords, NEW r \in HandleRecords, NEW s \in HandleRecords,
           NEW count \in Nat
    PROVE  /\ WithCount(w, r, s, count) = [w EXCEPT !.cohorts = Counted(w, r, s, count)]
           /\ WithCount(w, r, s, count) \in WorldRecords
<1> DEFINE i == FindCohort(w, r, s)
           n == Len(w.cohorts)
           none == [region |-> r, species |-> s, count |-> 0]
           new == [region |-> r, species |-> s, count |-> count]
<1>0. w.cohorts \in Seq(CohortRecords) /\ n \in Nat /\ none \in CohortRecords
  BY DEF WorldRecords, CohortRecords
<1>1. ASSUME i # 0
      PROVE  WithCount(w, r, s, count) = [w EXCEPT !.cohorts = Counted(w, r, s, count)]
  <2>1. i \in 1..n /\ IsPair(w.cohorts[i], r, s)
    BY <1>0, <1>1, FindCohortIs
  <2>2. WithCount(w, r, s, count) = [w EXCEPT !.cohorts[i].count = count]
    BY <1>1 DEF WithCount, WithCohort
  <2>4. [w EXCEPT !.cohorts[i].count = count]
            = [w EXCEPT !.cohorts = [w.cohorts EXCEPT ![i].count = count]]
    OBVIOUS
  <2>5. [w.cohorts EXCEPT ![i].count = count]
            = [w.cohorts EXCEPT ![i] = [w.cohorts[i] EXCEPT !.count = count]]
    OBVIOUS
  <2>3. [w.cohorts[i] EXCEPT !.count = count] = new
    <3>1. w.cohorts[i] \in CohortRecords
      BY <1>0, <2>1
    <3> QED
      BY <2>1, <3>1 DEF IsPair, CohortRecords
  <2> QED
    BY <1>1, <2>2, <2>3, <2>4, <2>5 DEF Counted
<1>2. ASSUME i = 0
      PROVE  WithCount(w, r, s, count) = [w EXCEPT !.cohorts = Counted(w, r, s, count)]
  <2> DEFINE v == [w EXCEPT !.cohorts = Append(@, none)]
             more == Append(w.cohorts, none)
  <2>1. WithCohort(w, r, s) = v
    BY <1>2 DEF WithCohort
  <2>2. v.cohorts = more
    BY DEF WorldRecords
  <2>3. /\ more \in Seq(CohortRecords) /\ Len(more) = n + 1
        /\ more[n + 1] = none /\ \A k \in 1..n : more[k] = w.cohorts[k]
    BY <1>0, AppendProperties
  <2>4. FindCohort(v, r, s) = n + 1
    <3>1. \A k \in 1..n : ~IsPair(w.cohorts[k], r, s)
      BY <1>0, <1>2, FindCohortIs
    <3>2. IsPair(more[n + 1], r, s)
      BY <2>3 DEF IsPair
    <3>3. /\ FindCohort(v, r, s) \in 0..(n + 1)
          /\ FindCohort(v, r, s) # 0 => IsPair(more[FindCohort(v, r, s)], r, s)
          /\ FindCohort(v, r, s) = 0 => \A k \in 1..(n + 1) : ~IsPair(more[k], r, s)
      <4> HIDE DEF v, more
      <4> QED
        BY <2>2, <2>3, FindCohortIs
    <3>4. FindCohort(v, r, s) # 0
      BY <1>0, <3>2, <3>3
    <3>5. FindCohort(v, r, s) \notin 1..n
      BY <1>0, <2>3, <3>1, <3>3, <3>4
    <3> QED
      BY <1>0, <3>3, <3>4, <3>5
  <2>5. WithCount(w, r, s, count) = [v EXCEPT !.cohorts[n + 1].count = count]
    BY <2>1, <2>4 DEF WithCount
  <2>6. [more EXCEPT ![n + 1].count = count] = Append(w.cohorts, new)
    <3> DEFINE a == [more EXCEPT ![n + 1].count = count]
               b == Append(w.cohorts, new)
    <3>1. /\ DOMAIN a = 1..(n + 1)
          /\ \A k \in 1..(n + 1) : a[k] = IF k = n + 1 THEN new ELSE w.cohorts[k]
      <4>1. DOMAIN more = 1..(n + 1)
        BY <1>0, <2>3
      <4>2. a = [k \in 1..(n + 1) |-> IF k = n + 1 THEN [more[k] EXCEPT !.count = count]
                                     ELSE more[k]]
        BY <4>1
      <4>3. [none EXCEPT !.count = count] = new
        OBVIOUS
      <4>4. a[n + 1] = new
        BY <1>0, <2>3, <4>2, <4>3
      <4>5. ASSUME NEW k \in 1..(n + 1), k # n + 1
            PROVE  a[k] = w.cohorts[k]
        <5>1. k \in 1..n
          BY <1>0, <4>5
        <5> HIDE DEF a, more, none, new
        <5> QED
          BY <2>3, <4>2, <4>5, <5>1
      <4>6. DOMAIN a = 1..(n + 1)
        BY <4>1
      <4> HIDE DEF a, more, none, new
      <4> QED
        BY <4>4, <4>5, <4>6
    <3>2. new \in CohortRecords
      BY DEF CohortRecords
    <3>3. /\ b \in Seq(CohortRecords) /\ Len(b) = n + 1
          /\ b[n + 1] = new /\ \A k \in 1..n : b[k] = w.cohorts[k]
      BY <1>0, <3>2, AppendProperties
    <3>4. a = [k \in DOMAIN a |-> a[k]]
      OBVIOUS
    <3> HIDE DEF a, b, new, more
    <3>5. DOMAIN b = 1..(n + 1) /\ b = [k \in DOMAIN b |-> b[k]]
      BY <1>0, <3>3
    <3>6. \A k \in 1..(n + 1) : a[k] = b[k]
      BY <1>0, <3>1, <3>3
    <3>7. a = b
      BY <3>1, <3>4, <3>5, <3>6
    <3> QED
      BY <3>7 DEF a, b
  <2>7. [v EXCEPT !.cohorts[n + 1].count = count]
            = [w EXCEPT !.cohorts = [more EXCEPT ![n + 1].count = count]]
    BY DEF WorldRecords
  <2> QED
    BY <1>2, <2>5, <2>6, <2>7 DEF Counted
<1>3. WithCount(w, r, s, count) = [w EXCEPT !.cohorts = Counted(w, r, s, count)]
  BY <1>1, <1>2
<1>4. Counted(w, r, s, count) \in Seq(CohortRecords)
  BY <1>0, CountedIs
<1> QED
  BY <1>3, <1>4 DEF WorldRecords

\* Population: what the cohort of the pair counts, nothing if there is none.
LEMMA PopulationIs ==
    ASSUME NEW w, w.cohorts \in Seq(CohortRecords), CohortsFit(w), NEW r, NEW s
    PROVE  /\ \A k \in 1..Len(w.cohorts) :
                 IsPair(w.cohorts[k], r, s) => Population(w, r, s) = w.cohorts[k].count
           /\ (\A k \in 1..Len(w.cohorts) : ~IsPair(w.cohorts[k], r, s))
                 => Population(w, r, s) = 0
<1>1. DOMAIN w.cohorts = 1..Len(w.cohorts)
  OBVIOUS
<1>2. ASSUME NEW k \in 1..Len(w.cohorts), IsPair(w.cohorts[k], r, s)
      PROVE  Population(w, r, s) = w.cohorts[k].count
  <2>1. FindCohort(w, r, s) = k
    BY <1>1, <1>2, FindCohortFinds
  <2> QED
    BY <2>1 DEF Population
<1>3. ASSUME \A k \in 1..Len(w.cohorts) : ~IsPair(w.cohorts[k], r, s)
      PROVE  Population(w, r, s) = 0
  <2>1. FindCohort(w, r, s) = 0
    BY <1>3, FindCohortIs
  <2> QED
    BY <2>1 DEF Population
<1> QED
  BY <1>2, <1>3

\* ... which is within the capacity of a region that exists.
LEMMA PopulationFits ==
    ASSUME NEW w \in WorldRecords, CohortsFit(w), NEW r, NEW s
    PROVE  /\ Population(w, r, s) \in Nat
           /\ Refusal(w, r, s) = NoReason => /\ w.regions[r.index].cap \in Nat
                                             /\ Population(w, r, s) <= w.regions[r.index].cap
<1>1. w.cohorts \in Seq(CohortRecords) /\ w.regions \in Seq(RegionRecords)
  BY DEF WorldRecords
<1>2. Refusal(w, r, s) = NoReason => w.regions[r.index].cap \in Nat
  <2>1. ASSUME Refusal(w, r, s) = NoReason PROVE r.index \in 1..Len(w.regions)
    BY <2>1, RefusalIs DEF HasRegion
  <2>2. Refusal(w, r, s) = NoReason => w.regions[r.index] \in RegionRecords
    BY <1>1, <2>1
  <2> QED
    BY <2>2 DEF RegionRecords
<1>3. CASE \A k \in 1..Len(w.cohorts) : ~IsPair(w.cohorts[k], r, s)
  <2>1. Population(w, r, s) = 0
    BY <1>1, <1>3, PopulationIs
  <2> QED
    BY <1>2, <2>1
<1>4. CASE \E k \in 1..Len(w.cohorts) : IsPair(w.cohorts[k], r, s)
  <2>1. PICK k \in 1..Len(w.cohorts) : IsPair(w.cohorts[k], r, s)
    BY <1>4
  <2>2. Population(w, r, s) = w.cohorts[k].count
    BY <1>1, <2>1, PopulationIs
  <2>3. w.cohorts[k].count \in Nat
    <3>1. w.cohorts[k] \in CohortRecords
      BY <1>1
    <3> QED
      BY <3>1 DEF CohortRecords
  <2>4. w.cohorts[k].count <= w.regions[r.index].cap
    <3>1. k \in DOMAIN w.cohorts
      BY <1>1
    <3> QED
      BY <2>1, <3>1 DEF CohortsFit, IsPair
  <2> QED
    BY <1>2, <2>2, <2>3, <2>4
<1> QED
  BY <1>3, <1>4

\* A pair gets its count, the others keep theirs.
LEMMA WithCountFits ==
    ASSUME NEW w \in WorldRecords, CohortsFit(w), NEW r \in HandleRecords,
           NEW s \in HandleRecords, Refusal(w, r, s) = NoReason, NEW count \in Nat,
           count <= w.regions[r.index].cap
    PROVE  LET v == WithCount(w, r, s, count)
           IN  /\ CohortsFit(v)
               /\ Population(v, r, s) = count
               /\ \A q, t : ~(q = r /\ t = s) => Population(v, q, t) = Population(w, q, t)
<1> DEFINE v == WithCount(w, r, s, count)
           i == FindCohort(w, r, s)
           n == Len(w.cohorts)
           at == IF i # 0 THEN i ELSE n + 1
<1>1. /\ v \in WorldRecords /\ v.cohorts = Counted(w, r, s, count)
      /\ v.regions = w.regions /\ v.species = w.species
  <2>1. v \in WorldRecords /\ v = [w EXCEPT !.cohorts = Counted(w, r, s, count)]
    BY WithCountIs
  <2> QED
    BY <2>1 DEF WorldRecords
<1>2. w.cohorts \in Seq(CohortRecords) /\ v.cohorts \in Seq(CohortRecords)
  BY <1>1 DEF WorldRecords
<1> HIDE DEF v
<1>3. n \in Nat /\ i \in 0..n
  BY <1>2, CountedIs
<1>4. /\ Len(v.cohorts) = IF i # 0 THEN n ELSE n + 1
      /\ \A k \in 1..n : k # i => v.cohorts[k] = w.cohorts[k]
      /\ v.cohorts[at] = [region |-> r, species |-> s, count |-> count]
  BY <1>1, <1>2, CountedIs
<1>5. /\ i # 0 => IsPair(w.cohorts[i], r, s)
      /\ i = 0 => \A k \in 1..n : ~IsPair(w.cohorts[k], r, s)
  BY <1>2, FindCohortIs
<1> HIDE DEF i
<1>6. /\ at \in 1..Len(v.cohorts) /\ IsPair(v.cohorts[at], r, s)
      /\ \A k \in 1..Len(v.cohorts) : k # at => k \in 1..n /\ k # i /\ v.cohorts[k] = w.cohorts[k]
      /\ \A k \in 1..n : k # i => k \in 1..Len(v.cohorts) /\ k # at
  BY <1>3, <1>4 DEF IsPair
<1>7. DOMAIN w.cohorts = 1..n /\ DOMAIN v.cohorts = 1..Len(v.cohorts)
  BY <1>2
<1>8. \A k \in 1..n : k # i => ~IsPair(w.cohorts[k], r, s)
  <2>1. ASSUME NEW k \in 1..n, k # i, IsPair(w.cohorts[k], r, s) PROVE FALSE
    <3>1. i \in 1..n /\ IsPair(w.cohorts[i], r, s)
      BY <1>3, <1>5, <2>1
    <3> QED
      BY <1>7, <2>1, <3>1 DEF CohortsFit, IsPair
  <2> QED
    BY <2>1
<1> HIDE DEF at
<1>9. CohortsFit(v)
  <2>1. ASSUME NEW j \in DOMAIN v.cohorts, NEW k \in DOMAIN v.cohorts,
               IsPair(v.cohorts[j], v.cohorts[k].region, v.cohorts[k].species)
        PROVE  j = k
    <3>1. CASE j # at /\ k # at
      BY <1>6, <1>7, <2>1, <3>1 DEF CohortsFit
    <3>2. CASE j = at /\ k # at
      BY <1>6, <1>7, <1>8, <2>1, <3>2 DEF IsPair
    <3>3. CASE j # at /\ k = at
      BY <1>6, <1>7, <1>8, <2>1, <3>3 DEF IsPair
    <3> QED
      BY <3>1, <3>2, <3>3
  <2>2. ASSUME NEW k \in DOMAIN v.cohorts
        PROVE  /\ Refusal(v, v.cohorts[k].region, v.cohorts[k].species) = NoReason
               /\ v.cohorts[k].count <= v.regions[v.cohorts[k].region.index].cap
    <3>1. CASE k = at
      <4>1. /\ v.cohorts[k].region = r /\ v.cohorts[k].species = s
            /\ v.cohorts[k].count = count
        BY <1>4, <3>1
      <4> QED
        BY <1>1, <4>1, RefusalDepends
    <3>2. CASE k # at
      <4>1. k \in DOMAIN w.cohorts /\ v.cohorts[k] = w.cohorts[k]
        BY <1>6, <1>7, <3>2
      <4>2. /\ Refusal(w, w.cohorts[k].region, w.cohorts[k].species) = NoReason
            /\ w.cohorts[k].count <= w.regions[w.cohorts[k].region.index].cap
        BY <4>1 DEF CohortsFit
      <4> QED
        BY <1>1, <4>1, <4>2, RefusalDepends
    <3> QED
      BY <3>1, <3>2
  <2> QED
    BY <2>1, <2>2 DEF CohortsFit
<1>10. Population(v, r, s) = count
  BY <1>2, <1>4, <1>6, <1>9, PopulationIs
<1>11. ASSUME NEW q, NEW t, ~(q = r /\ t = s)
       PROVE  Population(v, q, t) = Population(w, q, t)
  <2>1. ~IsPair(v.cohorts[at], q, t) /\ (i # 0 => ~IsPair(w.cohorts[i], q, t))
    BY <1>5, <1>6, <1>11 DEF IsPair
  <2>2. CASE \E k \in 1..n : IsPair(w.cohorts[k], q, t)
    <3>1. PICK k \in 1..n : IsPair(w.cohorts[k], q, t)
      BY <2>2
    <3>2. k # i /\ k \in 1..Len(v.cohorts) /\ IsPair(v.cohorts[k], q, t)
            /\ v.cohorts[k] = w.cohorts[k]
      BY <1>3, <1>4, <1>6, <2>1, <3>1
    <3> QED
      BY <1>2, <1>9, <3>1, <3>2, PopulationIs
  <2>3. CASE \A k \in 1..n : ~IsPair(w.cohorts[k], q, t)
    <3>1. \A k \in 1..Len(v.cohorts) : ~IsPair(v.cohorts[k], q, t)
      BY <1>6, <2>1, <2>3
    <3> QED
      BY <1>2, <1>9, <2>3, <3>1, PopulationIs
  <2> QED
    BY <2>2, <2>3
<1> QED
  BY <1>9, <1>10, <1>11 DEF v

-----------------------------------------------------------------------------
(* Setting up.                                                             *)

LEMMA EmptyIsWorld == IsWorld(EmptyWorld) /\ EmptyWorld.log = <<>>
<1>1. /\ EmptyWorld \in WorldRecords
      /\ EmptyWorld.cohorts = <<>> /\ EmptyWorld.log = <<>>
  BY DEF EmptyWorld, WorldRecords
<1>3. HandlesFit(EmptyWorld)
  BY DEF EmptyWorld, HandlesFit, IndexSpan
<1>2. DOMAIN EmptyWorld.cohorts = {} /\ DOMAIN EmptyWorld.log = {}
  BY <1>1
<1> QED
  BY <1>1, <1>2, <1>3 DEF IsWorld, CohortsFit, RecordsFit

\* A new region or species at the end of its list hides none that was there.
LEMMA CreateRegionFits ==
    ASSUME NEW w, IsWorld(w), w.log = <<>>, NEW name \in Names, NEW cap \in Int,
           Len(w.regions) + 1 < IndexSpan
    PROVE  LET v == CreateRegion(w, name, cap)
           IN  /\ IsWorld(v) /\ v.log = <<>>
               /\ Len(v.regions) = Len(w.regions) + 1 /\ v.species = w.species
<1> DEFINE region == [name |-> name, gen |-> FirstGeneration, cap |-> NotNegative(cap)]
           v == CreateRegion(w, name, cap)
           n == Len(w.regions)
<1>1. w \in WorldRecords /\ CohortsFit(w) /\ w.regions \in Seq(RegionRecords) /\ n \in Nat
  BY DEF IsWorld, WorldRecords
<1>2. region \in RegionRecords
  BY DEF RegionRecords, FirstGeneration, NotNegative
<1>3. v = [w EXCEPT !.regions = Append(@, region)]
  BY DEF CreateRegion
<1> HIDE DEF v, region
<1>4. /\ Append(w.regions, region) \in Seq(RegionRecords)
      /\ Len(Append(w.regions, region)) = n + 1
      /\ \A i \in 1..n : Append(w.regions, region)[i] = w.regions[i]
  BY <1>1, <1>2, AppendProperties
<1>5. /\ v \in WorldRecords /\ v.regions = Append(w.regions, region)
      /\ v.species = w.species /\ v.cohorts = w.cohorts /\ v.log = w.log
  BY <1>1, <1>3, <1>4 DEF WorldRecords
<1>6. ASSUME NEW i \in DOMAIN w.cohorts
      PROVE  /\ Refusal(v, w.cohorts[i].region, w.cohorts[i].species) = NoReason
             /\ w.cohorts[i].count <= v.regions[w.cohorts[i].region.index].cap
  <2> DEFINE r == w.cohorts[i].region
             s == w.cohorts[i].species
  <2>1. Refusal(w, r, s) = NoReason /\ w.cohorts[i].count <= w.regions[r.index].cap
    BY <1>1 DEF CohortsFit
  <2>2. HasRegion(w, r) /\ HasSpecies(w, s)
    BY <2>1, RefusalIs
  <2>3. r.index \in 1..n /\ v.regions[r.index] = w.regions[r.index] /\ Len(v.regions) = n + 1
    BY <1>4, <1>5, <2>2 DEF HasRegion
  <2>4. HasRegion(v, r) /\ HasSpecies(v, s)
    BY <1>1, <1>5, <2>2, <2>3 DEF HasRegion, HasSpecies
  <2> QED
    BY <2>1, <2>3, <2>4, RefusalIs
<1>7. CohortsFit(v)
  BY <1>1, <1>5, <1>6 DEF CohortsFit
<1>8. RecordsFit(v)
  BY <1>5 DEF IsWorld, RecordsFit
<1>9. HandlesFit(v)
  BY <1>4, <1>5 DEF IsWorld, HandlesFit
<1> QED
  BY <1>4, <1>5, <1>7, <1>8, <1>9 DEF IsWorld, v

LEMMA CreateSpeciesFits ==
    ASSUME NEW w, IsWorld(w), w.log = <<>>, NEW name \in Names,
           Len(w.species) + 1 < IndexSpan
    PROVE  LET v == CreateSpecies(w, name)
           IN  /\ IsWorld(v) /\ v.log = <<>>
               /\ Len(v.species) = Len(w.species) + 1 /\ v.regions = w.regions
<1> DEFINE one == [name |-> name, gen |-> FirstGeneration]
           v == CreateSpecies(w, name)
           n == Len(w.species)
<1>1. w \in WorldRecords /\ CohortsFit(w) /\ w.species \in Seq(SpeciesRecords) /\ n \in Nat
  BY DEF IsWorld, WorldRecords
<1>2. one \in SpeciesRecords
  BY DEF SpeciesRecords, FirstGeneration
<1>3. v = [w EXCEPT !.species = Append(@, one)]
  BY DEF CreateSpecies
<1> HIDE DEF v, one
<1>4. /\ Append(w.species, one) \in Seq(SpeciesRecords)
      /\ Len(Append(w.species, one)) = n + 1
      /\ \A i \in 1..n : Append(w.species, one)[i] = w.species[i]
  BY <1>1, <1>2, AppendProperties
<1>5. /\ v \in WorldRecords /\ v.species = Append(w.species, one)
      /\ v.regions = w.regions /\ v.cohorts = w.cohorts /\ v.log = w.log
  BY <1>1, <1>3, <1>4 DEF WorldRecords
<1>6. ASSUME NEW i \in DOMAIN w.cohorts
      PROVE  Refusal(v, w.cohorts[i].region, w.cohorts[i].species) = NoReason
  <2> DEFINE r == w.cohorts[i].region
             s == w.cohorts[i].species
  <2>1. HasRegion(w, r) /\ HasSpecies(w, s)
    BY <1>1, RefusalIs DEF CohortsFit
  <2>2. s.index \in 1..n /\ v.species[s.index] = w.species[s.index] /\ Len(v.species) = n + 1
    BY <1>4, <1>5, <2>1 DEF HasSpecies
  <2>3. HasRegion(v, r) /\ HasSpecies(v, s)
    BY <1>1, <1>5, <2>1, <2>2 DEF HasRegion, HasSpecies
  <2> QED
    BY <2>3, RefusalIs
<1>7. CohortsFit(v)
  BY <1>1, <1>5, <1>6 DEF CohortsFit
<1>8. RecordsFit(v)
  BY <1>5 DEF IsWorld, RecordsFit
<1>9. HandlesFit(v)
  BY <1>4, <1>5 DEF IsWorld, HandlesFit
<1> QED
  BY <1>4, <1>5, <1>7, <1>8, <1>9 DEF IsWorld, v

\* A first population is cut down to what the region carries.
LEMMA SetPopulationFits ==
    ASSUME NEW w, IsWorld(w), NEW r \in HandleRecords, NEW s \in HandleRecords,
           NEW count \in Int
    PROVE  LET v == SetPopulation(w, r, s, count).world
           IN  /\ IsWorld(v) /\ v.log = w.log
               /\ v.regions = w.regions /\ v.species = w.species
<1>1. CASE Refusal(w, r, s) # NoReason
  BY <1>1 DEF SetPopulation, Result
<1>2. CASE Refusal(w, r, s) = NoReason
  <2> DEFINE cap == w.regions[r.index].cap
             c == ClampPopulation(count, cap)
             v == WithCount(w, r, s, c)
  <2>1. w \in WorldRecords /\ CohortsFit(w)
    BY DEF IsWorld
  <2>2. cap \in Nat
    BY <1>2, <2>1, PopulationFits
  <2>3. c \in Nat /\ c <= cap
    <3> HIDE DEF cap
    <3>1. c \in 0..cap
      BY <2>2, ClampIs
    <3> QED
      BY <2>2, <3>1
  <2>4. SetPopulation(w, r, s, count).world = v
    BY <1>2 DEF SetPopulation, Result
  <2> HIDE DEF c
  <2>5. v = [w EXCEPT !.cohorts = Counted(w, r, s, c)] /\ v \in WorldRecords
    BY <2>1, <2>3, WithCountIs
  <2>6. CohortsFit(v)
    BY <1>2, <2>1, <2>3, WithCountFits
  <2> HIDE DEF v
  <2>7. v.log = w.log /\ v.regions = w.regions /\ v.species = w.species
    BY <2>1, <2>5 DEF WorldRecords
  <2>8. RecordsFit(v)
    BY <2>7 DEF IsWorld, RecordsFit
  <2>9. HandlesFit(v)
    BY <2>7 DEF IsWorld, HandlesFit
  <2> QED
    BY <2>4, <2>5, <2>6, <2>7, <2>8, <2>9 DEF IsWorld
<1> QED
  BY <1>1, <1>2

-----------------------------------------------------------------------------
(* Tool calls.                                                             *)

\* What a call leaves of a population, and the record it leaves in the log.
NextCount(w, r, s, delta) ==
    ClampPopulation(Wrap(Population(w, r, s) + RateLimited(delta, w.regions[r.index].cap)),
                    w.regions[r.index].cap)
Moved(w, r, s, delta) ==
    IF Refusal(w, r, s) = NoReason THEN NextCount(w, r, s, delta) - Population(w, r, s) ELSE 0
Changed(w, r, s, delta) ==
    IF Refusal(w, r, s) = NoReason THEN WithCount(w, r, s, NextCount(w, r, s, delta)) ELSE w
Recorded(w, seq, r, s, delta, day) ==
    [seq |-> seq, day |-> day, region |-> r, species |-> s,
     accepted |-> Refusal(w, r, s) = NoReason, requested |-> delta,
     applied |-> Moved(w, r, s, delta), reason |-> Refusal(w, r, s)]

LEMMA NextCountFits ==
    ASSUME NEW w \in WorldRecords, CohortsFit(w), NEW r, NEW s, NEW delta \in Int,
           Refusal(w, r, s) = NoReason
    PROVE  NextCount(w, r, s, delta) \in 0..w.regions[r.index].cap
<1> DEFINE cap == w.regions[r.index].cap
           limited == RateLimited(delta, cap)
           old == Population(w, r, s)
<1>1. cap \in Nat /\ old \in Nat
  BY PopulationFits
<1>2. limited \in Int
  BY <1>1, RateLimitedIs
<1> HIDE DEF cap, limited, old
<1>3. Wrap(old + limited) \in Int
  BY <1>1, <1>2, WrapIs
<1>4. ClampPopulation(Wrap(old + limited), cap) \in 0..cap
  BY <1>1, <1>3, ClampIs
<1> QED
  BY <1>4 DEF NextCount, cap, limited, old

\* A call: the whole of its Result.
LEMMA AdjustIs ==
    ASSUME NEW w, NEW seq, NEW r, NEW s, NEW delta, NEW day
    PROVE  LET a == ApplyAdjustPopulation(w, seq, r, s, delta, day)
           IN  /\ a.ok = (Refusal(w, r, s) = NoReason)
               /\ a.applied = Moved(w, r, s, delta)
               /\ a.world = [Changed(w, r, s, delta) EXCEPT
                                 !.log = Append(@, Recorded(w, seq, r, s, delta, day))]
  BY Zenon DEF ApplyAdjustPopulation, Result, NextCount, Moved, Changed,
     Recorded, AppliedDelta, LogAll

\* What it does to a world: it stays one, keeps its regions and species, has one
\* more record, and nobody moves but those the call is about.
LEMMA AdjustFits ==
    ASSUME NEW w, IsWorld(w), NEW seq \in Int, NEW r \in HandleRecords, NEW s \in HandleRecords,
           NEW delta \in Int, NEW day \in Int
    PROVE  LET v == ApplyAdjustPopulation(w, seq, r, s, delta, day).world
           IN  /\ IsWorld(v)
               /\ v.regions = w.regions /\ v.species = w.species
               /\ v.log = Append(w.log, Recorded(w, seq, r, s, delta, day))
               /\ Recorded(w, seq, r, s, delta, day) \in CallRecords
               /\ v.cohorts = IF Refusal(w, r, s) = NoReason
                              THEN Counted(w, r, s, NextCount(w, r, s, delta)) ELSE w.cohorts
               /\ Moved(w, r, s, delta) \in Int
               /\ Population(v, r, s) = Population(w, r, s) + Moved(w, r, s, delta)
               /\ \A q, t : ~(q = r /\ t = s) => Population(v, q, t) = Population(w, q, t)
<1> DEFINE v == ApplyAdjustPopulation(w, seq, r, s, delta, day).world
           record == Recorded(w, seq, r, s, delta, day)
           next == NextCount(w, r, s, delta)
           changed == Changed(w, r, s, delta)
<1>1. v = [changed EXCEPT !.log = Append(@, record)]
  BY AdjustIs
<1>2. w \in WorldRecords /\ CohortsFit(w) /\ RecordsFit(w)
  BY DEF IsWorld
<1>3. Population(w, r, s) \in Nat
  BY <1>2, PopulationFits
<1>4. Refusal(w, r, s) = NoReason => next \in 0..w.regions[r.index].cap
                                     /\ w.regions[r.index].cap \in Nat
  BY <1>2, NextCountFits, PopulationFits
<1>5. Moved(w, r, s, delta) \in Int
  BY <1>3, <1>4 DEF Moved
<1>6. record \in CallRecords
  BY <1>5, RefusalIs DEF Recorded, CallRecords
<1>7. /\ changed \in WorldRecords /\ CohortsFit(changed)
      /\ changed.regions = w.regions /\ changed.species = w.species /\ changed.log = w.log
      /\ changed.cohorts = IF Refusal(w, r, s) = NoReason THEN Counted(w, r, s, next) ELSE w.cohorts
      /\ Population(changed, r, s) = Population(w, r, s) + Moved(w, r, s, delta)
      /\ \A q, t : ~(q = r /\ t = s) => Population(changed, q, t) = Population(w, q, t)
  <2>1. CASE Refusal(w, r, s) = NoReason
    <3> DEFINE u == WithCount(w, r, s, next)
    <3>1. next \in Nat /\ next <= w.regions[r.index].cap
      BY <1>4, <2>1
    <3> HIDE DEF next
    <3>2. u = [w EXCEPT !.cohorts = Counted(w, r, s, next)] /\ u \in WorldRecords
      BY <1>2, <3>1, WithCountIs
    <3>3. /\ CohortsFit(u) /\ Population(u, r, s) = next
          /\ \A q, t : ~(q = r /\ t = s) => Population(u, q, t) = Population(w, q, t)
      BY <1>2, <2>1, <3>1, WithCountFits
    <3>4. /\ u.regions = w.regions /\ u.species = w.species /\ u.log = w.log
          /\ u.cohorts = Counted(w, r, s, next)
      BY <1>2, <3>2 DEF WorldRecords
    <3>5. next = Population(w, r, s) + Moved(w, r, s, delta)
      BY <1>3, <2>1, <3>1 DEF Moved, next
    <3> HIDE DEF u
    <3> QED
      BY <2>1, <3>2, <3>3, <3>4, <3>5 DEF u, next, Changed
  <2>2. CASE Refusal(w, r, s) # NoReason
    <3>1. changed = w /\ Moved(w, r, s, delta) = 0
      BY <2>2 DEF Moved, Changed
    <3> QED
      BY <1>2, <1>3, <2>2, <3>1
  <2> QED
    BY <2>1, <2>2
<1> HIDE DEF changed, record
<1>8. /\ v \in WorldRecords /\ v.log = Append(w.log, record)
      /\ v.regions = changed.regions /\ v.species = changed.species
      /\ v.cohorts = changed.cohorts
  <2>1. w.log \in Seq(CallRecords)
    BY <1>2 DEF WorldRecords
  <2>2. Append(w.log, record) \in Seq(CallRecords)
    BY <1>6, <2>1, AppendProperties
  <2> HIDE DEF v
  <2> QED
    BY <1>1, <1>7, <2>2 DEF WorldRecords
<1> HIDE DEF v
<1>9. CohortsFit(v)
  <2>1. \A q, t : Refusal(v, q, t) = Refusal(changed, q, t)
    BY <1>8, RefusalDepends
  <2> QED
    BY <1>7, <1>8, <2>1 DEF CohortsFit
<1>10. RecordsFit(v)
  <2>1. w.log \in Seq(CallRecords) /\ record.accepted = (record.reason = NoReason)
    BY <1>2 DEF WorldRecords, record, Recorded
  <2>2. /\ DOMAIN v.log = 1..(Len(w.log) + 1) /\ v.log[Len(w.log) + 1] = record
        /\ \A i \in 1..Len(w.log) : v.log[i] = w.log[i]
        /\ DOMAIN w.log = 1..Len(w.log) /\ Len(w.log) \in Nat
    BY <1>6, <1>8, <2>1, AppendProperties
  <2>3. \A i \in DOMAIN v.log : i \in DOMAIN w.log \/ i = Len(w.log) + 1
    BY <2>2
  <2> QED
    BY <1>2, <2>1, <2>2, <2>3 DEF RecordsFit
<1>11. \A q, t : Population(v, q, t) = Population(changed, q, t)
  BY <1>8 DEF Population, FindCohort
<1>12. HandlesFit(v)
  BY <1>7, <1>8 DEF IsWorld, HandlesFit
<1> QED
  BY <1>2, <1>5, <1>6, <1>7, <1>8, <1>9, <1>10, <1>11, <1>12 DEF IsWorld, v, record

-----------------------------------------------------------------------------
(* Replay, as a recursion over the log.                                    *)

Start(w) == Result(w, TRUE, 0, NoReason)

\* What n calls of the log come to, one after the other.
IsReplay(run, w, log, n) ==
    run = [i \in 0..n |-> IF i = 0 THEN Start(w) ELSE ReplayStep(run[i - 1], log[i])]

\* The recursion has a solution.
LEMMA ReplayExists ==
    ASSUME NEW w, NEW log
    PROVE  \A n \in Nat : \E run : IsReplay(run, w, log, n)
<1> DEFINE S == {n \in Nat : \E run : IsReplay(run, w, log, n)}
<1>1. 0 \in S
  <2>1. IsReplay([i \in 0..0 |-> Start(w)], w, log, 0)
    BY DEF IsReplay
  <2> QED
    BY <2>1
<1>2. ASSUME NEW n \in Nat, n \in S PROVE n + 1 \in S
  <2>1. PICK run : IsReplay(run, w, log, n)
    BY <1>2
  <2> DEFINE more == [i \in 0..(n + 1) |-> IF i = n + 1 THEN ReplayStep(run[n], log[n + 1])
                                           ELSE run[i]]
  <2>2. \A i \in 0..n : more[i] = run[i]
    OBVIOUS
  <2>3. ASSUME NEW i \in 0..(n + 1)
        PROVE  more[i] = IF i = 0 THEN Start(w) ELSE ReplayStep(more[i - 1], log[i])
    <3>1. CASE i = n + 1
      BY <2>2, <3>1
    <3>2. CASE i # n + 1
      <4>1. i \in 0..n /\ (i # 0 => i - 1 \in 0..n)
        BY <3>2
      <4>2. run[i] = IF i = 0 THEN Start(w) ELSE ReplayStep(run[i - 1], log[i])
        BY <2>1, <4>1 DEF IsReplay
      <4> QED
        BY <2>2, <4>1, <4>2
    <3> QED
      BY <3>1, <3>2
  <2>4. IsReplay(more, w, log, n + 1)
    <3>1. more = [i \in 0..(n + 1) |-> more[i]]
      OBVIOUS
    <3> QED
      BY <2>3, <3>1 DEF IsReplay
  <2> QED
    BY <2>4
<1> HIDE DEF S
<1>3. Nat \subseteq S
  BY <1>1, <1>2, AllNaturals
<1> QED
  BY <1>3 DEF S

\* What Replayed yields is the end of such a run.
LEMMA ReplayedIs ==
    ASSUME NEW w, NEW log, Len(log) \in Nat
    PROVE  \E run : /\ run[0] = Start(w)
                    /\ \A i \in 1..Len(log) : run[i] = ReplayStep(run[i - 1], log[i])
                    /\ Replayed(w, log) = run[Len(log)]
<1> DEFINE run == CHOOSE run : IsReplay(run, w, log, Len(log))
<1>1. IsReplay(run, w, log, Len(log))
  BY ReplayExists
<1>2. Replayed(w, log) = run[Len(log)]
  BY DEF Replayed, IsReplay, Start
<1> HIDE DEF run
<1>3. run[0] = Start(w) /\ \A i \in 1..Len(log) : run[i] = ReplayStep(run[i - 1], log[i])
  BY <1>1 DEF IsReplay
<1> QED
  BY <1>2, <1>3

LEMMA ReplayOfNothing ==
    ASSUME NEW w
    PROVE  Replayed(w, <<>>) = Start(w)
<1>1. Len(<<>>) = 0
  BY EmptySeq
<1> QED
  BY <1>1, ReplayedIs

\* One more record is one more step.
LEMMA ReplayOfOneMore ==
    ASSUME NEW w, NEW log \in Seq(CallRecords), NEW record \in CallRecords
    PROVE  Replayed(w, Append(log, record)) = ReplayStep(Replayed(w, log), record)
<1> DEFINE more == Append(log, record)
           n == Len(log)
<1>1. /\ n \in Nat /\ Len(more) = n + 1 /\ more[n + 1] = record
      /\ \A i \in 1..n : more[i] = log[i]
  BY AppendProperties
<1> HIDE DEF more, n
<1>2. PICK run : /\ run[0] = Start(w)
                 /\ \A i \in 1..n : run[i] = ReplayStep(run[i - 1], log[i])
                 /\ Replayed(w, log) = run[n]
  BY <1>1, ReplayedIs DEF n
<1>3. PICK longer : /\ longer[0] = Start(w)
                    /\ \A i \in 1..(n + 1) : longer[i] = ReplayStep(longer[i - 1], more[i])
                    /\ Replayed(w, more) = longer[n + 1]
  <2>1. Len(more) \in Nat
    BY <1>1
  <2>2. PICK run2 : /\ run2[0] = Start(w)
                    /\ \A i \in 1..Len(more) : run2[i] = ReplayStep(run2[i - 1], more[i])
                    /\ Replayed(w, more) = run2[Len(more)]
    BY <2>1, ReplayedIs
  <2> QED
    BY <1>1, <2>2
<1> DEFINE S == {i \in Nat : i <= n => longer[i] = run[i]}
<1>4. 0 \in S
  BY <1>2, <1>3
<1>5. ASSUME NEW i \in Nat, i \in S PROVE i + 1 \in S
  <2>1. ASSUME i + 1 <= n PROVE longer[i + 1] = run[i + 1]
    <3>1. i + 1 \in 1..n /\ i + 1 \in 1..(n + 1) /\ (i + 1) - 1 = i /\ longer[i] = run[i]
      BY <1>1, <1>5, <2>1
    <3>2. longer[i + 1] = ReplayStep(longer[i], more[i + 1])
      BY <1>3, <3>1
    <3>3. run[i + 1] = ReplayStep(run[i], log[i + 1])
      BY <1>2, <3>1
    <3> QED
      BY <1>1, <3>1, <3>2, <3>3
  <2> QED
    BY <2>1
<1> HIDE DEF S
<1>6. n \in S
  BY <1>1, <1>4, <1>5, AllNaturals
<1>7. longer[n] = run[n] /\ longer[n + 1] = ReplayStep(longer[n], more[n + 1])
  <2>1. n + 1 \in 1..(n + 1) /\ (n + 1) - 1 = n
    BY <1>1
  <2> QED
    BY <1>1, <1>3, <1>6, <2>1 DEF S
<1> QED
  BY <1>1, <1>2, <1>3, <1>7 DEF more

-----------------------------------------------------------------------------
(* Replay, of a log on the world it was begun on.                          *)

\* The log of w, replayed on the baseline, makes w again.
Reproduces(baseline, w) ==
    LET replayed == Replayed(baseline, w.log) IN replayed.ok /\ replayed.world = w

LEMMA BaselineReproduces ==
    ASSUME NEW w, w.log = <<>>
    PROVE  Reproduces(w, w)
  BY ReplayOfNothing DEF Reproduces, Start, Result

LEMMA AdjustReproduces ==
    ASSUME NEW baseline, NEW w, IsWorld(w), Reproduces(baseline, w),
           NEW seq \in Int, NEW r \in HandleRecords, NEW s \in HandleRecords,
           NEW delta \in Int, NEW day \in Int
    PROVE  Reproduces(baseline, ApplyAdjustPopulation(w, seq, r, s, delta, day).world)
<1> DEFINE a == ApplyAdjustPopulation(w, seq, r, s, delta, day)
           record == Recorded(w, seq, r, s, delta, day)
           sofar == Replayed(baseline, w.log)
<1>1. a.world.log = Append(w.log, record) /\ record \in CallRecords
  BY AdjustFits
<1>2. a.ok = record.accepted /\ a.applied = record.applied
  <2>1. /\ a.ok = (Refusal(w, r, s) = NoReason)
        /\ a.applied = Moved(w, r, s, delta)
    BY Zenon DEF ApplyAdjustPopulation, Result, NextCount, Moved, AppliedDelta
  <2>2. /\ record.accepted = (Refusal(w, r, s) = NoReason)
        /\ record.applied = Moved(w, r, s, delta)
    BY DEF Recorded
  <2> QED
    BY <2>1, <2>2
<1>3. /\ record.seq = seq /\ record.region = r /\ record.species = s
      /\ record.requested = delta /\ record.day = day
  BY DEF Recorded
<1>4. w.log \in Seq(CallRecords)
  BY DEF IsWorld, WorldRecords
<1> HIDE DEF record
<1>5. Replayed(baseline, a.world.log) = ReplayStep(sofar, record)
  BY <1>1, <1>4, ReplayOfOneMore
<1>6. sofar.ok /\ sofar.world = w
  BY DEF Reproduces
<1> HIDE DEF sofar
<1>7. ReplayStep(sofar, record) = Result(a.world, TRUE, a.applied, NoReason)
  BY <1>2, <1>3, <1>6 DEF ReplayStep
<1> QED
  BY <1>5, <1>7 DEF Reproduces, Result

LEMMA ReplayOfReproducing ==
    ASSUME NEW baseline, NEW w, Reproduces(baseline, w)
    PROVE  /\ ReplayToolLogFrom(baseline, w).ok
           /\ ReplayToolLogFrom(baseline, w).world = w
  BY DEF Reproduces, ReplayToolLogFrom

-----------------------------------------------------------------------------
(* Text: what lies where in lines that follow each other.                  *)

LEMMA TokensAre ==
    /\ \A word \in Vocabulary : Word(word) \in Tokens /\ ~Word(word).digits
    /\ \A n \in Int : Number(n) \in Tokens /\ Number(n).digits /\ Number(n).number = n
<1>1. "" \in Vocabulary
  BY DEF Vocabulary
<1>2. ASSUME NEW word \in Vocabulary PROVE Word(word) \in Tokens /\ ~Word(word).digits
  <2> HIDE DEF Vocabulary
  <2> QED
    BY DEF Word, Tokens
<1>3. ASSUME NEW n \in Int
      PROVE  Number(n) \in Tokens /\ Number(n).digits /\ Number(n).number = n
  <2> HIDE DEF Vocabulary
  <2> QED
    BY <1>1 DEF Number, Tokens
<1> QED
  BY <1>2, <1>3

\* Two words are one token only if they are the same.
LEMMA WordsDiffer ==
    ASSUME NEW x, NEW y, x # y
    PROVE  Word(x) # Word(y)
<1>1. Word(x).word = x /\ Word(y).word = y
  BY DEF Word
<1> QED
  BY <1>1

\* What is where in two texts after each other.
LEMMA JoinedIs ==
    ASSUME NEW T, NEW s \in Seq(T), NEW t \in Seq(T)
    PROVE  /\ s \o t \in Seq(T) /\ Len(s) \in Nat /\ Len(t) \in Nat
           /\ Len(s \o t) = Len(s) + Len(t)
           /\ \A j \in 1..Len(s) : (s \o t)[j] = s[j]
           /\ \A j \in 1..Len(t) : (s \o t)[Len(s) + j] = t[j]
<1>1. Len(s) \in Nat /\ Len(t) \in Nat
  OBVIOUS
<1>2. /\ s \o t \in Seq(T) /\ Len(s \o t) = Len(s) + Len(t)
      /\ \A i \in 1..(Len(s) + Len(t)) :
             (s \o t)[i] = IF i <= Len(s) THEN s[i] ELSE t[i - Len(s)]
  BY ConcatProperties
<1> DEFINE u == s \o t
           k == Len(s)
           n == Len(t)
<1> HIDE DEF u, k, n
<1>3. \A j \in 1..k : u[j] = s[j]
  BY <1>1, <1>2 DEF u, k, n
<1>4. \A j \in 1..n : u[k + j] = t[j]
  <2>1. ASSUME NEW j \in 1..n PROVE u[k + j] = t[j]
    <3>1. k + j \in 1..(k + n) /\ ~(k + j <= k) /\ (k + j) - k = j
      BY <1>1 DEF k, n
    <3> QED
      BY <1>2, <3>1 DEF u, k, n
  <2> QED
    BY <2>1
<1> QED
  BY <1>1, <1>2, <1>3, <1>4 DEF u, k, n

\* The lines before the n-th, and it, without what separates them.
IsFlatten(run, lines, n) ==
    run = [i \in 1..n |-> IF i = 1 THEN lines[i] ELSE run[i - 1] \o lines[i]]

\* The recursion has a solution.
LEMMA FlattenExists ==
    ASSUME NEW lines
    PROVE  \A n \in Nat : \E run : IsFlatten(run, lines, n)
<1> DEFINE S == {n \in Nat : \E run : IsFlatten(run, lines, n)}
<1>1. 0 \in S
  <2>1. IsFlatten([i \in 1..0 |-> lines[i]], lines, 0)
    BY DEF IsFlatten
  <2> QED
    BY <2>1
<1>2. ASSUME NEW n \in Nat, n \in S PROVE n + 1 \in S
  <2>1. PICK run : IsFlatten(run, lines, n)
    BY <1>2
  <2> DEFINE more == [i \in 1..(n + 1) |->
                         IF i = n + 1 THEN IF i = 1 THEN lines[i] ELSE run[n] \o lines[i]
                         ELSE run[i]]
  <2>2. \A i \in 1..n : more[i] = run[i]
    OBVIOUS
  <2>3. ASSUME NEW i \in 1..(n + 1)
        PROVE  more[i] = IF i = 1 THEN lines[i] ELSE more[i - 1] \o lines[i]
    <3>1. CASE i = n + 1
      <4>1. more[i] = IF i = 1 THEN lines[i] ELSE run[n] \o lines[i]
        BY <3>1
      <4>2. i # 1 => i - 1 = n /\ n \in 1..n
        BY <3>1
      <4> HIDE DEF more
      <4> QED
        BY <2>2, <4>1, <4>2
    <3>2. CASE i # n + 1
      <4>1. i \in 1..n /\ (i # 1 => i - 1 \in 1..n)
        BY <3>2
      <4>2. run[i] = IF i = 1 THEN lines[i] ELSE run[i - 1] \o lines[i]
        BY <2>1, <4>1 DEF IsFlatten
      <4> QED
        BY <2>2, <4>1, <4>2
    <3> QED
      BY <3>1, <3>2
  <2>4. IsFlatten(more, lines, n + 1)
    <3>1. more = [i \in 1..(n + 1) |-> more[i]]
      OBVIOUS
    <3> HIDE DEF more
    <3> QED
      BY <2>3, <3>1 DEF IsFlatten
  <2> QED
    BY <2>4
<1> HIDE DEF S
<1>3. Nat \subseteq S
  BY <1>1, <1>2, AllNaturals
<1> QED
  BY <1>3 DEF S

LEMMA FlattenIs ==
    ASSUME NEW lines, Len(lines) \in Nat, Len(lines) # 0
    PROVE  \E run : /\ run[1] = lines[1]
                    /\ \A i \in 1..Len(lines) : i # 1 => run[i] = run[i - 1] \o lines[i]
                    /\ FlattenSeq(lines) = run[Len(lines)]
<1> DEFINE run == CHOOSE run : IsFlatten(run, lines, Len(lines))
<1>1. IsFlatten(run, lines, Len(lines))
  BY FlattenExists
<1>2. FlattenSeq(lines) = run[Len(lines)]
  BY DEF FlattenSeq, IsFlatten
<1> HIDE DEF run
<1>3. 1 \in 1..Len(lines)
  OBVIOUS
<1>4. run[1] = lines[1] /\ \A i \in 1..Len(lines) : i # 1 => run[i] = run[i - 1] \o lines[i]
  BY <1>1, <1>3 DEF IsFlatten
<1> QED
  BY <1>2, <1>4

\* Each line starts where the one before it has ended.
LEMMA LinesFollow ==
    ASSUME NEW T, NEW lines \in Seq(Seq(T))
    PROVE  LET flat == FlattenSeq(lines)
               n == Len(lines)
           IN  /\ flat \in Seq(T) /\ n \in Nat
               /\ \E start :
                     /\ start[1] = 0 /\ Len(flat) = start[n + 1]
                     /\ \A i \in 1..(n + 1) : start[i] \in 0..Len(flat)
                     /\ \A i \in 1..n :
                           /\ Len(lines[i]) \in Nat
                           /\ start[i + 1] = start[i] + Len(lines[i])
                           /\ \A j \in 1..Len(lines[i]) : flat[start[i] + j] = lines[i][j]
<1> DEFINE flat == FlattenSeq(lines)
           n == Len(lines)
<1>1. n \in Nat /\ DOMAIN lines = 1..n /\ \A i \in 1..n : lines[i] \in Seq(T)
  OBVIOUS
<1>2. CASE n = 0
  <2>1. flat = lines /\ lines = <<>>
    BY <1>2, EmptySeq DEF FlattenSeq
  <2>2. flat \in Seq(T) /\ Len(flat) = 0
    BY <2>1
  <2> DEFINE start == [i \in 1..1 |-> 0]
  <2>3. start[1] = 0
    OBVIOUS
  <2> HIDE DEF flat, start
  <2> QED
    BY <1>2, <2>2, <2>3 DEF flat
<1>3. CASE n # 0
  <2>1. PICK run : /\ run[1] = lines[1]
                   /\ \A i \in 1..n : i # 1 => run[i] = run[i - 1] \o lines[i]
                   /\ flat = run[n]
    BY <1>1, <1>3, FlattenIs
  <2> DEFINE start == [i \in 1..(n + 1) |-> IF i = 1 THEN 0 ELSE Len(run[i - 1])]
             Fits(m) ==
                 /\ run[m] \in Seq(T)
                 /\ \A i \in 1..m :
                       /\ start[i] \in Nat /\ start[i] <= Len(run[m])
                       /\ start[i + 1] = start[i] + Len(lines[i])
                       /\ start[i + 1] <= Len(run[m])
                       /\ \A j \in 1..Len(lines[i]) : run[m][start[i] + j] = lines[i][j]
             S == {m \in Nat : m + 1 \in 1..n => Fits(m + 1)}
  <2>2. start[1] = 0 /\ \A i \in 1..n : start[i + 1] = Len(run[i])
    <3>1. \A i \in 1..n : i + 1 \in 1..(n + 1) /\ i + 1 # 1 /\ (i + 1) - 1 = i
      BY <1>1
    <3>2. 1 \in 1..(n + 1)
      BY <1>1
    <3> QED
      BY <3>1, <3>2
  <2> HIDE DEF flat, start
  <2>3. 0 \in S
    <3>1. ASSUME 1 \in 1..n PROVE Fits(1)
      <4>1. run[1] \in Seq(T) /\ Len(run[1]) \in Nat /\ run[1] = lines[1]
        BY <1>1, <2>1, <3>1
      <4>2. start[1] = 0 /\ start[2] = Len(run[1])
        <5>1. 1 + 1 = 2
          OBVIOUS
        <5> QED
          BY <2>2, <3>1, <5>1
      <4>3. \A i \in 1..1 : i = 1
        OBVIOUS
      <4>4. \A j \in 1..Len(lines[1]) : 0 + j = j
        BY <4>1
      <4> QED
        BY <4>1, <4>2, <4>3, <4>4
    <3> QED
      BY <3>1
  <2>4. ASSUME NEW m \in Nat, m \in S PROVE m + 1 \in S
    <3>1. ASSUME m + 2 \in 1..n PROVE Fits(m + 2)
      <4> DEFINE k == m + 1
      <4>1. /\ k \in 1..n /\ k + 1 \in 1..n /\ k + 1 # 1 /\ (k + 1) - 1 = k /\ k + 1 = m + 2
        BY <1>1, <3>1
      <4> HIDE DEF k
      <4>2. Fits(k)
        BY <2>4, <4>1 DEF k
      <4>3. run[k + 1] = run[k] \o lines[k + 1] /\ lines[k + 1] \in Seq(T)
        BY <1>1, <2>1, <4>1
      <4> DEFINE old == run[k]
                 new == lines[k + 1]
                 both == run[k + 1]
                 c == Len(old)
                 e == Len(new)
                 d == Len(both)
      <4>4. /\ both \in Seq(T) /\ c \in Nat /\ e \in Nat /\ d = c + e
            /\ \A j \in 1..c : both[j] = old[j]
            /\ \A j \in 1..e : both[c + j] = new[j]
        <5>1. old \in Seq(T) /\ new \in Seq(T) /\ both = old \o new
          BY <4>2, <4>3
        <5> HIDE DEF old, new, both
        <5> QED
          BY <5>1, JoinedIs
      <4> HIDE DEF old, new, both, c, e, d
      <4>5. ASSUME NEW i \in 1..k
            PROVE  /\ start[i] \in Nat /\ start[i] <= d
                   /\ start[i + 1] = start[i] + Len(lines[i])
                   /\ start[i + 1] <= d
                   /\ \A j \in 1..Len(lines[i]) : both[start[i] + j] = lines[i][j]
        <5> DEFINE here == start[i]
                   next == start[i + 1]
                   l == Len(lines[i])
        <5>1. /\ here \in Nat /\ here <= c /\ next = here + l /\ next <= c
              /\ \A j \in 1..l : old[here + j] = lines[i][j]
          BY <4>2 DEF old, c
        <5>2. l \in Nat
          <6>1. i \in 1..n
            BY <1>1, <4>1
          <6> QED
            BY <1>1, <6>1
        <5> HIDE DEF here, next, l
        <5>3. \A j \in 1..l : here + j \in 1..c
          BY <4>4, <5>1, <5>2
        <5>4. here <= d /\ next <= d
          BY <4>4, <5>1, <5>2
        <5>5. \A j \in 1..l : both[here + j] = lines[i][j]
          BY <4>4, <5>1, <5>3
        <5> QED
          BY <5>1, <5>4, <5>5 DEF here, next, l
      <4>6. start[k + 1] = c /\ start[(k + 1) + 1] = d
        BY <2>2, <4>1 DEF c, d, old, both
      <4>7. \A i \in 1..(k + 1) : i \in 1..k \/ i = k + 1
        BY <4>1
      <4>8. Fits(k + 1)
        <5>1. /\ c \in Nat /\ c <= d /\ d = c + e /\ d <= d
              /\ \A j \in 1..e : both[c + j] = new[j]
          BY <4>4
        <5>2. ASSUME NEW i \in 1..(k + 1)
              PROVE  /\ start[i] \in Nat /\ start[i] <= d
                     /\ start[i + 1] = start[i] + Len(lines[i])
                     /\ start[i + 1] <= d
                     /\ \A j \in 1..Len(lines[i]) : both[start[i] + j] = lines[i][j]
          <6>1. CASE i = k + 1
            BY <4>6, <5>1, <6>1 DEF e, new
          <6>2. CASE i # k + 1
            BY <4>5, <4>7, <6>2
          <6> QED
            BY <6>1, <6>2
        <5> QED
          BY <4>4, <5>2 DEF both, d
      <4> QED
        BY <4>1, <4>8
    <3>2. (m + 1) + 1 = m + 2
      OBVIOUS
    <3> HIDE DEF Fits
    <3> QED
      BY <3>1, <3>2
  <2>5. Fits(n)
    <3> HIDE DEF Fits
    <3>1. n - 1 \in Nat /\ (n - 1) + 1 = n /\ n \in 1..n
      BY <1>1, <1>3
    <3>2. Nat \subseteq S
      <4> HIDE DEF S
      <4> QED
        BY <2>3, <2>4, AllNaturals
    <3>3. n - 1 \in S
      BY <3>1, <3>2
    <3> QED
      BY <3>1, <3>3
  <2>6. flat \in Seq(T) /\ Len(flat) = start[n + 1] /\ Len(flat) \in Nat
    <3>1. n \in 1..n
      BY <1>1, <1>3
    <3> QED
      BY <2>1, <2>2, <2>5, <3>1
  <2>7. \A i \in 1..n :
            /\ Len(lines[i]) \in Nat /\ start[i] \in 0..Len(flat) /\ start[i + 1] \in 0..Len(flat)
            /\ start[i + 1] = start[i] + Len(lines[i])
            /\ \A j \in 1..Len(lines[i]) : flat[start[i] + j] = lines[i][j]
    <3>1. \A i \in 1..n : Len(lines[i]) \in Nat
      BY <1>1
    <3> QED
      BY <2>1, <2>5, <2>6, <3>1
  <2>8. \A i \in 1..(n + 1) : start[i] \in 0..Len(flat)
    <3>1. \A i \in 1..(n + 1) : i = n + 1 \/ i \in 1..n
      BY <1>1
    <3> QED
      BY <2>6, <2>7, <3>1
  <2> QED
    BY <1>1, <2>2, <2>6, <2>7, <2>8 DEF flat
<1> QED
  BY <1>1, <1>2, <1>3

\* Lines of one width, up to a line that may have another.
Ruled(lines, width, m) == m \in 0..Len(lines) /\ \A i \in 1..m : Len(lines[i]) = width

IsRuledText(T, flat, lines, width, m) ==
    /\ flat \in Seq(T)
    /\ width * m \in Nat /\ width * m <= Len(flat)
    /\ \A i \in 1..m : \A j \in 1..width :
          /\ width * (i - 1) + j \in 1..Len(flat)
          /\ flat[width * (i - 1) + j] = lines[i][j]
    /\ m = Len(lines) => Len(flat) = width * m
    /\ m < Len(lines) => \A j \in 1..Len(lines[m + 1]) :
          /\ width * m + j \in 1..Len(flat)
          /\ flat[width * m + j] = lines[m + 1][j]

LEMMA RuledLines ==
    ASSUME NEW T, NEW lines \in Seq(Seq(T)), NEW width \in Nat, NEW m,
           Ruled(lines, width, m)
    PROVE  IsRuledText(T, FlattenSeq(lines), lines, width, m)
<1> DEFINE flat == FlattenSeq(lines)
           n == Len(lines)
<1>0. m \in 0..n /\ \A i \in 1..m : Len(lines[i]) = width
  BY DEF Ruled
<1>1. /\ flat \in Seq(T) /\ n \in Nat /\ Len(flat) \in Nat
      /\ \E start :
            /\ start[1] = 0 /\ Len(flat) = start[n + 1]
            /\ \A i \in 1..(n + 1) : start[i] \in 0..Len(flat)
            /\ \A i \in 1..n :
                  /\ Len(lines[i]) \in Nat
                  /\ start[i + 1] = start[i] + Len(lines[i])
                  /\ \A j \in 1..Len(lines[i]) : flat[start[i] + j] = lines[i][j]
  <2>1. flat \in Seq(T)
    BY LinesFollow
  <2>2. Len(flat) \in Nat
    BY <2>1
  <2> QED
    BY <2>2, LinesFollow
<1>2. PICK start :
            /\ start[1] = 0 /\ Len(flat) = start[n + 1]
            /\ \A i \in 1..(n + 1) : start[i] \in 0..Len(flat)
            /\ \A i \in 1..n :
                  /\ Len(lines[i]) \in Nat
                  /\ start[i + 1] = start[i] + Len(lines[i])
                  /\ \A j \in 1..Len(lines[i]) : flat[start[i] + j] = lines[i][j]
  BY <1>0, <1>1
<1> HIDE DEF flat
<1>3. \A i \in Nat : width * i \in Nat /\ width * (i + 1) = width * i + width
  OBVIOUS
<1> DEFINE S == {i \in Nat : i <= m => start[i + 1] = width * i}
<1>4. 0 \in S
  <2>1. width * 0 = 0 /\ 0 + 1 = 1
    OBVIOUS
  <2> QED
    BY <1>2, <2>1
<1>5. ASSUME NEW i \in Nat, i \in S PROVE i + 1 \in S
  <2>1. ASSUME i + 1 <= m PROVE start[(i + 1) + 1] = width * (i + 1)
    <3>1. i + 1 \in 1..n /\ i + 1 \in 1..m /\ i <= m
      BY <1>0, <1>1, <2>1
    <3>2. start[(i + 1) + 1] = start[i + 1] + width
      BY <1>0, <1>2, <3>1
    <3>3. start[i + 1] = width * i
      BY <1>5, <3>1
    <3> QED
      BY <1>3, <3>2, <3>3
  <2> QED
    BY <2>1
<1> HIDE DEF S
<1>6. \A i \in 0..m : start[i + 1] = width * i
  <2>1. Nat \subseteq S
    BY <1>4, <1>5, AllNaturals
  <2>2. \A i \in 0..m : i \in Nat /\ i <= m
    BY <1>0, <1>1
  <2> QED
    BY <2>1, <2>2 DEF S
<1>7. ASSUME NEW i \in 1..n, i <= m + 1, NEW j \in 1..Len(lines[i])
      PROVE  /\ width * (i - 1) + j \in 1..Len(flat)
             /\ flat[width * (i - 1) + j] = lines[i][j]
  <2>1. i - 1 \in 0..m /\ (i - 1) + 1 = i /\ i \in 1..(n + 1) /\ i + 1 \in 1..(n + 1)
    BY <1>0, <1>1, <1>7
  <2>2. start[i] = width * (i - 1)
    BY <1>6, <2>1
  <2>3. /\ Len(lines[i]) \in Nat /\ start[i] \in Nat /\ start[i + 1] \in 0..Len(flat)
        /\ start[i + 1] = start[i] + Len(lines[i]) /\ flat[start[i] + j] = lines[i][j]
    BY <1>0, <1>1, <1>2, <2>1
  <2>4. start[i] + j \in 1..Len(flat)
    <3> DEFINE a == start[i]
               b == start[i + 1]
               c == Len(lines[i])
               d == Len(flat)
    <3>1. a \in Nat /\ b \in 0..d /\ c \in Nat /\ d \in Nat /\ b = a + c /\ j \in 1..c
      BY <1>0, <1>1, <2>3
    <3> HIDE DEF a, b, c, d
    <3>2. a + j \in 1..d
      BY <3>1
    <3> QED
      BY <3>2 DEF a, d
  <2> QED
    BY <2>2, <2>3, <2>4
<1>8. width * m \in Nat /\ width * m <= Len(flat)
  <2>1. m \in 0..m /\ m + 1 \in 1..(n + 1) /\ m \in Nat
    BY <1>0, <1>1
  <2> QED
    BY <1>0, <1>1, <1>2, <1>3, <1>6, <2>1
<1>9. \A i \in 1..m : \A j \in 1..width :
          /\ width * (i - 1) + j \in 1..Len(flat)
          /\ flat[width * (i - 1) + j] = lines[i][j]
  <2>1. \A i \in 1..m : i \in 1..n /\ i <= m + 1
    BY <1>0, <1>1
  <2> QED
    BY <1>0, <1>7, <2>1
<1>10. m = n => Len(flat) = width * m
  <2>1. m \in 0..m
    BY <1>0, <1>1
  <2> QED
    BY <1>2, <1>6, <2>1
<1>11. m < n => \A j \in 1..Len(lines[m + 1]) :
          /\ width * m + j \in 1..Len(flat)
          /\ flat[width * m + j] = lines[m + 1][j]
  <2>1. m < n => m + 1 \in 1..n /\ m + 1 <= m + 1 /\ (m + 1) - 1 = m
    BY <1>0, <1>1
  <2> QED
    BY <1>7, <2>1
<1> QED
  BY <1>0, <1>1, <1>8, <1>9, <1>10, <1>11 DEF flat, IsRuledText

-----------------------------------------------------------------------------
(* Snapshots: what is written, and where.                                  *)

LEMMA HandlesAreRead ==
    ASSUME NEW h \in HandleRecords
    PROVE  /\ HandleToken(h) \in Tokens /\ HandleToken(h).digits
           /\ HandleRead(HandleToken(h)) = h
<1> DEFINE i == h.index
           g == h.gen
           x == g * IndexSpan + i
<1>1. i \in 0..255 /\ g \in Nat /\ h = [index |-> i, gen |-> g]
  BY DEF HandleRecords, IndexSpan
<1> HIDE DEF i, g
<1>2. x = g * 256 + i /\ x \in Int
  BY <1>1 DEF IndexSpan
<1>3. x % 256 = i /\ x \div 256 = g
  BY <1>1, <1>2, Z3
<1> HIDE DEF x
<1>4. HandleToken(h) = Number(x)
  BY DEF HandleToken, i, g, x
<1>5. HandleToken(h) \in Tokens /\ HandleToken(h).digits /\ HandleToken(h).number = x
  BY <1>2, <1>4, TokensAre
<1> QED
  BY <1>1, <1>3, <1>5 DEF HandleRead, Handle, IndexSpan

\* A tag and a count, then the lines.
LEMMA BlockIs ==
    ASSUME NEW tag \in Vocabulary, NEW lines \in Seq(Seq(Tokens))
    PROVE  LET block == Block(tag, lines)
               flat == FlattenSeq(lines)
           IN  /\ block \in Seq(Tokens) /\ flat \in Seq(Tokens) /\ Len(flat) \in Nat
               /\ Len(block) = 2 + Len(flat)
               /\ block[1] = Word(tag) /\ block[2] = Number(Len(lines))
               /\ \A k \in 1..Len(flat) : block[2 + k] = flat[k]
<1> DEFINE first == <<Word(tag), Number(Len(lines))>>
           flat == FlattenSeq(lines)
<1>1. flat \in Seq(Tokens)
  BY LinesFollow
<1>2. Word(tag) \in Tokens /\ Number(Len(lines)) \in Tokens
  BY TokensAre
<1>3. /\ first \in Seq(Tokens) /\ Len(first) = 2
      /\ first[1] = Word(tag) /\ first[2] = Number(Len(lines))
  BY <1>2
<1> HIDE DEF first, flat
<1>4. Block(tag, lines) = first \o flat
  BY DEF Block, first, flat
<1>5. /\ first \o flat \in Seq(Tokens) /\ Len(flat) \in Nat
      /\ Len(first \o flat) = Len(first) + Len(flat)
      /\ \A j \in 1..Len(first) : (first \o flat)[j] = first[j]
      /\ \A j \in 1..Len(flat) : (first \o flat)[Len(first) + j] = flat[j]
  <2>1. first \in Seq(Tokens) /\ flat \in Seq(Tokens)
    BY <1>1, <1>3 DEF flat
  <2> QED
    BY <2>1, JoinedIs
<1>6. 1 \in 1..Len(first) /\ 2 \in 1..Len(first)
  BY <1>3
<1> QED
  BY <1>1, <1>3, <1>4, <1>5, <1>6 DEF flat

LEMMA ReasonsAreSplit ==
    ASSUME NEW reason \in Reasons
    PROVE  LET tokens == ReasonTokens(reason)
           IN  /\ tokens \in Seq(Tokens)
               /\ reason = NoReason => Len(tokens) = 1 /\ tokens[1] = Word("-")
               /\ reason # NoReason => /\ Len(tokens) = 2
                                       /\ tokens[2] \in {Word("region"), Word("species")}
<1>1. NoReason \notin {"unknown_region", "unknown_species"}
  BY Zenon DEF NoReason
<1>2. {"unknown", "region", "species", "-"} \subseteq Vocabulary
  BY DEF Vocabulary
<1>3. {Word("unknown"), Word("region"), Word("species"), Word("-")} \subseteq Tokens
  BY <1>2, TokensAre
<1> DEFINE tokens == ReasonTokens(reason)
           u == Word("unknown")
           r == Word("region")
           s == Word("species")
           d == Word("-")
<1>4. reason = NoReason => tokens = <<d>>
  BY <1>1 DEF ReasonTokens
<1>5. reason # NoReason => tokens = <<u, r>> \/ tokens = <<u, s>>
  BY <1>1 DEF ReasonTokens, Reasons
<1>6. {u, r, s, d} \subseteq Tokens
  BY <1>3
<1> HIDE DEF tokens, u, r, s, d
<1>7. CASE reason = NoReason
  BY <1>4, <1>6, <1>7 DEF tokens, d
<1>8. CASE reason # NoReason
  <2>1. tokens \in Seq(Tokens) /\ Len(tokens) = 2 /\ tokens[2] \in {r, s}
    BY <1>5, <1>6, <1>8
  <2> QED
    BY <1>8, <2>1 DEF tokens, r, s
<1> QED
  BY <1>7, <1>8

\* The tokens of a call but for its reason.
ToolTokens(record) ==
    <<Word("tool"), Number(record.seq), Number(record.day), Word(ToolName),
      HandleToken(record.region), HandleToken(record.species),
      Number(IF record.accepted THEN 1 ELSE 0), Number(record.requested),
      Number(record.applied)>>

LEMMA NamesAre ==
    ASSUME NEW name \in Names
    PROVE  /\ name.tokens[1] \in Tokens /\ name.tokens = <<name.tokens[1]>>
           /\ NameRead(name.tokens[1]) = name
<1>1. PICK word \in Vocabulary : name = OneWord(word)
  BY DEF Names
<1>2. name.tokens = <<Word(word)>> /\ name = [tokens |-> <<Word(word)>>, padded |-> FALSE]
  BY <1>1 DEF OneWord
<1>3. name.tokens[1] = Word(word) /\ Word(word) \in Tokens
  BY <1>2, TokensAre
<1> QED
  BY <1>2, <1>3 DEF NameRead

LEMMA RegionLineIs ==
    ASSUME NEW w \in WorldRecords, HandlesFit(w), NEW i \in 1..Len(w.regions)
    PROVE  LET line == RegionLine(w, i)
               it == w.regions[i]
           IN  /\ line \in Seq(Tokens) /\ Len(line) = 4
               /\ it \in RegionRecords /\ Handle(i, it.gen) \in HandleRecords
               /\ line[1] = Word("region") /\ line[2] = HandleToken(Handle(i, it.gen))
               /\ line[3] = Number(it.cap) /\ line[4] = it.name.tokens[1]
<1> DEFINE it == w.regions[i]
           a == Word("region")
           b == HandleToken(Handle(i, it.gen))
           c == Number(it.cap)
           d == it.name.tokens[1]
           first == <<a, b, c>>
           rest == <<d>>
<1>1. w.regions \in Seq(RegionRecords) /\ it \in RegionRecords
  BY DEF WorldRecords
<1>2. Len(w.regions) \in Nat
  BY <1>1
<1>3. Handle(i, it.gen) \in HandleRecords
  <2>1. i \in 0..(IndexSpan - 1)
    BY <1>2 DEF HandlesFit, IndexSpan
  <2>2. it.gen \in Nat
    BY <1>1 DEF RegionRecords
  <2> QED
    BY <2>1, <2>2 DEF HandleRecords, Handle
<1>4. it.name \in Names /\ it.cap \in Int
  BY <1>1 DEF RegionRecords
<1>5. a \in Tokens /\ b \in Tokens /\ c \in Tokens
  <2>1. "region" \in Vocabulary
    BY DEF Vocabulary
  <2> QED
    BY <1>3, <1>4, <2>1, TokensAre, HandlesAreRead
<1>6. d \in Tokens /\ it.name.tokens = rest
  BY <1>4, NamesAre
<1>7. RegionLine(w, i) = first \o rest
  BY <1>6 DEF RegionLine
<1> HIDE DEF a, b, c, d
<1>8. /\ first \in Seq(Tokens) /\ Len(first) = 3 /\ first[1] = a /\ first[2] = b
      /\ first[3] = c
      /\ rest \in Seq(Tokens) /\ Len(rest) = 1 /\ rest[1] = d
  BY <1>5, <1>6
<1> HIDE DEF first, rest
<1>9. /\ first \o rest \in Seq(Tokens) /\ Len(first \o rest) = 3 + 1
      /\ \A j \in 1..3 : (first \o rest)[j] = first[j]
      /\ \A j \in 1..1 : (first \o rest)[3 + j] = rest[j]
  <2>1. first \in Seq(Tokens) /\ rest \in Seq(Tokens)
    BY <1>8
  <2>2. /\ first \o rest \in Seq(Tokens)
        /\ Len(first \o rest) = Len(first) + Len(rest)
        /\ \A j \in 1..Len(first) : (first \o rest)[j] = first[j]
        /\ \A j \in 1..Len(rest) : (first \o rest)[Len(first) + j] = rest[j]
    BY <2>1, JoinedIs
  <2> QED
    BY <1>8, <2>2
<1>10. 3 + 1 = 4 /\ 1 \in 1..1 /\ \A j \in 1..3 : j \in 1..3
  OBVIOUS
<1>11. (first \o rest)[4] = d /\ Len(first \o rest) = 4
  BY <1>8, <1>9, <1>10
<1>12. /\ (first \o rest)[1] = a /\ (first \o rest)[2] = b
       /\ (first \o rest)[3] = c
  BY <1>8, <1>9
<1> QED
  BY <1>1, <1>3, <1>7, <1>9, <1>11, <1>12 DEF a, b, c, d

LEMMA SpeciesLineIs ==
    ASSUME NEW w \in WorldRecords, HandlesFit(w), NEW i \in 1..Len(w.species)
    PROVE  LET line == SpeciesLine(w, i)
               it == w.species[i]
           IN  /\ line \in Seq(Tokens) /\ Len(line) = 3
               /\ it \in SpeciesRecords /\ Handle(i, it.gen) \in HandleRecords
               /\ line[1] = Word("species") /\ line[2] = HandleToken(Handle(i, it.gen))
               /\ line[3] = it.name.tokens[1]
<1> DEFINE it == w.species[i]
           a == Word("species")
           b == HandleToken(Handle(i, it.gen))
           d == it.name.tokens[1]
           first == <<a, b>>
           rest == <<d>>
<1>1. w.species \in Seq(SpeciesRecords) /\ it \in SpeciesRecords
  BY DEF WorldRecords
<1>2. Len(w.species) \in Nat
  BY <1>1
<1>3. Handle(i, it.gen) \in HandleRecords
  <2>1. i \in 0..(IndexSpan - 1)
    BY <1>2 DEF HandlesFit, IndexSpan
  <2>2. it.gen \in Nat
    BY <1>1 DEF SpeciesRecords
  <2> QED
    BY <2>1, <2>2 DEF HandleRecords, Handle
<1>4. it.name \in Names
  BY <1>1 DEF SpeciesRecords
<1>5. a \in Tokens /\ b \in Tokens
  <2>1. "species" \in Vocabulary
    BY DEF Vocabulary
  <2> QED
    BY <1>3, <1>4, <2>1, TokensAre, HandlesAreRead
<1>6. d \in Tokens /\ it.name.tokens = rest
  BY <1>4, NamesAre
<1>7. SpeciesLine(w, i) = first \o rest
  BY <1>6 DEF SpeciesLine
<1> HIDE DEF a, b, d
<1>8. /\ first \in Seq(Tokens) /\ Len(first) = 2 /\ first[1] = a /\ first[2] = b
      /\ rest \in Seq(Tokens) /\ Len(rest) = 1 /\ rest[1] = d
  BY <1>5, <1>6
<1> HIDE DEF first, rest
<1>9. /\ first \o rest \in Seq(Tokens) /\ Len(first \o rest) = 2 + 1
      /\ \A j \in 1..2 : (first \o rest)[j] = first[j]
      /\ \A j \in 1..1 : (first \o rest)[2 + j] = rest[j]
  <2>1. first \in Seq(Tokens) /\ rest \in Seq(Tokens)
    BY <1>8
  <2>2. /\ first \o rest \in Seq(Tokens)
        /\ Len(first \o rest) = Len(first) + Len(rest)
        /\ \A j \in 1..Len(first) : (first \o rest)[j] = first[j]
        /\ \A j \in 1..Len(rest) : (first \o rest)[Len(first) + j] = rest[j]
    BY <2>1, JoinedIs
  <2> QED
    BY <1>8, <2>2
<1>10. 2 + 1 = 3 /\ 1 \in 1..1 /\ \A j \in 1..2 : j \in 1..2
  OBVIOUS
<1>11. (first \o rest)[3] = d /\ Len(first \o rest) = 3
  BY <1>8, <1>9, <1>10
<1>12. /\ (first \o rest)[1] = a /\ (first \o rest)[2] = b
  BY <1>8, <1>9
<1> QED
  BY <1>1, <1>3, <1>7, <1>9, <1>11, <1>12 DEF a, b, d

LEMMA CohortLineIs ==
    ASSUME NEW w \in WorldRecords, NEW i \in 1..Len(w.cohorts)
    PROVE  /\ CohortLine(w, i) \in Seq(Tokens) /\ Len(CohortLine(w, i)) = 4
           /\ w.cohorts[i] \in CohortRecords
<1> DEFINE a == Word("cohort")
           b == HandleToken(w.cohorts[i].region)
           c == HandleToken(w.cohorts[i].species)
           d == Number(w.cohorts[i].count)
<1>1. w.cohorts[i] \in CohortRecords
  BY DEF WorldRecords
<1>2. a \in Tokens /\ b \in Tokens /\ c \in Tokens /\ d \in Tokens
  <2>1. "cohort" \in Vocabulary
    BY DEF Vocabulary
  <2>2. /\ w.cohorts[i].region \in HandleRecords /\ w.cohorts[i].species \in HandleRecords
        /\ w.cohorts[i].count \in Int
    BY <1>1 DEF CohortRecords
  <2> QED
    BY <2>1, <2>2, TokensAre, HandlesAreRead
<1>3. CohortLine(w, i) = <<a, b, c, d>>
  BY DEF CohortLine
<1> HIDE DEF a, b, c, d
<1> QED
  BY <1>1, <1>2, <1>3

\* A reason is all that makes the lines of two calls differ in width.
LEMMA ToolLineIs ==
    ASSUME NEW w \in WorldRecords, NEW i \in 1..Len(w.log)
    PROVE  LET line == ToolLine(w, i)
               tokens == ToolTokens(w.log[i])
           IN  /\ line \in Seq(Tokens) /\ w.log[i] \in CallRecords
               /\ \A k \in 1..9 : line[k] = tokens[k]
               /\ w.log[i].reason = NoReason => Len(line) = 10 /\ line[10] = Word("-")
               /\ w.log[i].reason # NoReason =>
                     Len(line) = 11 /\ line[11] \in {Word("region"), Word("species")}
<1> DEFINE record == w.log[i]
           tokens == ToolTokens(record)
           rest == ReasonTokens(record.reason)
<1>1. record \in CallRecords
  BY DEF WorldRecords
<1> HIDE DEF record
<1>2. tokens \in Seq(Tokens) /\ Len(tokens) = 9
  <2> DEFINE a == Word("tool")
             b == Number(record.seq)
             c == Number(record.day)
             d == Word(ToolName)
             e == HandleToken(record.region)
             f == HandleToken(record.species)
             g == Number(IF record.accepted THEN 1 ELSE 0)
             h == Number(record.requested)
             j == Number(record.applied)
  <2>1. "tool" \in Vocabulary /\ ToolName \in Vocabulary
    BY DEF Vocabulary, ToolName
  <2>2. /\ record.region \in HandleRecords /\ record.species \in HandleRecords
        /\ record.seq \in Int /\ record.day \in Int /\ record.requested \in Int
        /\ record.applied \in Int
    BY <1>1 DEF CallRecords
  <2>3. (IF record.accepted THEN 1 ELSE 0) \in Int
    OBVIOUS
  <2>4. /\ a \in Tokens /\ b \in Tokens /\ c \in Tokens /\ d \in Tokens /\ e \in Tokens
        /\ f \in Tokens /\ g \in Tokens /\ h \in Tokens /\ j \in Tokens
    BY <2>1, <2>2, <2>3, TokensAre, HandlesAreRead
  <2>5. tokens = <<a, b, c, d, e, f, g, h, j>>
    BY DEF ToolTokens
  <2> HIDE DEF a, b, c, d, e, f, g, h, j, tokens
  <2> QED
    BY <2>4, <2>5
<1>3. /\ rest \in Seq(Tokens)
      /\ record.reason = NoReason => Len(rest) = 1 /\ rest[1] = Word("-")
      /\ record.reason # NoReason => /\ Len(rest) = 2
                                     /\ rest[2] \in {Word("region"), Word("species")}
  BY <1>1, ReasonsAreSplit DEF CallRecords
<1>4. ToolLine(w, i) = tokens \o rest
  BY DEF ToolLine, ToolTokens, record
<1> HIDE DEF tokens, rest
<1> DEFINE line == ToolLine(w, i)
<1>5. /\ line \in Seq(Tokens) /\ Len(rest) \in Nat
      /\ Len(line) = 9 + Len(rest)
      /\ \A k \in 1..9 : line[k] = tokens[k]
      /\ \A k \in 1..Len(rest) : line[9 + k] = rest[k]
  <2>1. tokens \in Seq(Tokens) /\ Len(tokens) = 9 /\ rest \in Seq(Tokens)
    BY <1>2, <1>3
  <2> HIDE DEF line
  <2>2. /\ line \in Seq(Tokens) /\ Len(rest) \in Nat
        /\ Len(line) = Len(tokens) + Len(rest)
        /\ \A j \in 1..Len(tokens) : line[j] = tokens[j]
        /\ \A j \in 1..Len(rest) : line[Len(tokens) + j] = rest[j]
    <3>1. line = tokens \o rest /\ tokens \in Seq(Tokens) /\ rest \in Seq(Tokens)
      BY <1>4, <2>1 DEF line
    <3> QED
      BY <3>1, JoinedIs
  <2> QED
    BY <2>1, <2>2
<1> HIDE DEF line
<1>6. ASSUME record.reason = NoReason
      PROVE  Len(line) = 10 /\ line[10] = Word("-")
  <2>1. 1 \in 1..Len(rest) /\ 9 + 1 = 10
    BY <1>3, <1>6
  <2> QED
    BY <1>3, <1>5, <1>6, <2>1
<1>7. ASSUME record.reason # NoReason
      PROVE  /\ Len(line) = 11
             /\ line[11] \in {Word("region"), Word("species")}
  <2>1. 2 \in 1..Len(rest) /\ 9 + 2 = 11
    BY <1>3, <1>7
  <2> QED
    BY <1>3, <1>5, <1>7, <2>1
<1> QED
  BY <1>1, <1>5, <1>6, <1>7 DEF record, tokens, line

\* What is where in six texts after each other.
Glued(a, b, c, d, e, f) == a \o (b \o (c \o (d \o (e \o f))))
AreGlued(T, t, a, b, c, d, e, f) ==
    /\ t \in Seq(T)
    /\ Len(t) = Len(a) + (Len(b) + (Len(c) + (Len(d) + (Len(e) + Len(f)))))
    /\ \A k \in 1..Len(a) : t[k] = a[k]
    /\ \A k \in 1..Len(b) : t[Len(a) + k] = b[k]
    /\ \A k \in 1..Len(c) : t[Len(a) + (Len(b) + k)] = c[k]
    /\ \A k \in 1..Len(d) : t[Len(a) + (Len(b) + (Len(c) + k))] = d[k]
    /\ \A k \in 1..Len(e) : t[Len(a) + (Len(b) + (Len(c) + (Len(d) + k)))] = e[k]
    /\ \A k \in 1..Len(f) : t[Len(a) + (Len(b) + (Len(c) + (Len(d) + (Len(e) + k))))] = f[k]

LEMMA SixJoined ==
    ASSUME NEW T, NEW a \in Seq(T), NEW b \in Seq(T), NEW c \in Seq(T), NEW d \in Seq(T),
           NEW e \in Seq(T), NEW f \in Seq(T)
    PROVE  AreGlued(T, Glued(a, b, c, d, e, f), a, b, c, d, e, f)
<1> DEFINE x5 == e \o f
           x4 == d \o x5
           x3 == c \o x4
           x2 == b \o x3
           x1 == a \o x2
<1>1. x5 = e \o f /\ x4 = d \o x5 /\ x3 = c \o x4 /\ x2 = b \o x3 /\ x1 = a \o x2
  OBVIOUS
<1> HIDE DEF x1, x2, x3, x4, x5
<1>2. /\ x5 \in Seq(T) /\ Len(e) \in Nat /\ Len(f) \in Nat /\ Len(x5) = Len(e) + Len(f)
      /\ \A j \in 1..Len(e) : x5[j] = e[j]
      /\ \A j \in 1..Len(f) : x5[Len(e) + j] = f[j]
  BY <1>1, JoinedIs
<1>3. /\ x4 \in Seq(T) /\ Len(d) \in Nat /\ Len(x4) = Len(d) + Len(x5)
      /\ \A j \in 1..Len(d) : x4[j] = d[j]
      /\ \A j \in 1..Len(x5) : x4[Len(d) + j] = x5[j]
  <2>1. x5 \in Seq(T) /\ x4 = d \o x5
    BY <1>1, <1>2
  <2> QED
    BY <2>1, JoinedIs
<1>4. /\ x3 \in Seq(T) /\ Len(c) \in Nat /\ Len(x3) = Len(c) + Len(x4)
      /\ \A j \in 1..Len(c) : x3[j] = c[j]
      /\ \A j \in 1..Len(x4) : x3[Len(c) + j] = x4[j]
  <2>1. x4 \in Seq(T) /\ x3 = c \o x4
    BY <1>1, <1>3
  <2> QED
    BY <2>1, JoinedIs
<1>5. /\ x2 \in Seq(T) /\ Len(b) \in Nat /\ Len(x2) = Len(b) + Len(x3)
      /\ \A j \in 1..Len(b) : x2[j] = b[j]
      /\ \A j \in 1..Len(x3) : x2[Len(b) + j] = x3[j]
  <2>1. x3 \in Seq(T) /\ x2 = b \o x3
    BY <1>1, <1>4
  <2> QED
    BY <2>1, JoinedIs
<1>6. /\ x1 \in Seq(T) /\ Len(a) \in Nat /\ Len(x1) = Len(a) + Len(x2)
      /\ \A j \in 1..Len(a) : x1[j] = a[j]
      /\ \A j \in 1..Len(x2) : x1[Len(a) + j] = x2[j]
  <2>1. x2 \in Seq(T) /\ x1 = a \o x2
    BY <1>1, <1>5
  <2> QED
    BY <2>1, JoinedIs
<1> DEFINE la == Len(a)
           lb == Len(b)
           lc == Len(c)
           ld == Len(d)
           le == Len(e)
           lf == Len(f)
<1>7. /\ Len(x5) = le + lf /\ Len(x4) = ld + (le + lf) /\ Len(x3) = lc + (ld + (le + lf))
      /\ Len(x2) = lb + (lc + (ld + (le + lf)))
      /\ Len(x1) = la + (lb + (lc + (ld + (le + lf))))
  BY <1>2, <1>3, <1>4, <1>5, <1>6
<1>8. la \in Nat /\ lb \in Nat /\ lc \in Nat /\ ld \in Nat /\ le \in Nat /\ lf \in Nat
  BY <1>2, <1>3, <1>4, <1>5, <1>6
<1> HIDE DEF la, lb, lc, ld, le, lf
<1>9. ASSUME NEW k \in 1..lb PROVE x1[la + k] = b[k]
  <2>1. k \in 1..(lb + (lc + (ld + (le + lf))))
    BY <1>8
  <2> QED
    BY <1>5, <1>6, <1>7, <2>1 DEF la, lb
<1>10. ASSUME NEW k \in 1..lc PROVE x1[la + (lb + k)] = c[k]
  <2>1. lb + k \in 1..(lb + (lc + (ld + (le + lf)))) /\ k \in 1..(lc + (ld + (le + lf)))
    BY <1>8
  <2>2. x1[la + (lb + k)] = x2[lb + k]
    BY <1>6, <1>7, <2>1 DEF la
  <2>3. x2[lb + k] = x3[k]
    BY <1>5, <1>7, <2>1 DEF lb
  <2> QED
    BY <1>4, <2>2, <2>3 DEF lc
<1>11. ASSUME NEW k \in 1..(ld + (le + lf)) PROVE x1[la + (lb + (lc + k))] = x4[k]
  <2>1. /\ lb + (lc + k) \in 1..(lb + (lc + (ld + (le + lf))))
        /\ lc + k \in 1..(lc + (ld + (le + lf)))
    BY <1>8
  <2>2. x1[la + (lb + (lc + k))] = x2[lb + (lc + k)]
    BY <1>6, <1>7, <2>1 DEF la
  <2>3. x2[lb + (lc + k)] = x3[lc + k]
    BY <1>5, <1>7, <2>1 DEF lb
  <2>4. x3[lc + k] = x4[k]
    BY <1>4, <1>7 DEF lc
  <2> QED
    BY <2>2, <2>3, <2>4
<1>12. ASSUME NEW k \in 1..ld PROVE x1[la + (lb + (lc + k))] = d[k]
  <2>1. k \in 1..(ld + (le + lf))
    BY <1>8
  <2>2. x4[k] = d[k]
    BY <1>3 DEF ld
  <2> QED
    BY <1>11, <2>1, <2>2
<1>13. ASSUME NEW k \in 1..(le + lf) PROVE x1[la + (lb + (lc + (ld + k)))] = x5[k]
  <2>1. ld + k \in 1..(ld + (le + lf))
    BY <1>8
  <2>2. x4[ld + k] = x5[k]
    BY <1>3, <1>7 DEF ld
  <2> QED
    BY <1>11, <2>1, <2>2
<1>14. ASSUME NEW k \in 1..le PROVE x1[la + (lb + (lc + (ld + k)))] = e[k]
  <2>1. k \in 1..(le + lf)
    BY <1>8
  <2>2. x5[k] = e[k]
    BY <1>2 DEF le
  <2> QED
    BY <1>13, <2>1, <2>2
<1>15. ASSUME NEW k \in 1..lf PROVE x1[la + (lb + (lc + (ld + (le + k))))] = f[k]
  <2>1. le + k \in 1..(le + lf)
    BY <1>8
  <2>2. x5[le + k] = f[k]
    BY <1>2 DEF le, lf
  <2> QED
    BY <1>13, <2>1, <2>2
<1>16. x1 = Glued(a, b, c, d, e, f)
  BY <1>1 DEF Glued
<1>17. AreGlued(T, x1, a, b, c, d, e, f)
  BY <1>6, <1>7, <1>9, <1>10, <1>12, <1>14, <1>15 DEF AreGlued, la, lb, lc, ld, le, lf
<1> QED
  BY <1>16, <1>17

\* A block whose lines have one width.
IsRuledBlock(block, tag, lines, width) ==
    /\ block \in Seq(Tokens) /\ width * Len(lines) \in Nat
    /\ Len(block) = 2 + width * Len(lines)
    /\ block[1] = Word(tag) /\ block[2] = Number(Len(lines))
    /\ \A i \in 1..Len(lines) : \A j \in 1..width :
          /\ width * (i - 1) + j \in 1..(width * Len(lines))
          /\ block[2 + (width * (i - 1) + j)] = lines[i][j]

LEMMA RuledBlockIs ==
    ASSUME NEW tag \in Vocabulary, NEW lines \in Seq(Seq(Tokens)), NEW width \in Nat,
           Ruled(lines, width, Len(lines))
    PROVE  IsRuledBlock(Block(tag, lines), tag, lines, width)
<1> DEFINE n == Len(lines)
           block == Block(tag, lines)
           flat == FlattenSeq(lines)
<1>1. /\ block \in Seq(Tokens) /\ flat \in Seq(Tokens) /\ Len(flat) \in Nat
      /\ Len(block) = 2 + Len(flat)
      /\ block[1] = Word(tag) /\ block[2] = Number(n)
      /\ \A k \in 1..Len(flat) : block[2 + k] = flat[k]
  BY BlockIs
<1>2. Ruled(lines, width, n)
  OBVIOUS
<1>3. /\ width * n \in Nat /\ Len(flat) = width * n
      /\ \A i \in 1..n : \A j \in 1..width :
            /\ width * (i - 1) + j \in 1..Len(flat)
            /\ flat[width * (i - 1) + j] = lines[i][j]
  <2>1. IsRuledText(Tokens, flat, lines, width, n)
    BY <1>2, RuledLines
  <2> HIDE DEF flat
  <2> QED
    BY <2>1 DEF IsRuledText
<1> HIDE DEF block, flat
<1> QED
  BY <1>1, <1>3 DEF block, IsRuledBlock

LEMMA RegionBlockIs ==
    ASSUME NEW w \in WorldRecords, HandlesFit(w)
    PROVE  LET block == RegionBlock(w)
               n == Len(w.regions)
           IN  /\ block \in Seq(Tokens) /\ n \in Nat /\ Len(block) = 2 + 4 * n
               /\ block[1] = Word("regions") /\ block[2] = Number(n)
               /\ \A i \in 1..n : \A j \in 1..4 :
                     /\ 4 * (i - 1) + j \in 1..(4 * n)
                     /\ block[2 + (4 * (i - 1) + j)] = RegionLine(w, i)[j]
<1> DEFINE n == Len(w.regions)
           lines == [i \in 1..n |-> RegionLine(w, i)]
<1>1. n \in Nat
  BY DEF WorldRecords
<1>2. \A i \in 1..n : RegionLine(w, i) \in Seq(Tokens) /\ Len(RegionLine(w, i)) = 4
  BY RegionLineIs
<1>3. lines \in Seq(Seq(Tokens)) /\ Len(lines) = n /\ \A i \in 1..n : lines[i] = RegionLine(w, i)
  BY <1>1, <1>2
<1>4. "regions" \in Vocabulary
  BY DEF Vocabulary
<1>5. RegionBlock(w) = Block("regions", lines)
  BY DEF RegionBlock
<1> HIDE DEF lines
<1>6. Ruled(lines, 4, Len(lines))
  BY <1>1, <1>2, <1>3 DEF Ruled
<1> DEFINE block == Block("regions", lines)
<1>7. /\ block \in Seq(Tokens) /\ Len(block) = 2 + 4 * Len(lines)
      /\ block[1] = Word("regions") /\ block[2] = Number(Len(lines))
      /\ \A i \in 1..Len(lines) : \A j \in 1..4 :
            /\ 4 * (i - 1) + j \in 1..(4 * Len(lines))
            /\ block[2 + (4 * (i - 1) + j)] = lines[i][j]
  <2>1. IsRuledBlock(block, "regions", lines, 4)
    BY <1>3, <1>4, <1>6, RuledBlockIs
  <2> QED
    BY <2>1 DEF IsRuledBlock
<1> HIDE DEF block, n
<1>8. RegionBlock(w) = block
  BY <1>5 DEF block
<1>9. ASSUME NEW i \in 1..n, NEW j \in 1..4
      PROVE  /\ 4 * (i - 1) + j \in 1..(4 * n)
             /\ block[2 + (4 * (i - 1) + j)] = RegionLine(w, i)[j]
  BY <1>3, <1>7
<1> QED
  BY <1>1, <1>3, <1>7, <1>8, <1>9 DEF n

LEMMA SpeciesBlockIs ==
    ASSUME NEW w \in WorldRecords, HandlesFit(w)
    PROVE  LET block == SpeciesBlock(w)
               n == Len(w.species)
           IN  /\ block \in Seq(Tokens) /\ n \in Nat /\ Len(block) = 2 + 3 * n
               /\ block[1] = Word("species") /\ block[2] = Number(n)
               /\ \A i \in 1..n : \A j \in 1..3 :
                     /\ 3 * (i - 1) + j \in 1..(3 * n)
                     /\ block[2 + (3 * (i - 1) + j)] = SpeciesLine(w, i)[j]
<1> DEFINE n == Len(w.species)
           lines == [i \in 1..n |-> SpeciesLine(w, i)]
<1>1. n \in Nat
  BY DEF WorldRecords
<1>2. \A i \in 1..n : SpeciesLine(w, i) \in Seq(Tokens) /\ Len(SpeciesLine(w, i)) = 3
  BY SpeciesLineIs
<1>3. lines \in Seq(Seq(Tokens)) /\ Len(lines) = n /\ \A i \in 1..n : lines[i] = SpeciesLine(w, i)
  BY <1>1, <1>2
<1>4. "species" \in Vocabulary
  BY DEF Vocabulary
<1>5. SpeciesBlock(w) = Block("species", lines)
  BY DEF SpeciesBlock
<1> HIDE DEF lines
<1>6. Ruled(lines, 3, Len(lines))
  BY <1>1, <1>2, <1>3 DEF Ruled
<1> DEFINE block == Block("species", lines)
<1>7. /\ block \in Seq(Tokens) /\ Len(block) = 2 + 3 * Len(lines)
      /\ block[1] = Word("species") /\ block[2] = Number(Len(lines))
      /\ \A i \in 1..Len(lines) : \A j \in 1..3 :
            /\ 3 * (i - 1) + j \in 1..(3 * Len(lines))
            /\ block[2 + (3 * (i - 1) + j)] = lines[i][j]
  <2>1. IsRuledBlock(block, "species", lines, 3)
    BY <1>3, <1>4, <1>6, RuledBlockIs
  <2> QED
    BY <2>1 DEF IsRuledBlock
<1> HIDE DEF block, n
<1>8. SpeciesBlock(w) = block
  BY <1>5 DEF block
<1>9. ASSUME NEW i \in 1..n, NEW j \in 1..3
      PROVE  /\ 3 * (i - 1) + j \in 1..(3 * n)
             /\ block[2 + (3 * (i - 1) + j)] = SpeciesLine(w, i)[j]
  BY <1>3, <1>7
<1> QED
  BY <1>1, <1>3, <1>7, <1>8, <1>9 DEF n

LEMMA CohortBlockIs ==
    ASSUME NEW w \in WorldRecords
    PROVE  LET block == CohortBlock(w)
               n == Len(w.cohorts)
           IN  /\ block \in Seq(Tokens) /\ n \in Nat /\ Len(block) = 2 + 4 * n
               /\ block[1] = Word("cohorts") /\ block[2] = Number(n)
               /\ \A i \in 1..n : \A j \in 1..4 :
                     /\ 4 * (i - 1) + j \in 1..(4 * n)
                     /\ block[2 + (4 * (i - 1) + j)] = CohortLine(w, i)[j]
<1> DEFINE n == Len(w.cohorts)
           lines == [i \in 1..n |-> CohortLine(w, i)]
<1>1. n \in Nat
  BY DEF WorldRecords
<1>2. \A i \in 1..n : CohortLine(w, i) \in Seq(Tokens) /\ Len(CohortLine(w, i)) = 4
  BY CohortLineIs
<1>3. lines \in Seq(Seq(Tokens)) /\ Len(lines) = n /\ \A i \in 1..n : lines[i] = CohortLine(w, i)
  BY <1>1, <1>2
<1>4. "cohorts" \in Vocabulary
  BY DEF Vocabulary
<1>5. CohortBlock(w) = Block("cohorts", lines)
  BY DEF CohortBlock
<1> HIDE DEF lines
<1>6. Ruled(lines, 4, Len(lines))
  BY <1>1, <1>2, <1>3 DEF Ruled
<1> DEFINE block == Block("cohorts", lines)
<1>7. /\ block \in Seq(Tokens) /\ Len(block) = 2 + 4 * Len(lines)
      /\ block[1] = Word("cohorts") /\ block[2] = Number(Len(lines))
      /\ \A i \in 1..Len(lines) : \A j \in 1..4 :
            /\ 4 * (i - 1) + j \in 1..(4 * Len(lines))
            /\ block[2 + (4 * (i - 1) + j)] = lines[i][j]
  <2>1. IsRuledBlock(block, "cohorts", lines, 4)
    BY <1>3, <1>4, <1>6, RuledBlockIs
  <2> QED
    BY <2>1 DEF IsRuledBlock
<1> HIDE DEF block, n
<1>8. CohortBlock(w) = block
  BY <1>5 DEF block
<1>9. ASSUME NEW i \in 1..n, NEW j \in 1..4
      PROVE  /\ 4 * (i - 1) + j \in 1..(4 * n)
             /\ block[2 + (4 * (i - 1) + j)] = CohortLine(w, i)[j]
  BY <1>3, <1>7
<1> QED
  BY <1>1, <1>3, <1>7, <1>8, <1>9 DEF n

\* The lines of the calls, and the text before and after them.
ToolLines(w) == FlattenSeq([i \in 1..Len(w.log) |-> ToolLine(w, i)])

LEMMA ToolBlockIs ==
    ASSUME NEW w \in WorldRecords
    PROVE  LET block == ToolBlock(w)
               flat == ToolLines(w)
               n == Len(w.log)
           IN  /\ block \in Seq(Tokens) /\ n \in Nat /\ Len(flat) \in Nat
               /\ Len(block) = 2 + Len(flat)
               /\ block[1] = Word("tools") /\ block[2] = Number(n)
               /\ \A k \in 1..Len(flat) : block[2 + k] = flat[k]
<1> DEFINE n == Len(w.log)
           lines == [i \in 1..n |-> ToolLine(w, i)]
<1>1. n \in Nat
  BY DEF WorldRecords
<1>2. \A i \in 1..n : ToolLine(w, i) \in Seq(Tokens)
  BY ToolLineIs
<1>3. lines \in Seq(Seq(Tokens)) /\ Len(lines) = n
  BY <1>1, <1>2
<1>4. "tools" \in Vocabulary
  BY DEF Vocabulary
<1>5. ToolBlock(w) = Block("tools", lines) /\ ToolLines(w) = FlattenSeq(lines)
  BY DEF ToolBlock, ToolLines
<1> HIDE DEF lines
<1>6. LET block == Block("tools", lines)
          flat == FlattenSeq(lines)
      IN  /\ block \in Seq(Tokens) /\ Len(flat) \in Nat
          /\ Len(block) = 2 + Len(flat)
          /\ block[1] = Word("tools") /\ block[2] = Number(Len(lines))
          /\ \A k \in 1..Len(flat) : block[2 + k] = flat[k]
  BY <1>3, <1>4, BlockIs
<1> QED
  BY <1>1, <1>3, <1>5, <1>6

SpeciesStart(w) == 4 + 4 * Len(w.regions)
CohortsStart(w) == SpeciesStart(w) + 2 + 3 * Len(w.species)
ToolsStart(w) == CohortsStart(w) + 2 + 4 * Len(w.cohorts)

\* What is where in a snapshot.
LEMMA SnapshotIs ==
    ASSUME NEW w \in WorldRecords, HandlesFit(w)
    PROVE  LET t == SaveSnapshot(w)
               flat == ToolLines(w)
           IN  /\ t \in Seq(Tokens) /\ Len(flat) \in Nat
               /\ Len(t) = ToolsStart(w) + 2 + Len(flat)
               /\ t[1] = Word("xrsim_snapshot_v1")
               /\ t[2] = Word("regions") /\ t[3] = Number(Len(w.regions))
               /\ \A i \in 1..Len(w.regions) : \A j \in 1..4 :
                     t[3 + (4 * (i - 1) + j)] = RegionLine(w, i)[j]
               /\ t[SpeciesStart(w)] = Word("species")
               /\ t[SpeciesStart(w) + 1] = Number(Len(w.species))
               /\ \A i \in 1..Len(w.species) : \A j \in 1..3 :
                     t[SpeciesStart(w) + 1 + (3 * (i - 1) + j)] = SpeciesLine(w, i)[j]
               /\ t[CohortsStart(w)] = Word("cohorts")
               /\ t[CohortsStart(w) + 1] = Number(Len(w.cohorts))
               /\ \A i \in 1..Len(w.cohorts) : \A j \in 1..4 :
                     t[CohortsStart(w) + 1 + (4 * (i - 1) + j)] = CohortLine(w, i)[j]
               /\ t[ToolsStart(w)] = Word("tools")
               /\ t[ToolsStart(w) + 1] = Number(Len(w.log))
               /\ \A k \in 1..Len(flat) : t[ToolsStart(w) + 1 + k] = flat[k]
               /\ t[Len(t)] = Word("end")
<1> DEFINE a == <<Word("xrsim_snapshot_v1")>>
           b == RegionBlock(w)
           c == SpeciesBlock(w)
           d == CohortBlock(w)
           e == ToolBlock(w)
           f == <<Word("end")>>
           t == SaveSnapshot(w)
           flat == ToolLines(w)
           nr == Len(w.regions)
           ns == Len(w.species)
           nc == Len(w.cohorts)
           nt == Len(flat)
<1>1. /\ a \in Seq(Tokens) /\ Len(a) = 1 /\ a[1] = Word("xrsim_snapshot_v1")
      /\ f \in Seq(Tokens) /\ Len(f) = 1 /\ f[1] = Word("end")
  <2> DEFINE x == Word("xrsim_snapshot_v1")
             y == Word("end")
  <2>1. "xrsim_snapshot_v1" \in Vocabulary /\ "end" \in Vocabulary
    BY DEF Vocabulary
  <2>2. x \in Tokens /\ y \in Tokens
    BY <2>1, TokensAre
  <2> HIDE DEF x, y
  <2>3. <<x>> \in Seq(Tokens) /\ Len(<<x>>) = 1 /\ <<x>>[1] = x
    BY <2>2
  <2>4. <<y>> \in Seq(Tokens) /\ Len(<<y>>) = 1 /\ <<y>>[1] = y
    BY <2>2
  <2> QED
    BY <2>3, <2>4 DEF x, y
<1>2. t = Glued(a, b, c, d, e, f)
  BY DEF SaveSnapshot, Glued
<1>3. /\ b \in Seq(Tokens) /\ nr \in Nat /\ Len(b) = 2 + 4 * nr
      /\ b[1] = Word("regions") /\ b[2] = Number(nr)
      /\ \A i \in 1..nr : \A j \in 1..4 :
            /\ 4 * (i - 1) + j \in 1..(4 * nr)
            /\ b[2 + (4 * (i - 1) + j)] = RegionLine(w, i)[j]
  BY RegionBlockIs
<1>4. /\ c \in Seq(Tokens) /\ ns \in Nat /\ Len(c) = 2 + 3 * ns
      /\ c[1] = Word("species") /\ c[2] = Number(ns)
      /\ \A i \in 1..ns : \A j \in 1..3 :
            /\ 3 * (i - 1) + j \in 1..(3 * ns)
            /\ c[2 + (3 * (i - 1) + j)] = SpeciesLine(w, i)[j]
  BY SpeciesBlockIs
<1>5. /\ d \in Seq(Tokens) /\ nc \in Nat /\ Len(d) = 2 + 4 * nc
      /\ d[1] = Word("cohorts") /\ d[2] = Number(nc)
      /\ \A i \in 1..nc : \A j \in 1..4 :
            /\ 4 * (i - 1) + j \in 1..(4 * nc)
            /\ d[2 + (4 * (i - 1) + j)] = CohortLine(w, i)[j]
  BY CohortBlockIs
<1>6. /\ e \in Seq(Tokens) /\ nt \in Nat /\ Len(e) = 2 + nt
      /\ e[1] = Word("tools") /\ e[2] = Number(Len(w.log))
      /\ \A k \in 1..nt : e[2 + k] = flat[k]
  BY ToolBlockIs
<1>7. /\ SpeciesStart(w) = 4 + 4 * nr
      /\ CohortsStart(w) = SpeciesStart(w) + 2 + 3 * ns
      /\ ToolsStart(w) = CohortsStart(w) + 2 + 4 * nc
  BY DEF SpeciesStart, CohortsStart, ToolsStart
<1> HIDE DEF a, b, c, d, e, f, t, flat, nr, ns, nc, nt
<1>8. /\ t \in Seq(Tokens)
      /\ Len(t) = Len(a) + (Len(b) + (Len(c) + (Len(d) + (Len(e) + Len(f)))))
      /\ \A k \in 1..Len(a) : t[k] = a[k]
      /\ \A k \in 1..Len(b) : t[Len(a) + k] = b[k]
      /\ \A k \in 1..Len(c) : t[Len(a) + (Len(b) + k)] = c[k]
      /\ \A k \in 1..Len(d) : t[Len(a) + (Len(b) + (Len(c) + k))] = d[k]
      /\ \A k \in 1..Len(e) : t[Len(a) + (Len(b) + (Len(c) + (Len(d) + k)))] = e[k]
      /\ \A k \in 1..Len(f) :
            t[Len(a) + (Len(b) + (Len(c) + (Len(d) + (Len(e) + k))))] = f[k]
  <2>1. /\ a \in Seq(Tokens) /\ b \in Seq(Tokens) /\ c \in Seq(Tokens)
        /\ d \in Seq(Tokens) /\ e \in Seq(Tokens) /\ f \in Seq(Tokens)
    BY <1>1, <1>3, <1>4, <1>5, <1>6
  <2> QED
    <3>1. AreGlued(Tokens, t, a, b, c, d, e, f)
      BY <1>2, <2>1, SixJoined
    <3> QED
      BY <3>1 DEF AreGlued
<1> DEFINE s0 == SpeciesStart(w)
           c0 == CohortsStart(w)
           t0 == ToolsStart(w)
<1>9. s0 = 4 + 4 * nr /\ c0 = s0 + 2 + 3 * ns /\ t0 = c0 + 2 + 4 * nc
  BY <1>7
<1> HIDE DEF s0, c0, t0
<1>10. s0 \in Nat /\ c0 \in Nat /\ t0 \in Nat
  BY <1>3, <1>4, <1>5, <1>9
<1>11. t[1] = Word("xrsim_snapshot_v1")
  BY <1>1, <1>8
<1>12. \A k \in 1..(2 + 4 * nr) : t[1 + k] = b[k]
  BY <1>1, <1>3, <1>8
<1>13. \A k \in 1..(2 + 3 * ns) : t[s0 - 1 + k] = c[k]
  <2>1. ASSUME NEW k \in 1..(2 + 3 * ns) PROVE t[s0 - 1 + k] = c[k]
    <3>1. s0 - 1 + k = Len(a) + (Len(b) + k)
      BY <1>1, <1>3, <1>4, <1>9
    <3> QED
      BY <1>4, <1>8, <3>1
  <2> QED
    BY <2>1
<1>14. \A k \in 1..(2 + 4 * nc) : t[c0 - 1 + k] = d[k]
  <2>1. ASSUME NEW k \in 1..(2 + 4 * nc) PROVE t[c0 - 1 + k] = d[k]
    <3>1. c0 - 1 + k = Len(a) + (Len(b) + (Len(c) + k))
      BY <1>1, <1>3, <1>4, <1>5, <1>9
    <3> QED
      BY <1>5, <1>8, <3>1
  <2> QED
    BY <2>1
<1>15. \A k \in 1..(2 + nt) : t[t0 - 1 + k] = e[k]
  <2>1. ASSUME NEW k \in 1..(2 + nt) PROVE t[t0 - 1 + k] = e[k]
    <3>1. t0 - 1 + k = Len(a) + (Len(b) + (Len(c) + (Len(d) + k)))
      BY <1>1, <1>3, <1>4, <1>5, <1>6, <1>9
    <3> QED
      BY <1>6, <1>8, <3>1
  <2> QED
    BY <2>1
<1>16. Len(t) = t0 + 2 + nt /\ t[Len(t)] = Word("end")
  <2>1. Len(t) = Len(a) + (Len(b) + (Len(c) + (Len(d) + (Len(e) + 1))))
    BY <1>1, <1>8
  <2>2. Len(t) = t0 + 2 + nt
    BY <1>1, <1>3, <1>4, <1>5, <1>6, <1>9, <2>1
  <2>3. 1 \in 1..Len(f)
    BY <1>1
  <2>4. t[Len(a) + (Len(b) + (Len(c) + (Len(d) + (Len(e) + 1))))] = f[1]
    BY <1>8, <2>3
  <2> QED
    BY <1>1, <2>1, <2>2, <2>4
<1>17. /\ t[2] = Word("regions") /\ t[3] = Number(nr)
       /\ \A i \in 1..nr : \A j \in 1..4 : t[3 + (4 * (i - 1) + j)] = RegionLine(w, i)[j]
  <2>1. t[1 + 1] = b[1] /\ t[1 + 2] = b[2]
    BY <1>3, <1>12
  <2>2. ASSUME NEW i \in 1..nr, NEW j \in 1..4
        PROVE  t[3 + (4 * (i - 1) + j)] = RegionLine(w, i)[j]
    <3>1. 2 + (4 * (i - 1) + j) \in 1..(2 + 4 * nr)
      BY <1>3
    <3>2. 3 + (4 * (i - 1) + j) = 1 + (2 + (4 * (i - 1) + j))
      OBVIOUS
    <3> QED
      BY <1>3, <1>12, <3>1, <3>2
  <2> QED
    BY <1>3, <2>1, <2>2
<1>18. /\ t[s0] = Word("species") /\ t[s0 + 1] = Number(ns)
       /\ \A i \in 1..ns : \A j \in 1..3 :
             t[s0 + 1 + (3 * (i - 1) + j)] = SpeciesLine(w, i)[j]
  <2>1. t[s0 - 1 + 1] = c[1] /\ t[s0 - 1 + 2] = c[2]
    BY <1>4, <1>13
  <2>2. s0 - 1 + 1 = s0 /\ s0 - 1 + 2 = s0 + 1
    BY <1>10
  <2>3. ASSUME NEW i \in 1..ns, NEW j \in 1..3
        PROVE  t[s0 + 1 + (3 * (i - 1) + j)] = SpeciesLine(w, i)[j]
    <3>1. 2 + (3 * (i - 1) + j) \in 1..(2 + 3 * ns)
      BY <1>4
    <3>2. s0 + 1 + (3 * (i - 1) + j) = s0 - 1 + (2 + (3 * (i - 1) + j))
      BY <1>10
    <3> QED
      BY <1>4, <1>13, <3>1, <3>2
  <2> QED
    BY <1>4, <2>1, <2>2, <2>3
<1>19. /\ t[c0] = Word("cohorts") /\ t[c0 + 1] = Number(nc)
       /\ \A i \in 1..nc : \A j \in 1..4 :
             t[c0 + 1 + (4 * (i - 1) + j)] = CohortLine(w, i)[j]
  <2>1. t[c0 - 1 + 1] = d[1] /\ t[c0 - 1 + 2] = d[2]
    BY <1>5, <1>14
  <2>2. c0 - 1 + 1 = c0 /\ c0 - 1 + 2 = c0 + 1
    BY <1>10
  <2>3. ASSUME NEW i \in 1..nc, NEW j \in 1..4
        PROVE  t[c0 + 1 + (4 * (i - 1) + j)] = CohortLine(w, i)[j]
    <3>1. 2 + (4 * (i - 1) + j) \in 1..(2 + 4 * nc)
      BY <1>5
    <3>2. c0 + 1 + (4 * (i - 1) + j) = c0 - 1 + (2 + (4 * (i - 1) + j))
      BY <1>10
    <3> QED
      BY <1>5, <1>14, <3>1, <3>2
  <2> QED
    BY <1>5, <2>1, <2>2, <2>3
<1>20. /\ t[t0] = Word("tools") /\ t[t0 + 1] = Number(Len(w.log))
       /\ \A k \in 1..nt : t[t0 + 1 + k] = flat[k]
  <2>1. t[t0 - 1 + 1] = e[1] /\ t[t0 - 1 + 2] = e[2]
    BY <1>6, <1>15
  <2>2. t0 - 1 + 1 = t0 /\ t0 - 1 + 2 = t0 + 1
    BY <1>10
  <2>3. ASSUME NEW k \in 1..nt PROVE t[t0 + 1 + k] = flat[k]
    <3>1. 2 + k \in 1..(2 + nt) /\ t0 + 1 + k = t0 - 1 + (2 + k)
      BY <1>6, <1>10
    <3> QED
      BY <1>6, <1>15, <3>1
  <2> QED
    BY <1>6, <2>1, <2>2, <2>3
<1> QED
  BY <1>6, <1>8, <1>11, <1>16, <1>17, <1>18, <1>19, <1>20
  DEF t, flat, nr, ns, nc, nt, s0, c0, t0

-----------------------------------------------------------------------------
(* Snapshots: what is read.                                                *)

\* Everything the reader asks of a text.
IsSound(p) ==
    /\ IsWord(Token(p, 1), "xrsim_snapshot_v1")
    /\ IsBlock(p, RegionsAt, "regions")
    /\ \A i \in 1..Count(p, RegionsAt) : IsRegionRecord(p, Line(RegionsAt, 4, i), i)
    /\ IsBlock(p, SpeciesAt(p), "species")
    /\ \A i \in 1..Count(p, SpeciesAt(p)) : IsSpeciesRecord(p, Line(SpeciesAt(p), 3, i), i)
    /\ IsBlock(p, CohortsAt(p), "cohorts")
    /\ \A i \in 1..Count(p, CohortsAt(p)) : IsCohortRecord(p, Line(CohortsAt(p), 4, i))
    /\ IsBlock(p, ToolsAt(p), "tools")
    /\ \A i \in 1..Count(p, ToolsAt(p)) : IsToolRecord(p, Line(ToolsAt(p), 10, i))
    /\ IsEnded(p)

LEMMA ComplaintIs ==
    ASSUME NEW p
    PROVE  Complaint(p) = NoReason <=> IsSound(p)
<1>1. /\ "unsupported_snapshot_version" # NoReason /\ "missing_regions_block" # NoReason
      /\ "invalid_region_record" # NoReason /\ "missing_species_block" # NoReason
      /\ "invalid_species_record" # NoReason /\ "missing_cohorts_block" # NoReason
      /\ "invalid_cohort_record" # NoReason /\ "missing_tools_block" # NoReason
      /\ "invalid_tool_record" # NoReason /\ "missing_snapshot_end" # NoReason
  BY Zenon DEF NoReason
<1> QED
  BY <1>1 DEF Complaint, IsSound

\* The text is what the other one begins with.
Starts(p, t) == Len(p) \in 0..Len(t) /\ \A i \in 1..Len(p) : p[i] = t[i]

LEMMA WordIsThere ==
    ASSUME NEW p, NEW i, NEW word, word # "", IsWord(Token(p, i), word)
    PROVE  i <= Len(p) /\ p[i] = Word(word)
<1>1. Word("") # Word(word)
  BY WordsDiffer
<1> QED
  BY <1>1 DEF Token, IsWord

LEMMA NumberIsThere ==
    ASSUME NEW p, NEW i, Token(p, i).digits
    PROVE  i <= Len(p) /\ Token(p, i) = p[i]
<1>1. ~Word("").digits
  <2>1. "" \in Vocabulary
    BY DEF Vocabulary
  <2> QED
    BY <2>1, TokensAre
<1> QED
  BY <1>1 DEF Token

\* A block at a place counts n lines.
SaysHowMany(t, at, n) == at \in Nat /\ n \in Int /\ t[at + 1] = Number(n)

LEMMA CountIs ==
    ASSUME NEW t, NEW p, Starts(p, t), NEW at, NEW n, SaysHowMany(t, at, n), at + 1 <= Len(p)
    PROVE  Count(p, at) = n
<1> DEFINE i == at + 1
<1>1. at \in Nat /\ n \in Int /\ t[i] = Number(n)
  BY DEF SaysHowMany
<1>2. i \in 1..Len(p) /\ i <= Len(p)
  BY <1>1 DEF Starts
<1>3. Count(p, at) = Token(p, i).number
  BY DEF Count
<1> HIDE DEF i
<1>4. Token(p, i) = t[i]
  BY <1>2 DEF Starts, Token
<1> QED
  BY <1>1, <1>3, <1>4, TokensAre

\* A beginning that has a block has its count.
LEMMA BlockIsThere ==
    ASSUME NEW t, NEW p, Starts(p, t), NEW at, NEW n, SaysHowMany(t, at, n),
           NEW tag, IsBlock(p, at, tag)
    PROVE  at + 1 <= Len(p) /\ Count(p, at) = n
<1>1. Token(p, at + 1).digits
  BY DEF IsBlock, AreNumbers
<1>2. at + 1 <= Len(p)
  BY <1>1, NumberIsThere
<1> QED
  BY <1>2, CountIs

\* No call of the log was rejected.
AllAccepted(w) == \A i \in DOMAIN w.log : w.log[i].accepted

\* What follows a line of a rejected call is in the place of the next tag.
LEMMA RejectionIsInTheWay ==
    ASSUME NEW w, IsWorld(w), ~AllAccepted(w)
    PROVE  \E m \in 1..Len(w.log) :
              /\ 10 * m + 1 \in 1..Len(ToolLines(w))
              /\ ToolLines(w)[10 * m + 1] \in {Word("region"), Word("species")}
<1> DEFINE n == Len(w.log)
           lines == [i \in 1..n |-> ToolLine(w, i)]
           I == {i \in 1..n : ~w.log[i].accepted}
<1>1. w \in WorldRecords /\ n \in Nat /\ DOMAIN w.log = 1..n
  BY DEF IsWorld, WorldRecords
<1>2. \A i \in 1..n : w.log[i].accepted <=> w.log[i].reason = NoReason
  BY <1>1 DEF IsWorld, RecordsFit
<1>3. PICK i \in I : \A k \in I : i <= k
  <2>1. I \subseteq Nat /\ I # {}
    BY <1>1 DEF AllAccepted
  <2> HIDE DEF I
  <2> QED
    BY <2>1, LeastNatural
<1>4. i \in 1..n /\ w.log[i].reason # NoReason
  BY <1>2
<1>5. \A k \in 1..(i - 1) : k \in 1..n /\ w.log[k].reason = NoReason
  <2>1. ASSUME NEW k \in 1..(i - 1) PROVE k \in 1..n /\ w.log[k].accepted
    <3>1. k \in 1..n /\ ~(i <= k)
      BY <1>1, <1>4
    <3> QED
      BY <1>3, <3>1
  <2> QED
    BY <1>2, <2>1
<1> HIDE DEF I
<1>6. /\ lines \in Seq(Seq(Tokens)) /\ Len(lines) = n
      /\ \A k \in 1..n : lines[k] = ToolLine(w, k)
  <2>1. \A k \in 1..n : ToolLine(w, k) \in Seq(Tokens)
    BY <1>1, ToolLineIs
  <2> QED
    BY <1>1, <2>1
<1>7. ToolLines(w) = FlattenSeq(lines)
  BY DEF ToolLines
<1> HIDE DEF lines
<1>8. \A k \in 1..(i - 1) : Len(lines[k]) = 10
  <2>1. ASSUME NEW k \in 1..(i - 1) PROVE Len(lines[k]) = 10
    <3>1. k \in 1..n /\ w.log[k].reason = NoReason
      BY <1>5
    <3>2. Len(ToolLine(w, k)) = 10
      BY <1>1, <3>1, ToolLineIs
    <3> QED
      BY <1>6, <3>1, <3>2
  <2> QED
    BY <2>1
<1>9. Len(lines[i]) = 11 /\ lines[i][11] \in {Word("region"), Word("species")}
  <2>1. /\ Len(ToolLine(w, i)) = 11
        /\ ToolLine(w, i)[11] \in {Word("region"), Word("species")}
    BY <1>1, <1>4, ToolLineIs
  <2> QED
    BY <1>4, <1>6, <2>1
<1> DEFINE m == i - 1
<1>10. m \in 0..n /\ m < n /\ m + 1 = i
  BY <1>1, <1>4
<1>11. Ruled(lines, 10, m)
  BY <1>6, <1>8, <1>10 DEF Ruled
<1> HIDE DEF m, n
<1>12. \A j \in 1..Len(lines[m + 1]) :
          /\ 10 * m + j \in 1..Len(FlattenSeq(lines))
          /\ FlattenSeq(lines)[10 * m + j] = lines[m + 1][j]
  <2>1. IsRuledText(Tokens, FlattenSeq(lines), lines, 10, m)
    BY <1>6, <1>11, RuledLines
  <2>2. m < Len(lines)
    BY <1>6, <1>10
  <2> QED
    BY <2>1, <2>2 DEF IsRuledText
<1>13. /\ 10 * m + 11 \in 1..Len(FlattenSeq(lines))
       /\ FlattenSeq(lines)[10 * m + 11] = lines[i][11]
  <2>1. 11 \in 1..Len(lines[m + 1])
    BY <1>9, <1>10
  <2> QED
    BY <1>10, <1>12, <2>1
<1>14. 10 * m + 11 = 10 * i + 1
  BY <1>4, <1>10
<1> QED
  BY <1>4, <1>7, <1>9, <1>13, <1>14 DEF n

\* The lines of calls that were all accepted.
LEMMA AcceptedLinesAre ==
    ASSUME NEW w, IsWorld(w), AllAccepted(w)
    PROVE  /\ Len(ToolLines(w)) = 10 * Len(w.log)
           /\ \A i \in 1..Len(w.log) :
                 /\ w.log[i] \in CallRecords /\ w.log[i].reason = NoReason
                 /\ \A j \in 1..9 : /\ 10 * (i - 1) + j \in 1..(10 * Len(w.log))
                                    /\ ToolLines(w)[10 * (i - 1) + j] = ToolTokens(w.log[i])[j]
                 /\ 10 * (i - 1) + 10 \in 1..(10 * Len(w.log))
                 /\ ToolLines(w)[10 * (i - 1) + 10] = Word("-")
<1> DEFINE n == Len(w.log)
           lines == [i \in 1..n |-> ToolLine(w, i)]
           flat == FlattenSeq(lines)
<1>1. w \in WorldRecords /\ n \in Nat /\ DOMAIN w.log = 1..n
  BY DEF IsWorld, WorldRecords
<1>2. \A i \in 1..n : w.log[i].reason = NoReason
  BY <1>1 DEF IsWorld, RecordsFit, AllAccepted
<1>3. \A i \in 1..n : ToolLine(w, i) \in Seq(Tokens) /\ Len(ToolLine(w, i)) = 10
  BY <1>1, <1>2, ToolLineIs
<1>4. /\ lines \in Seq(Seq(Tokens)) /\ Len(lines) = n
      /\ \A i \in 1..n : lines[i] = ToolLine(w, i)
  BY <1>1, <1>3
<1>5. ToolLines(w) = flat
  BY DEF ToolLines
<1> HIDE DEF lines
<1>6. Ruled(lines, 10, n)
  BY <1>1, <1>3, <1>4 DEF Ruled
<1> HIDE DEF n
<1>7. /\ n = Len(lines) => Len(flat) = 10 * n
      /\ \A i \in 1..n : \A j \in 1..10 :
            /\ 10 * (i - 1) + j \in 1..Len(flat)
            /\ flat[10 * (i - 1) + j] = lines[i][j]
  <2>1. IsRuledText(Tokens, flat, lines, 10, n)
    BY <1>4, <1>6, RuledLines
  <2> HIDE DEF flat
  <2> QED
    BY <2>1 DEF IsRuledText
<1> HIDE DEF flat
<1>8. ASSUME NEW i \in 1..n
      PROVE  /\ w.log[i] \in CallRecords
             /\ \A j \in 1..9 : lines[i][j] = ToolTokens(w.log[i])[j]
             /\ lines[i][10] = Word("-")
  <2>1. i \in 1..Len(w.log)
    BY DEF n
  <2>2. /\ w.log[i] \in CallRecords
        /\ \A j \in 1..9 : ToolLine(w, i)[j] = ToolTokens(w.log[i])[j]
        /\ ToolLine(w, i)[10] = Word("-")
    BY <1>1, <1>2, <2>1, ToolLineIs
  <2> QED
    BY <1>4, <2>2
<1>9. Len(flat) = 10 * n
  BY <1>4, <1>7
<1>10. ASSUME NEW i \in 1..n, NEW j \in 1..9
       PROVE  /\ 10 * (i - 1) + j \in 1..(10 * n)
              /\ flat[10 * (i - 1) + j] = ToolTokens(w.log[i])[j]
  <2>1. j \in 1..10
    OBVIOUS
  <2> QED
    BY <1>7, <1>8, <1>9, <2>1
<1>11. ASSUME NEW i \in 1..n
       PROVE  /\ 10 * (i - 1) + 10 \in 1..(10 * n)
              /\ flat[10 * (i - 1) + 10] = Word("-")
  <2>1. 10 \in 1..10
    OBVIOUS
  <2> QED
    BY <1>7, <1>8, <1>9, <2>1
<1>12. \A i \in 1..n : w.log[i] \in CallRecords
  BY <1>8
<1> QED
  BY <1>2, <1>5, <1>9, <1>10, <1>11, <1>12 DEF n

\* A beginning that the reader takes is the whole, with no rejected call.
LEMMA BeginningIsWhole ==
    ASSUME NEW w, IsWorld(w), NEW p, Starts(p, SaveSnapshot(w)), IsSound(p)
    PROVE  AllAccepted(w) /\ Len(p) = Len(SaveSnapshot(w))
<1> DEFINE t == SaveSnapshot(w)
           s0 == SpeciesStart(w)
           c0 == CohortsStart(w)
           t0 == ToolsStart(w)
           n == Len(w.log)
           flat == ToolLines(w)
<1>1. w \in WorldRecords /\ HandlesFit(w) /\ n \in Nat
  BY DEF IsWorld, WorldRecords
<1>2. /\ t \in Seq(Tokens) /\ Len(flat) \in Nat /\ Len(t) = t0 + 2 + Len(flat)
      /\ t[3] = Number(Len(w.regions)) /\ t[s0 + 1] = Number(Len(w.species))
      /\ t[c0 + 1] = Number(Len(w.cohorts)) /\ t[t0 + 1] = Number(n)
      /\ \A k \in 1..Len(flat) : t[t0 + 1 + k] = flat[k]
  BY <1>1, SnapshotIs
<1>3. /\ Len(w.regions) \in Nat /\ Len(w.species) \in Nat /\ Len(w.cohorts) \in Nat
      /\ s0 \in Nat /\ c0 \in Nat /\ t0 \in Nat
  <2>1. Len(w.regions) \in Nat /\ Len(w.species) \in Nat /\ Len(w.cohorts) \in Nat
    BY <1>1 DEF WorldRecords
  <2>2. s0 \in Nat
    BY <2>1 DEF SpeciesStart
  <2>3. c0 \in Nat
    BY <2>1, <2>2 DEF CohortsStart
  <2>4. t0 \in Nat
    BY <2>1, <2>3 DEF ToolsStart
  <2> QED
    BY <2>1, <2>2, <2>3, <2>4
<1>4. Starts(p, t)
  OBVIOUS
<1> HIDE DEF t
<1>5. SpeciesAt(p) = s0
  <2>1. RegionsAt = 2
    BY DEF RegionsAt
  <2>2. IsBlock(p, RegionsAt, "regions")
    BY DEF IsSound
  <2>3. SaysHowMany(t, RegionsAt, Len(w.regions))
    BY <1>2, <1>3, <2>1 DEF SaysHowMany
  <2>4. Count(p, RegionsAt) = Len(w.regions)
    BY <1>4, <2>2, <2>3, BlockIsThere
  <2> QED
    BY <1>3, <2>1, <2>4 DEF SpeciesAt, SpeciesStart
<1>6. CohortsAt(p) = c0
  <2>1. IsBlock(p, s0, "species")
    BY <1>5 DEF IsSound
  <2>2. SaysHowMany(t, s0, Len(w.species))
    BY <1>2, <1>3 DEF SaysHowMany
  <2>3. Count(p, s0) = Len(w.species)
    BY <1>4, <2>1, <2>2, BlockIsThere
  <2> QED
    BY <1>5, <2>3 DEF CohortsAt, CohortsStart
<1>7. ToolsAt(p) = t0
  <2>1. IsBlock(p, c0, "cohorts")
    BY <1>6 DEF IsSound
  <2>2. SaysHowMany(t, c0, Len(w.cohorts))
    BY <1>2, <1>3 DEF SaysHowMany
  <2>3. Count(p, c0) = Len(w.cohorts)
    BY <1>4, <2>1, <2>2, BlockIsThere
  <2> QED
    BY <1>6, <2>3 DEF ToolsAt, ToolsStart
<1>8. t0 + 1 <= Len(p) /\ Count(p, t0) = n
  <2>1. IsBlock(p, t0, "tools")
    BY <1>7 DEF IsSound
  <2>2. SaysHowMany(t, t0, n)
    BY <1>1, <1>2, <1>3 DEF SaysHowMany
  <2> QED
    BY <1>4, <2>1, <2>2, BlockIsThere
<1> HIDE DEF t0, n
<1>9. p[t0 + 2 + 10 * n] = Word("end") /\ t0 + 2 + 10 * n <= Len(p)
  <2>1. EndAt(p) = t0 + 2 + 10 * n
    BY <1>7, <1>8 DEF EndAt
  <2>2. IsWord(Token(p, EndAt(p)), "end")
    BY DEF IsSound, IsEnded
  <2>3. "end" # ""
    BY Zenon
  <2> QED
    BY <2>1, <2>2, <2>3, WordIsThere
<1>10. \A i \in 1..n : /\ t0 + 2 + 10 * (i - 1) <= Len(p)
                       /\ p[t0 + 2 + 10 * (i - 1)] = Word("tool")
  <2>1. ASSUME NEW i \in 1..n
        PROVE  /\ t0 + 2 + 10 * (i - 1) <= Len(p)
               /\ p[t0 + 2 + 10 * (i - 1)] = Word("tool")
    <3>1. IsToolRecord(p, Line(t0, 10, i))
      BY <1>7, <1>8 DEF IsSound
    <3>2. Line(t0, 10, i) = t0 + 2 + 10 * (i - 1)
      BY DEF Line
    <3>3. "tool" # ""
      BY Zenon
    <3> QED
      BY <3>1, <3>2, <3>3, WordIsThere DEF IsToolRecord
  <2> QED
    BY <2>1
<1>11. AllAccepted(w)
  <2>1. SUFFICES ASSUME ~AllAccepted(w) PROVE FALSE
    OBVIOUS
  <2>2. PICK m \in 1..n : /\ 10 * m + 1 \in 1..Len(flat)
                          /\ flat[10 * m + 1] \in {Word("region"), Word("species")}
    BY <2>1, RejectionIsInTheWay DEF n
  <2> DEFINE x == t0 + 2 + 10 * m
  <2>3. t[x] \in {Word("region"), Word("species")}
    <3>1. t0 + 1 + (10 * m + 1) = x
      BY <1>3 DEF t0
    <3> QED
      BY <1>2, <2>2, <3>1
  <2>4. x <= Len(p) /\ p[x] \in {Word("tool"), Word("end")}
    <3>1. CASE m = n
      BY <1>9, <3>1
    <3>2. CASE m # n
      <4>1. m + 1 \in 1..n /\ (m + 1) - 1 = m
        BY <1>1, <3>2 DEF n
      <4> QED
        BY <1>10, <4>1
    <3> QED
      BY <3>1, <3>2
  <2>5. p[x] = t[x]
    <3>1. x \in 1..Len(p)
      <4>1. Len(p) \in Nat
        BY <1>2, <1>3, <1>4 DEF Starts, t0
      <4>2. t0 \in Nat /\ n \in Nat
        BY <1>1, <1>3 DEF t0, n
      <4>3. x \in Nat \ {0}
        BY <4>2
      <4> HIDE DEF x
      <4> QED
        BY <2>4, <4>1, <4>3
    <3> QED
      BY <1>4, <3>1 DEF Starts
  <2>6. /\ Word("region") # Word("tool") /\ Word("region") # Word("end")
        /\ Word("species") # Word("tool") /\ Word("species") # Word("end")
    <3>1. /\ "region" # "tool" /\ "region" # "end"
          /\ "species" # "tool" /\ "species" # "end"
      BY Zenon
    <3> QED
      BY <3>1, WordsDiffer
  <2> HIDE DEF x
  <2> QED
    BY <2>3, <2>4, <2>5, <2>6
<1>12. Len(p) = Len(t)
  <2>1. Len(flat) = 10 * n
    BY <1>11, AcceptedLinesAre DEF n
  <2> DEFINE a == Len(p)
             b == Len(t)
  <2>2. b = t0 + 2 + 10 * n /\ t0 + 2 + 10 * n <= a /\ a \in 0..b /\ b \in Nat
    BY <1>2, <1>4, <1>9, <2>1 DEF Starts
  <2> HIDE DEF a, b
  <2>3. a = b
    BY <2>2
  <2> QED
    BY <2>3 DEF a, b
<1> QED
  BY <1>11, <1>12 DEF t

\* Where the reader finds the blocks of a text that was not damaged.
LEMMA PlacesAre ==
    ASSUME NEW w \in WorldRecords, HandlesFit(w)
    PROVE  LET t == SaveSnapshot(w)
               s0 == SpeciesStart(w)
               c0 == CohortsStart(w)
               t0 == ToolsStart(w)
           IN  /\ t \in Seq(Tokens) /\ Len(t) \in Nat /\ Len(ToolLines(w)) \in Nat
               /\ Len(t) = t0 + 2 + Len(ToolLines(w))
               /\ \A i \in 1..Len(t) : Token(t, i) = t[i]
               /\ Len(w.regions) \in Nat /\ Len(w.species) \in Nat
               /\ Len(w.cohorts) \in Nat /\ Len(w.log) \in Nat
               /\ Count(t, RegionsAt) = Len(w.regions)
               /\ SpeciesAt(t) = s0 /\ Count(t, s0) = Len(w.species)
               /\ CohortsAt(t) = c0 /\ Count(t, c0) = Len(w.cohorts)
               /\ ToolsAt(t) = t0 /\ Count(t, t0) = Len(w.log)
               /\ 4 + 4 * Len(w.regions) <= Len(t)
               /\ s0 \in Nat \ {0} /\ s0 + 2 + 3 * Len(w.species) <= Len(t)
               /\ c0 \in Nat \ {0} /\ c0 + 2 + 4 * Len(w.cohorts) <= Len(t)
               /\ t0 \in Nat \ {0}
<1> DEFINE t == SaveSnapshot(w)
           s0 == SpeciesStart(w)
           c0 == CohortsStart(w)
           t0 == ToolsStart(w)
           nr == Len(w.regions)
           ns == Len(w.species)
           nc == Len(w.cohorts)
           n == Len(w.log)
           nf == Len(ToolLines(w))
           nt == Len(t)
<1>1. /\ t \in Seq(Tokens) /\ nf \in Nat /\ nt = t0 + 2 + nf
      /\ t[3] = Number(nr) /\ t[s0 + 1] = Number(ns)
      /\ t[c0 + 1] = Number(nc) /\ t[t0 + 1] = Number(n)
  BY SnapshotIs
<1>2. nr \in Nat /\ ns \in Nat /\ nc \in Nat /\ n \in Nat
  BY DEF WorldRecords
<1>3. s0 = 4 + 4 * nr /\ c0 = s0 + 2 + 3 * ns /\ t0 = c0 + 2 + 4 * nc
  BY DEF SpeciesStart, CohortsStart, ToolsStart
<1>4. nt \in Nat
  BY <1>1
<1> HIDE DEF t, s0, c0, t0, nr, ns, nc, n, nf
<1>5. s0 \in Nat \ {0} /\ c0 \in Nat \ {0} /\ t0 \in Nat \ {0}
  BY <1>2, <1>3
<1> HIDE DEF nt
<1>6. /\ 4 + 4 * nr <= nt /\ 2 + 1 <= nt
      /\ s0 + 2 + 3 * ns <= nt /\ s0 + 1 <= nt
      /\ c0 + 2 + 4 * nc <= nt /\ c0 + 1 <= nt
      /\ t0 + 1 <= nt
  BY <1>1, <1>2, <1>3, <1>5
<1>7. Starts(t, t) /\ \A i \in 1..nt : Token(t, i) = t[i]
  BY <1>4 DEF Starts, Token, nt
<1>8. Count(t, RegionsAt) = nr
  <2>1. RegionsAt = 2
    BY DEF RegionsAt
  <2>2. SaysHowMany(t, RegionsAt, nr) /\ RegionsAt + 1 <= Len(t)
    BY <1>1, <1>2, <1>6, <2>1 DEF SaysHowMany, nt
  <2> QED
    BY <1>7, <2>2, CountIs
<1>9. SpeciesAt(t) = s0
  BY <1>2, <1>3, <1>8 DEF SpeciesAt, RegionsAt
<1>10. Count(t, s0) = ns
  <2>1. SaysHowMany(t, s0, ns) /\ s0 + 1 <= Len(t)
    BY <1>1, <1>2, <1>5, <1>6 DEF SaysHowMany, nt
  <2> QED
    BY <1>7, <2>1, CountIs
<1>11. CohortsAt(t) = c0
  BY <1>3, <1>9, <1>10 DEF CohortsAt
<1>12. Count(t, c0) = nc
  <2>1. SaysHowMany(t, c0, nc) /\ c0 + 1 <= Len(t)
    BY <1>1, <1>2, <1>5, <1>6 DEF SaysHowMany, nt
  <2> QED
    BY <1>7, <2>1, CountIs
<1>13. ToolsAt(t) = t0
  BY <1>3, <1>11, <1>12 DEF ToolsAt
<1>14. Count(t, t0) = n
  <2>1. SaysHowMany(t, t0, n) /\ t0 + 1 <= Len(t)
    BY <1>1, <1>2, <1>5, <1>6 DEF SaysHowMany, nt
  <2> QED
    BY <1>7, <2>1, CountIs
<1> QED
  BY <1>1, <1>2, <1>4, <1>5, <1>6, <1>7, <1>8, <1>9, <1>10, <1>11, <1>12, <1>13, <1>14
  DEF t, s0, c0, t0, nr, ns, nc, n, nf, nt

LEMMA RegionsAreRead ==
    ASSUME NEW w \in WorldRecords, HandlesFit(w)
    PROVE  LET t == SaveSnapshot(w)
           IN  /\ IsBlock(t, RegionsAt, "regions")
               /\ \A i \in 1..Len(w.regions) : IsRegionRecord(t, Line(RegionsAt, 4, i), i)
               /\ LoadedRegions(t) = w.regions
<1> DEFINE t == SaveSnapshot(w)
           n == Len(w.regions)
<1>1. /\ n \in Nat /\ Len(t) \in Nat /\ 4 + 4 * n <= Len(t) /\ Count(t, RegionsAt) = n
      /\ \A i \in 1..Len(t) : Token(t, i) = t[i]
  BY PlacesAre
<1>2. /\ t[2] = Word("regions") /\ t[3] = Number(n)
      /\ \A i \in 1..n : \A j \in 1..4 : t[3 + (4 * (i - 1) + j)] = RegionLine(w, i)[j]
  BY SnapshotIs
<1> HIDE DEF t
<1>3. IsBlock(t, RegionsAt, "regions")
  <2>1. Token(t, 2) = Word("regions") /\ Token(t, 2 + 1) = Number(n)
    BY <1>1, <1>2
  <2>2. Number(n).digits
    BY <1>1, TokensAre
  <2> QED
    BY <2>1, <2>2 DEF IsBlock, AreNumbers, IsWord, RegionsAt
<1>4. ASSUME NEW i \in 1..n
      PROVE  LET p == Line(RegionsAt, 4, i)
                 it == w.regions[i]
             IN  /\ p + 3 <= Len(t) /\ it \in RegionRecords
                 /\ Handle(i, it.gen) \in HandleRecords
                 /\ Token(t, p) = Word("region")
                 /\ Token(t, p + 1) = HandleToken(Handle(i, it.gen))
                 /\ Token(t, p + 2) = Number(it.cap)
                 /\ Token(t, p + 3) = it.name.tokens[1]
  <2> DEFINE p == Line(RegionsAt, 4, i)
  <2>1. /\ p = 3 + (4 * (i - 1) + 1) /\ p + 1 = 3 + (4 * (i - 1) + 2)
        /\ p + 2 = 3 + (4 * (i - 1) + 3) /\ p + 3 = 3 + (4 * (i - 1) + 4)
    BY <1>1 DEF Line, RegionsAt
  <2>2. p \in Nat \ {0} /\ p + 3 <= Len(t)
    BY <1>1, <2>1
  <2> HIDE DEF p
  <2>3. /\ Token(t, p) = t[p] /\ Token(t, p + 1) = t[p + 1]
        /\ Token(t, p + 2) = t[p + 2] /\ Token(t, p + 3) = t[p + 3]
    <3>1. p \in 1..Len(t) /\ p + 1 \in 1..Len(t) /\ p + 2 \in 1..Len(t) /\ p + 3 \in 1..Len(t)
      BY <1>1, <2>2
    <3> QED
      BY <1>1, <3>1
  <2>4. /\ t[p] = RegionLine(w, i)[1] /\ t[p + 1] = RegionLine(w, i)[2]
        /\ t[p + 2] = RegionLine(w, i)[3] /\ t[p + 3] = RegionLine(w, i)[4]
    <3>1. \A j \in 1..4 : t[3 + (4 * (i - 1) + j)] = RegionLine(w, i)[j]
      BY <1>2
    <3> QED
      BY <2>1, <3>1
  <2>5. LET line == RegionLine(w, i)
            it == w.regions[i]
        IN  /\ it \in RegionRecords /\ Handle(i, it.gen) \in HandleRecords
            /\ line[1] = Word("region") /\ line[2] = HandleToken(Handle(i, it.gen))
            /\ line[3] = Number(it.cap) /\ line[4] = it.name.tokens[1]
    BY RegionLineIs
  <2> QED
    BY <2>2, <2>3, <2>4, <2>5 DEF p
<1>5. ASSUME NEW i \in 1..n
      PROVE  LET p == Line(RegionsAt, 4, i)
             IN  /\ IsRegionRecord(t, p, i)
                 /\ [name |-> NameRead(Token(t, p + 3)), gen |-> HandleRead(Token(t, p + 1)).gen,
                     cap |-> NotNegative(Token(t, p + 2).number)] = w.regions[i]
  <2> DEFINE p == Line(RegionsAt, 4, i)
             it == w.regions[i]
             h == Handle(i, it.gen)
  <2>1. /\ p + 3 <= Len(t) /\ it \in RegionRecords /\ h \in HandleRecords
        /\ Token(t, p) = Word("region") /\ Token(t, p + 1) = HandleToken(h)
        /\ Token(t, p + 2) = Number(it.cap) /\ Token(t, p + 3) = it.name.tokens[1]
    BY <1>4
  <2>2. h.index = i /\ h.gen = it.gen
    BY DEF Handle
  <2> HIDE DEF p, it, h
  <2>3. /\ it.name \in Names /\ it.cap \in Nat
        /\ it = [name |-> it.name, gen |-> it.gen, cap |-> it.cap]
    BY <2>1 DEF RegionRecords
  <2>4. HandleToken(h).digits /\ HandleRead(HandleToken(h)) = h
    BY <2>1, HandlesAreRead
  <2>5. Number(it.cap).digits /\ Number(it.cap).number = it.cap
    BY <2>3, TokensAre
  <2>6. NameRead(it.name.tokens[1]) = it.name
    BY <2>3, NamesAre
  <2>7. NotNegative(it.cap) = it.cap
    BY <2>3 DEF NotNegative
  <2>8. IsRegionRecord(t, p, i)
    BY <2>1, <2>2, <2>4, <2>5 DEF IsRegionRecord, AreNumbers, IsWord
  <2>9. [name |-> NameRead(Token(t, p + 3)), gen |-> HandleRead(Token(t, p + 1)).gen,
         cap |-> NotNegative(Token(t, p + 2).number)] = it
    BY <2>1, <2>2, <2>3, <2>4, <2>5, <2>6, <2>7
  <2> QED
    BY <2>8, <2>9 DEF p, it
<1>6. LoadedRegions(t) = w.regions
  <2>1. LoadedRegions(t) = [i \in 1..n |-> w.regions[i]]
    BY <1>1, <1>5 DEF LoadedRegions
  <2>2. w.regions = [i \in 1..n |-> w.regions[i]]
    BY DEF WorldRecords
  <2> QED
    BY <2>1, <2>2
<1> QED
  BY <1>3, <1>5, <1>6 DEF t

LEMMA SpeciesAreRead ==
    ASSUME NEW w \in WorldRecords, HandlesFit(w)
    PROVE  LET t == SaveSnapshot(w)
               at == SpeciesStart(w)
           IN  /\ IsBlock(t, at, "species")
               /\ \A i \in 1..Len(w.species) : IsSpeciesRecord(t, Line(at, 3, i), i)
               /\ LoadedSpecies(t) = w.species
<1> DEFINE t == SaveSnapshot(w)
           at == SpeciesStart(w)
           n == Len(w.species)
<1>1. /\ n \in Nat /\ Len(t) \in Nat /\ at \in Nat \ {0} /\ at + 2 + 3 * n <= Len(t)
      /\ SpeciesAt(t) = at /\ Count(t, at) = n
      /\ \A i \in 1..Len(t) : Token(t, i) = t[i]
  BY PlacesAre
<1>2. /\ t[at] = Word("species") /\ t[at + 1] = Number(n)
      /\ \A i \in 1..n : \A j \in 1..3 : t[at + 1 + (3 * (i - 1) + j)] = SpeciesLine(w, i)[j]
  BY SnapshotIs
<1> HIDE DEF t, at
<1>3. IsBlock(t, at, "species")
  <2>1. Token(t, at) = Word("species") /\ Token(t, at + 1) = Number(n)
    BY <1>1, <1>2
  <2>2. Number(n).digits
    BY <1>1, TokensAre
  <2> QED
    BY <2>1, <2>2 DEF IsBlock, AreNumbers, IsWord
<1>4. ASSUME NEW i \in 1..n
      PROVE  LET p == Line(at, 3, i)
                 it == w.species[i]
             IN  /\ p + 2 <= Len(t) /\ it \in SpeciesRecords
                 /\ Handle(i, it.gen) \in HandleRecords
                 /\ Token(t, p) = Word("species")
                 /\ Token(t, p + 1) = HandleToken(Handle(i, it.gen))
                 /\ Token(t, p + 2) = it.name.tokens[1]
  <2> DEFINE p == Line(at, 3, i)
  <2>1. /\ p = at + 1 + (3 * (i - 1) + 1) /\ p + 1 = at + 1 + (3 * (i - 1) + 2)
        /\ p + 2 = at + 1 + (3 * (i - 1) + 3)
    BY <1>1 DEF Line
  <2>2. p \in Nat \ {0} /\ p + 2 <= Len(t)
    <3> DEFINE l == Len(t)
    <3> HIDE DEF p, l, n
    <3>1. p = at + 2 + 3 * (i - 1) /\ at + 2 + 3 * n <= l
      BY <1>1, <2>1 DEF l
    <3>2. l \in Nat /\ n \in Nat /\ at \in Nat /\ i \in 1..n
      BY <1>1 DEF l, n
    <3>3. p \in Nat \ {0} /\ p + 2 <= l
      BY <3>1, <3>2
    <3> QED
      BY <3>3 DEF l
  <2> HIDE DEF p
  <2>3. /\ Token(t, p) = t[p] /\ Token(t, p + 1) = t[p + 1] /\ Token(t, p + 2) = t[p + 2]
    <3>1. p \in 1..Len(t) /\ p + 1 \in 1..Len(t) /\ p + 2 \in 1..Len(t)
      BY <1>1, <2>2
    <3> QED
      BY <1>1, <3>1
  <2>4. /\ t[p] = SpeciesLine(w, i)[1] /\ t[p + 1] = SpeciesLine(w, i)[2]
        /\ t[p + 2] = SpeciesLine(w, i)[3]
    <3>1. \A j \in 1..3 : t[at + 1 + (3 * (i - 1) + j)] = SpeciesLine(w, i)[j]
      BY <1>2
    <3> QED
      BY <2>1, <3>1
  <2>5. LET line == SpeciesLine(w, i)
            it == w.species[i]
        IN  /\ it \in SpeciesRecords /\ Handle(i, it.gen) \in HandleRecords
            /\ line[1] = Word("species") /\ line[2] = HandleToken(Handle(i, it.gen))
            /\ line[3] = it.name.tokens[1]
    BY SpeciesLineIs
  <2> QED
    BY <2>2, <2>3, <2>4, <2>5 DEF p
<1>5. ASSUME NEW i \in 1..n
      PROVE  LET p == Line(at, 3, i)
             IN  /\ IsSpeciesRecord(t, p, i)
                 /\ [name |-> NameRead(Token(t, p + 2)),
                     gen |-> HandleRead(Token(t, p + 1)).gen] = w.species[i]
  <2> DEFINE p == Line(at, 3, i)
             it == w.species[i]
             h == Handle(i, it.gen)
  <2>1. /\ p + 2 <= Len(t) /\ it \in SpeciesRecords /\ h \in HandleRecords
        /\ Token(t, p) = Word("species") /\ Token(t, p + 1) = HandleToken(h)
        /\ Token(t, p + 2) = it.name.tokens[1]
    BY <1>4
  <2>2. h.index = i /\ h.gen = it.gen
    BY DEF Handle
  <2> HIDE DEF p, it, h
  <2>3. it.name \in Names /\ it = [name |-> it.name, gen |-> it.gen]
    BY <2>1 DEF SpeciesRecords
  <2>4. HandleToken(h).digits /\ HandleRead(HandleToken(h)) = h
    BY <2>1, HandlesAreRead
  <2>6. NameRead(it.name.tokens[1]) = it.name
    BY <2>3, NamesAre
  <2>8. IsSpeciesRecord(t, p, i)
    BY <2>1, <2>2, <2>4 DEF IsSpeciesRecord, AreNumbers, IsWord
  <2>9. [name |-> NameRead(Token(t, p + 2)), gen |-> HandleRead(Token(t, p + 1)).gen] = it
    BY <2>1, <2>2, <2>3, <2>4, <2>6
  <2> QED
    BY <2>8, <2>9 DEF p, it
<1>6. LoadedSpecies(t) = w.species
  <2>1. LoadedSpecies(t) = [i \in 1..n |-> w.species[i]]
    BY <1>1, <1>5 DEF LoadedSpecies
  <2>2. w.species = [i \in 1..n |-> w.species[i]]
    BY DEF WorldRecords
  <2> QED
    BY <2>1, <2>2
<1> QED
  BY <1>3, <1>5, <1>6 DEF t, at

LEMMA CohortsAreRead ==
    ASSUME NEW w, IsWorld(w)
    PROVE  LET t == SaveSnapshot(w)
               at == CohortsStart(w)
           IN  /\ IsBlock(t, at, "cohorts")
               /\ \A i \in 1..Len(w.cohorts) : IsCohortRecord(t, Line(at, 4, i))
               /\ LoadedCohorts(t) = w.cohorts
<1> DEFINE t == SaveSnapshot(w)
           at == CohortsStart(w)
           n == Len(w.cohorts)
           v == [regions |-> LoadedRegions(t), species |-> LoadedSpecies(t)]
<1>0. w \in WorldRecords /\ HandlesFit(w) /\ DOMAIN w.cohorts = 1..n
  BY DEF IsWorld, WorldRecords
<1>1. /\ n \in Nat /\ Len(t) \in Nat /\ at \in Nat \ {0} /\ at + 2 + 4 * n <= Len(t)
      /\ CohortsAt(t) = at /\ Count(t, at) = n
      /\ \A i \in 1..Len(t) : Token(t, i) = t[i]
  BY <1>0, PlacesAre
<1>2. /\ t[at] = Word("cohorts") /\ t[at + 1] = Number(n)
      /\ \A i \in 1..n : \A j \in 1..4 : t[at + 1 + (4 * (i - 1) + j)] = CohortLine(w, i)[j]
  BY <1>0, SnapshotIs
<1>3. v.regions = w.regions /\ v.species = w.species
  <2>1. LoadedRegions(t) = w.regions /\ LoadedSpecies(t) = w.species
    BY <1>0, RegionsAreRead, SpeciesAreRead
  <2> HIDE DEF t
  <2> QED
    BY <2>1
<1>4. v = [regions |-> LoadedRegions(t), species |-> LoadedSpecies(t)]
  OBVIOUS
<1> HIDE DEF t, at, v
<1>5. IsBlock(t, at, "cohorts")
  <2>1. Token(t, at) = Word("cohorts") /\ Token(t, at + 1) = Number(n)
    <3>1. at \in 1..Len(t) /\ at + 1 \in 1..Len(t)
      <4> DEFINE l == Len(t)
      <4>1. l \in Nat /\ n \in Nat /\ at \in Nat \ {0} /\ at + 2 + 4 * n <= l
        BY <1>1
      <4> HIDE DEF l, n
      <4>2. at \in 1..l /\ at + 1 \in 1..l
        BY <4>1
      <4> QED
        BY <4>2 DEF l
    <3> QED
      BY <1>1, <1>2, <3>1
  <2>2. Number(n).digits
    BY <1>1, TokensAre
  <2> QED
    BY <2>1, <2>2 DEF IsBlock, AreNumbers, IsWord
<1>6. ASSUME NEW i \in 1..n
      PROVE  LET p == Line(at, 4, i)
             IN  /\ Token(t, p) = Word("cohort")
                 /\ Token(t, p + 1) = HandleToken(w.cohorts[i].region)
                 /\ Token(t, p + 2) = HandleToken(w.cohorts[i].species)
                 /\ Token(t, p + 3) = Number(w.cohorts[i].count)
  <2> DEFINE p == Line(at, 4, i)
  <2>1. /\ p = at + 1 + (4 * (i - 1) + 1) /\ p + 1 = at + 1 + (4 * (i - 1) + 2)
        /\ p + 2 = at + 1 + (4 * (i - 1) + 3) /\ p + 3 = at + 1 + (4 * (i - 1) + 4)
    BY <1>1 DEF Line
  <2>2. p \in Nat \ {0} /\ p + 3 <= Len(t)
    <3> DEFINE l == Len(t)
    <3> HIDE DEF p, l, n
    <3>1. p = at + 2 + 4 * (i - 1) /\ at + 2 + 4 * n <= l
      BY <1>1, <2>1 DEF l
    <3>2. l \in Nat /\ n \in Nat /\ at \in Nat /\ i \in 1..n
      BY <1>1 DEF l, n
    <3>3. p \in Nat \ {0} /\ p + 3 <= l
      BY <3>1, <3>2
    <3> QED
      BY <3>3 DEF l
  <2> HIDE DEF p
  <2>3. /\ Token(t, p) = t[p] /\ Token(t, p + 1) = t[p + 1]
        /\ Token(t, p + 2) = t[p + 2] /\ Token(t, p + 3) = t[p + 3]
    <3>1. p \in 1..Len(t) /\ p + 1 \in 1..Len(t) /\ p + 2 \in 1..Len(t) /\ p + 3 \in 1..Len(t)
      BY <1>1, <2>2
    <3> QED
      BY <1>1, <3>1
  <2>4. /\ t[p] = CohortLine(w, i)[1] /\ t[p + 1] = CohortLine(w, i)[2]
        /\ t[p + 2] = CohortLine(w, i)[3] /\ t[p + 3] = CohortLine(w, i)[4]
    <3>1. \A j \in 1..4 : t[at + 1 + (4 * (i - 1) + j)] = CohortLine(w, i)[j]
      BY <1>2
    <3> QED
      BY <2>1, <3>1
  <2> QED
    BY <2>3, <2>4 DEF p, CohortLine
<1>7. ASSUME NEW i \in 1..n
      PROVE  LET p == Line(at, 4, i)
             IN  /\ IsCohortRecord(t, p)
                 /\ [region |-> HandleRead(Token(t, p + 1)),
                     species |-> HandleRead(Token(t, p + 2)),
                     count |-> Token(t, p + 3).number] = w.cohorts[i]
  <2> DEFINE p == Line(at, 4, i)
             it == w.cohorts[i]
  <2>1. /\ Token(t, p) = Word("cohort") /\ Token(t, p + 1) = HandleToken(it.region)
        /\ Token(t, p + 2) = HandleToken(it.species) /\ Token(t, p + 3) = Number(it.count)
    BY <1>6
  <2>2. it \in CohortRecords
    BY <1>0 DEF WorldRecords
  <2>3. Refusal(v, it.region, it.species) = NoReason
    <3>1. Refusal(w, it.region, it.species) = NoReason
      BY <1>0 DEF IsWorld, CohortsFit
    <3> QED
      BY <1>3, <3>1, RefusalDepends
  <2> HIDE DEF p, it
  <2>4. /\ it.region \in HandleRecords /\ it.species \in HandleRecords /\ it.count \in Int
        /\ it = [region |-> it.region, species |-> it.species, count |-> it.count]
    BY <2>2 DEF CohortRecords
  <2>5. /\ HandleToken(it.region).digits /\ HandleRead(HandleToken(it.region)) = it.region
        /\ HandleToken(it.species).digits /\ HandleRead(HandleToken(it.species)) = it.species
    BY <2>4, HandlesAreRead
  <2>6. Number(it.count).digits /\ Number(it.count).number = it.count
    BY <2>4, TokensAre
  <2>7. IsCohortRecord(t, p)
    BY <1>4, <2>1, <2>3, <2>5, <2>6 DEF IsCohortRecord, AreNumbers, IsWord
  <2>8. [region |-> HandleRead(Token(t, p + 1)), species |-> HandleRead(Token(t, p + 2)),
         count |-> Token(t, p + 3).number] = it
    BY <2>1, <2>4, <2>5, <2>6
  <2> QED
    BY <2>7, <2>8 DEF p, it
<1>8. LoadedCohorts(t) = w.cohorts
  <2>1. LoadedCohorts(t) = [i \in 1..n |-> w.cohorts[i]]
    BY <1>1, <1>7 DEF LoadedCohorts
  <2>2. w.cohorts = [i \in 1..n |-> w.cohorts[i]]
    BY <1>0 DEF WorldRecords
  <2> QED
    BY <2>1, <2>2
<1> QED
  BY <1>5, <1>7, <1>8 DEF t, at

LEMMA ToolsAreRead ==
    ASSUME NEW w, IsWorld(w), AllAccepted(w)
    PROVE  LET t == SaveSnapshot(w)
               at == ToolsStart(w)
           IN  /\ IsBlock(t, at, "tools")
               /\ \A i \in 1..Len(w.log) : IsToolRecord(t, Line(at, 10, i))
               /\ LoadedTools(t) = w.log
               /\ IsEnded(t)
<1> DEFINE t == SaveSnapshot(w)
           at == ToolsStart(w)
           n == Len(w.log)
           l == Len(t)
           flat == ToolLines(w)
<1>1. w \in WorldRecords /\ HandlesFit(w)
  BY DEF IsWorld
<1>2. /\ n \in Nat /\ l \in Nat /\ at \in Nat \ {0} /\ l = at + 2 + Len(flat)
      /\ ToolsAt(t) = at /\ Count(t, at) = n
      /\ \A i \in 1..l : Token(t, i) = t[i]
  BY <1>1, PlacesAre
<1>3. /\ t[at] = Word("tools") /\ t[at + 1] = Number(n)
      /\ \A k \in 1..Len(flat) : t[at + 1 + k] = flat[k]
      /\ t[l] = Word("end")
  BY <1>1, SnapshotIs
<1>4. /\ Len(flat) = 10 * n
      /\ \A i \in 1..n :
            /\ w.log[i] \in CallRecords /\ w.log[i].reason = NoReason
            /\ \A j \in 1..9 : /\ 10 * (i - 1) + j \in 1..(10 * n)
                               /\ flat[10 * (i - 1) + j] = ToolTokens(w.log[i])[j]
            /\ 10 * (i - 1) + 10 \in 1..(10 * n)
            /\ flat[10 * (i - 1) + 10] = Word("-")
  BY AcceptedLinesAre
<1>5. n = Len(w.log)
  OBVIOUS
<1> HIDE DEF t, at, n, l, flat
<1>6. /\ at \in 1..l /\ at + 1 \in 1..l /\ l \in 1..l /\ l = at + 2 + 10 * n
  BY <1>2, <1>4
<1>7. IsBlock(t, at, "tools")
  <2>1. Token(t, at) = Word("tools") /\ Token(t, at + 1) = Number(n)
    BY <1>2, <1>3, <1>6
  <2>2. Number(n).digits
    BY <1>2, TokensAre
  <2> QED
    BY <2>1, <2>2 DEF IsBlock, AreNumbers, IsWord
<1>8. IsEnded(t)
  <2>1. EndAt(t) = l
    BY <1>2, <1>6 DEF EndAt
  <2>2. Token(t, l) = Word("end")
    BY <1>2, <1>3, <1>6
  <2> QED
    BY <2>1, <2>2 DEF IsEnded, IsWord
<1>9. ASSUME NEW i \in 1..n
      PROVE  LET p == Line(at, 10, i)
             IN  /\ p + 9 <= l
                 /\ \A j \in 1..9 : Token(t, p + (j - 1)) = ToolTokens(w.log[i])[j]
                 /\ Token(t, p + 9) = Word("-")
  <2> DEFINE p == Line(at, 10, i)
  <2>1. p = at + 2 + 10 * (i - 1)
    BY DEF Line
  <2>2. p \in Nat \ {0} /\ p + 9 <= l
    BY <1>2, <1>6, <2>1
  <2> HIDE DEF p
  <2>3. ASSUME NEW j \in 1..9 PROVE Token(t, p + (j - 1)) = ToolTokens(w.log[i])[j]
    <3> DEFINE k == 10 * (i - 1) + j
    <3>1. k \in 1..Len(flat) /\ flat[k] = ToolTokens(w.log[i])[j]
      BY <1>4
    <3>2. p + (j - 1) = at + 1 + k
      BY <1>2, <2>1
    <3>3. p + (j - 1) \in 1..l
      BY <1>2, <2>2
    <3> HIDE DEF k
    <3> QED
      BY <1>2, <1>3, <3>1, <3>2, <3>3
  <2>4. Token(t, p + 9) = Word("-")
    <3> DEFINE k == 10 * (i - 1) + 10
    <3>1. k \in 1..Len(flat) /\ flat[k] = Word("-")
      BY <1>4
    <3>2. p + 9 = at + 1 + k
      BY <1>2, <2>1
    <3>3. p + 9 \in 1..l
      BY <1>2, <2>2
    <3> HIDE DEF k
    <3> QED
      BY <1>2, <1>3, <3>1, <3>2, <3>3
  <2> QED
    BY <2>2, <2>3, <2>4 DEF p
<1>10. ASSUME NEW i \in 1..n
       PROVE  LET p == Line(at, 10, i)
                  it == w.log[i]
              IN  /\ p + 9 <= l
                  /\ Token(t, p) = Word("tool") /\ Token(t, p + 1) = Number(it.seq)
                  /\ Token(t, p + 2) = Number(it.day) /\ Token(t, p + 3) = Word(ToolName)
                  /\ Token(t, p + 4) = HandleToken(it.region)
                  /\ Token(t, p + 5) = HandleToken(it.species)
                  /\ Token(t, p + 6) = Number(IF it.accepted THEN 1 ELSE 0)
                  /\ Token(t, p + 7) = Number(it.requested)
                  /\ Token(t, p + 8) = Number(it.applied)
                  /\ Token(t, p + 9) = Word("-")
  <2> DEFINE p == Line(at, 10, i)
             it == w.log[i]
  <2>1. \A j \in 1..9 : Token(t, p + (j - 1)) = ToolTokens(it)[j]
    BY <1>9
  <2>2. p + (1 - 1) = p
    BY <1>2 DEF Line
  <2> HIDE DEF p, it
  <2>3. Token(t, p + (1 - 1)) = ToolTokens(it)[1]
    BY <2>1
  <2>4. Token(t, p + 1) = ToolTokens(it)[2] /\ Token(t, p + 2) = ToolTokens(it)[3]
    <3>1. 2 \in 1..9 /\ 3 \in 1..9 /\ 2 - 1 = 1 /\ 3 - 1 = 2
      OBVIOUS
    <3> QED
      BY <2>1, <3>1
  <2>5. Token(t, p + 3) = ToolTokens(it)[4] /\ Token(t, p + 4) = ToolTokens(it)[5]
    <3>1. 4 \in 1..9 /\ 5 \in 1..9 /\ 4 - 1 = 3 /\ 5 - 1 = 4
      OBVIOUS
    <3> QED
      BY <2>1, <3>1
  <2>6. Token(t, p + 5) = ToolTokens(it)[6] /\ Token(t, p + 6) = ToolTokens(it)[7]
    <3>1. 6 \in 1..9 /\ 7 \in 1..9 /\ 6 - 1 = 5 /\ 7 - 1 = 6
      OBVIOUS
    <3> QED
      BY <2>1, <3>1
  <2>7. Token(t, p + 7) = ToolTokens(it)[8] /\ Token(t, p + 8) = ToolTokens(it)[9]
    <3>1. 8 \in 1..9 /\ 9 \in 1..9 /\ 8 - 1 = 7 /\ 9 - 1 = 8
      OBVIOUS
    <3> QED
      BY <2>1, <3>1
  <2>8. /\ ToolTokens(it)[1] = Word("tool") /\ ToolTokens(it)[2] = Number(it.seq)
        /\ ToolTokens(it)[3] = Number(it.day) /\ ToolTokens(it)[4] = Word(ToolName)
        /\ ToolTokens(it)[5] = HandleToken(it.region)
        /\ ToolTokens(it)[6] = HandleToken(it.species)
        /\ ToolTokens(it)[7] = Number(IF it.accepted THEN 1 ELSE 0)
        /\ ToolTokens(it)[8] = Number(it.requested)
        /\ ToolTokens(it)[9] = Number(it.applied)
    BY DEF ToolTokens
  <2> QED
    BY <1>9, <2>2, <2>3, <2>4, <2>5, <2>6, <2>7, <2>8 DEF p, it
<1>11. ASSUME NEW i \in 1..n
       PROVE  LET p == Line(at, 10, i)
                  reason == Token(t, p + 9).word
              IN  /\ IsToolRecord(t, p)
                  /\ [seq |-> Token(t, p + 1).number, day |-> Token(t, p + 2).number,
                      region |-> HandleRead(Token(t, p + 4)),
                      species |-> HandleRead(Token(t, p + 5)),
                      accepted |-> Token(t, p + 6).number # 0,
                      requested |-> Token(t, p + 7).number,
                      applied |-> Token(t, p + 8).number,
                      reason |-> IF reason = "-" THEN NoReason ELSE reason] = w.log[i]
  <2> DEFINE p == Line(at, 10, i)
             it == w.log[i]
             one == IF it.accepted THEN 1 ELSE 0
  <2>1. /\ p + 9 <= l
        /\ Token(t, p) = Word("tool") /\ Token(t, p + 1) = Number(it.seq)
        /\ Token(t, p + 2) = Number(it.day) /\ Token(t, p + 3) = Word(ToolName)
        /\ Token(t, p + 4) = HandleToken(it.region)
        /\ Token(t, p + 5) = HandleToken(it.species)
        /\ Token(t, p + 6) = Number(one)
        /\ Token(t, p + 7) = Number(it.requested)
        /\ Token(t, p + 8) = Number(it.applied)
        /\ Token(t, p + 9) = Word("-")
    BY <1>10
  <2>2. it \in CallRecords /\ it.reason = NoReason
    BY <1>4
  <2>3. one \in Int /\ (it.accepted <=> one # 0)
    OBVIOUS
  <2>4. p \in Nat
    BY <1>2 DEF Line
  <2> HIDE DEF p, it, one
  <2>5. /\ it.seq \in Int /\ it.day \in Int /\ it.requested \in Int /\ it.applied \in Int
        /\ it.region \in HandleRecords /\ it.species \in HandleRecords /\ it.accepted \in BOOLEAN
        /\ it = [seq |-> it.seq, day |-> it.day, region |-> it.region, species |-> it.species,
                 accepted |-> it.accepted, requested |-> it.requested, applied |-> it.applied,
                 reason |-> it.reason]
    BY <2>2 DEF CallRecords
  <2>6. /\ HandleToken(it.region).digits /\ HandleRead(HandleToken(it.region)) = it.region
        /\ HandleToken(it.species).digits /\ HandleRead(HandleToken(it.species)) = it.species
    BY <2>5, HandlesAreRead
  <2>7. /\ Number(it.seq).digits /\ Number(it.seq).number = it.seq
        /\ Number(it.day).digits /\ Number(it.day).number = it.day
        /\ Number(one).digits /\ Number(one).number = one
        /\ Number(it.requested).digits /\ Number(it.requested).number = it.requested
        /\ Number(it.applied).digits /\ Number(it.applied).number = it.applied
    BY <2>3, <2>5, TokensAre
  <2>8. Word("-").word = "-"
    BY DEF Word
  <2>9. AreNumbers(t, {p + 1, p + 2} \cup ((p + 4)..(p + 8)))
    <3>1. \A k \in {p + 1, p + 2, p + 4, p + 5, p + 6, p + 7, p + 8} : Token(t, k).digits
      BY <2>1, <2>6, <2>7
    <3>2. {p + 1, p + 2} \cup ((p + 4)..(p + 8))
              \subseteq {p + 1, p + 2, p + 4, p + 5, p + 6, p + 7, p + 8}
      BY <2>4
    <3> QED
      BY <3>1, <3>2 DEF AreNumbers
  <2>10. IsToolRecord(t, p)
    BY <2>1, <2>9 DEF IsToolRecord, IsWord, l
  <2>11. (Token(t, p + 6).number # 0) = it.accepted
    <3>1. Token(t, p + 6).number = one
      BY <2>1, <2>7
    <3> QED
      BY <2>3, <2>5, <3>1
  <2>12. (IF Token(t, p + 9).word = "-" THEN NoReason ELSE Token(t, p + 9).word) = it.reason
    BY <2>1, <2>2, <2>8
  <2>13. /\ Token(t, p + 1).number = it.seq /\ Token(t, p + 2).number = it.day
         /\ HandleRead(Token(t, p + 4)) = it.region /\ HandleRead(Token(t, p + 5)) = it.species
         /\ Token(t, p + 7).number = it.requested /\ Token(t, p + 8).number = it.applied
    BY <2>1, <2>6, <2>7
  <2> QED
    BY <2>5, <2>10, <2>11, <2>12, <2>13, Zenon DEF p, it
<1>12. LoadedTools(t) = w.log
  <2>1. LoadedTools(t) = [i \in 1..n |-> w.log[i]]
    BY <1>2, <1>11 DEF LoadedTools
  <2>2. w.log = [i \in 1..n |-> w.log[i]]
    BY <1>1 DEF WorldRecords, n
  <2> QED
    BY <2>1, <2>2
<1> QED
  BY <1>5, <1>7, <1>8, <1>11, <1>12 DEF t, at

\* A text without rejected calls is sound, and gives back the world.
LEMMA AcceptedAreRead ==
    ASSUME NEW w, IsWorld(w), AllAccepted(w)
    PROVE  IsSound(SaveSnapshot(w)) /\ Loaded(SaveSnapshot(w)) = w
<1> DEFINE t == SaveSnapshot(w)
<1>1. w \in WorldRecords /\ HandlesFit(w)
  BY DEF IsWorld
<1>2. /\ Len(t) \in Nat /\ \A i \in 1..Len(t) : Token(t, i) = t[i]
      /\ Count(t, RegionsAt) = Len(w.regions)
      /\ SpeciesAt(t) = SpeciesStart(w) /\ Count(t, SpeciesStart(w)) = Len(w.species)
      /\ CohortsAt(t) = CohortsStart(w) /\ Count(t, CohortsStart(w)) = Len(w.cohorts)
      /\ ToolsAt(t) = ToolsStart(w) /\ Count(t, ToolsStart(w)) = Len(w.log)
      /\ 4 + 4 * Len(w.regions) <= Len(t) /\ Len(w.regions) \in Nat
  BY <1>1, PlacesAre
<1>3. IsWord(Token(t, 1), "xrsim_snapshot_v1")
  <2>1. t[1] = Word("xrsim_snapshot_v1")
    BY <1>1, SnapshotIs
  <2>2. 1 \in 1..Len(t)
    <3> DEFINE l == Len(t)
               n == Len(w.regions)
    <3>1. l \in Nat /\ n \in Nat /\ 4 + 4 * n <= l
      BY <1>2
    <3> HIDE DEF l, n
    <3>2. 1 \in 1..l
      BY <3>1
    <3> QED
      BY <3>2 DEF l
  <2> HIDE DEF t
  <2> QED
    BY <1>2, <2>1, <2>2 DEF IsWord
<1>4. /\ IsBlock(t, RegionsAt, "regions") /\ LoadedRegions(t) = w.regions
      /\ \A i \in 1..Len(w.regions) : IsRegionRecord(t, Line(RegionsAt, 4, i), i)
  BY <1>1, RegionsAreRead
<1>5. /\ IsBlock(t, SpeciesStart(w), "species") /\ LoadedSpecies(t) = w.species
      /\ \A i \in 1..Len(w.species) : IsSpeciesRecord(t, Line(SpeciesStart(w), 3, i), i)
  BY <1>1, SpeciesAreRead
<1>6. /\ IsBlock(t, CohortsStart(w), "cohorts") /\ LoadedCohorts(t) = w.cohorts
      /\ \A i \in 1..Len(w.cohorts) : IsCohortRecord(t, Line(CohortsStart(w), 4, i))
  BY CohortsAreRead
<1>7. /\ IsBlock(t, ToolsStart(w), "tools") /\ LoadedTools(t) = w.log /\ IsEnded(t)
      /\ \A i \in 1..Len(w.log) : IsToolRecord(t, Line(ToolsStart(w), 10, i))
  BY ToolsAreRead
<1> HIDE DEF t
<1>8. IsSound(t)
  BY <1>2, <1>3, <1>4, <1>5, <1>6, <1>7 DEF IsSound
<1>9. w = [regions |-> w.regions, species |-> w.species, cohorts |-> w.cohorts, log |-> w.log]
  BY <1>1 DEF WorldRecords
<1>10. Loaded(t) = w
  BY <1>4, <1>5, <1>6, <1>7, <1>9 DEF Loaded
<1> QED
  BY <1>8, <1>10 DEF t

\* Restoring what was saved gives that world, or is refused and changes nothing.
THEOREM LoadOfSaved ==
    ASSUME NEW current, NEW w, IsWorld(w)
    PROVE  LET loaded == LoadSnapshot(current, SaveSnapshot(w))
           IN  /\ loaded.ok <=> AllAccepted(w)
               /\ loaded.world = IF AllAccepted(w) THEN w ELSE current
<1> DEFINE t == SaveSnapshot(w)
<1>1. ASSUME IsSound(t) PROVE AllAccepted(w)
  <2>1. Len(t) \in Nat
    <3>1. w \in WorldRecords /\ HandlesFit(w)
      BY DEF IsWorld
    <3> QED
      BY <3>1, PlacesAre
  <2>2. Starts(t, t)
    BY <2>1 DEF Starts
  <2> QED
    BY <1>1, <2>2, BeginningIsWhole
<1>2. AllAccepted(w) => IsSound(t) /\ Loaded(t) = w
  BY AcceptedAreRead
<1> HIDE DEF t
<1>3. Complaint(t) = NoReason <=> AllAccepted(w)
  BY <1>1, <1>2, ComplaintIs
<1>4. /\ LoadSnapshot(current, t).ok <=> AllAccepted(w)
      /\ LoadSnapshot(current, t).world = IF AllAccepted(w) THEN w ELSE current
  BY <1>2, <1>3 DEF LoadSnapshot, Result
<1> QED
  BY <1>4 DEF t

\* A text with a mistake stops the reader.
LEMMA MistakesAreRefused ==
    ASSUME NEW current, NEW p, ~IsSound(p)
    PROVE  ~LoadSnapshot(current, p).ok /\ LoadSnapshot(current, p).world = current
<1>1. Complaint(p) # NoReason
  BY ComplaintIs
<1> QED
  BY <1>1 DEF LoadSnapshot, Result

LEMMA OtherVersionsAreRefused ==
    ASSUME NEW current, NEW w, IsWorld(w), NEW p,
           p = [SaveSnapshot(w) EXCEPT ![1] = Word("xrsim_snapshot_v2")]
    PROVE  ~LoadSnapshot(current, p).ok /\ LoadSnapshot(current, p).world = current
<1> DEFINE t == SaveSnapshot(w)
<1>1. t \in Seq(Tokens)
  <2>1. w \in WorldRecords /\ HandlesFit(w)
    BY DEF IsWorld
  <2> QED
    BY <2>1, PlacesAre
<1> HIDE DEF t
<1>2. Token(p, 1) = Word("xrsim_snapshot_v2") \/ Token(p, 1) = Word("")
  <2>1. p = [t EXCEPT ![1] = Word("xrsim_snapshot_v2")]
    BY DEF t
  <2>2. Len(p) = Len(t) /\ Len(t) \in Nat
    BY <1>1, <2>1
  <2>3. 1 <= Len(p) => p[1] = Word("xrsim_snapshot_v2")
    BY <1>1, <2>1, <2>2
  <2> QED
    BY <2>3 DEF Token
<1>3. Token(p, 1) # Word("xrsim_snapshot_v1")
  <2>1. "xrsim_snapshot_v2" # "xrsim_snapshot_v1" /\ "" # "xrsim_snapshot_v1"
    BY Zenon
  <2> QED
    BY <1>2, <2>1, WordsDiffer
<1>4. ~IsSound(p)
  BY <1>3 DEF IsSound, IsWord
<1> QED
  BY <1>4, MistakesAreRefused

\* A text cut off anywhere, in a line or between two, is refused.
THEOREM CutOffTextsAreRefused ==
    ASSUME NEW current, NEW w, IsWorld(w), NEW n \in 0..(Len(SaveSnapshot(w)) - 1)
    PROVE  LET loaded == LoadSnapshot(current, SubSeq(SaveSnapshot(w), 1, n))
           IN  ~loaded.ok /\ loaded.world = current
<1> DEFINE t == SaveSnapshot(w)
           p == SubSeq(t, 1, n)
<1>1. t \in Seq(Tokens) /\ Len(t) \in Nat
  <2>1. w \in WorldRecords /\ HandlesFit(w)
    BY DEF IsWorld
  <2> QED
    BY <2>1, PlacesAre
<1>2. n \in 0..(Len(t) - 1)
  OBVIOUS
<1>3. Len(p) = n /\ \A i \in 1..n : p[i] = t[i]
  <2> HIDE DEF t
  <2> QED
    BY <1>1, <1>2
<1> HIDE DEF t, p
<1>4. Starts(p, t) /\ Len(p) # Len(t)
  <2> DEFINE l == Len(t)
  <2>1. l \in Nat /\ n \in 0..(l - 1)
    BY <1>1, <1>2
  <2> HIDE DEF l
  <2>2. n \in 0..l /\ n # l
    BY <2>1
  <2> QED
    BY <1>3, <2>2 DEF Starts, l
<1>5. ~IsSound(p)
  BY <1>4, BeginningIsWhole DEF t
<1>6. ~LoadSnapshot(current, p).ok /\ LoadSnapshot(current, p).world = current
  BY <1>5, MistakesAreRefused
<1> QED
  BY <1>6 DEF p, t

LEMMA RegionsOutOfPlaceAreRefused ==
    ASSUME NEW current, NEW w, IsWorld(w), w.regions # <<>>, NEW gen \in Nat, NEW p,
           p = [SaveSnapshot(w) EXCEPT ![RegionsAt + 3] = HandleToken(Handle(2, gen))]
    PROVE  ~LoadSnapshot(current, p).ok /\ LoadSnapshot(current, p).world = current
<1> DEFINE t == SaveSnapshot(w)
           nr == Len(w.regions)
           l == Len(t)
           h == Handle(2, gen)
<1>1. w \in WorldRecords /\ HandlesFit(w)
  BY DEF IsWorld
<1>2. t \in Seq(Tokens) /\ l \in Nat /\ nr \in Nat /\ 4 + 4 * nr <= l
  BY <1>1, PlacesAre
<1>3. t[3] = Number(nr)
  BY <1>1, SnapshotIs
<1>4. nr # 0
  <2>1. w.regions \in Seq(RegionRecords)
    BY <1>1 DEF WorldRecords
  <2> QED
    BY <2>1, EmptySeq
<1>5. h \in HandleRecords /\ h.index = 2
  BY DEF HandleRecords, Handle, IndexSpan
<1>6. p = [t EXCEPT ![5] = HandleToken(h)]
  <2>1. RegionsAt + 3 = 5
    BY DEF RegionsAt
  <2> QED
    BY <2>1
<1> HIDE DEF t, h
<1>7. Len(p) = l /\ DOMAIN p = 1..l /\ DOMAIN t = 1..l
  BY <1>2, <1>6
<1> HIDE DEF nr, l
<1>8. 3 \in 1..l /\ 5 \in 1..l
  BY <1>2, <1>4
<1>9. Token(p, 3) = Number(nr) /\ Token(p, 5) = HandleToken(h)
  <2>1. p[3] = t[3] /\ p[5] = HandleToken(h)
    BY <1>6, <1>7, <1>8
  <2>2. Token(p, 3) = p[3] /\ Token(p, 5) = p[5]
    <3>1. 3 <= l /\ 5 <= l
      BY <1>2, <1>8
    <3>2. 3 <= Len(p) /\ 5 <= Len(p)
      BY <1>7, <3>1
    <3> QED
      BY <3>2 DEF Token
  <2> QED
    BY <1>3, <2>1, <2>2
<1>10. Count(p, RegionsAt) = nr /\ 1 \in 1..nr
  <2>1. Number(nr).number = nr
    BY <1>2, TokensAre
  <2>2. Count(p, RegionsAt) = Token(p, 3).number
    <3>1. RegionsAt + 1 = 3
      BY DEF RegionsAt
    <3> QED
      BY <3>1 DEF Count
  <2> QED
    BY <1>2, <1>4, <1>9, <2>1, <2>2
<1>11. ~IsRegionRecord(p, Line(RegionsAt, 4, 1), 1)
  <2>1. Line(RegionsAt, 4, 1) + 1 = 5
    BY DEF Line, RegionsAt
  <2>2. HandleRead(HandleToken(h)) = h
    BY <1>5, HandlesAreRead
  <2> QED
    BY <1>5, <1>9, <2>1, <2>2 DEF IsRegionRecord
<1>12. ~IsSound(p)
  BY <1>10, <1>11 DEF IsSound
<1> QED
  BY <1>12, MistakesAreRefused
=============================================================================
