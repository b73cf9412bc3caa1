--------------------------- MODULE MCWorldHistory ---------------------------
(* Small worlds: one region whose tenth is 2 or nothing at all (a negative *)
(* capacity counts as 0), two species, requests below, at and above what a *)
(* call may move, populations next to both ends; names that one reading    *)
(* with >> brings back and names that it does not.                         *)
EXTENDS WorldHistory

MCCapacities == {-1, 24}
MCCounts == {-1, 1, 23}
MCDeltas == {-4, 1}

MCGarbage == {OneWord("garbage")}
MCDog == {OneWord("dog")}

\* An empty name, "dog", "blind dog" and " dog".
MCNames == {EmptyName, OneWord("dog"),
            [tokens |-> <<Word("blind"), Word("dog")>>, padded |-> FALSE],
            [tokens |-> <<Word("dog")>>, padded |-> TRUE]}

MCRegionNames == {OneWord("garbage"), EmptyName}

\* Bound: a world with a name that does not come back has one capacity, one
\* population and one call.
MCOddNamesOneWay ==
    \/ HasReadableNames(world) /\ HasReadableNames(baseline)
    \/ /\ \A i \in DOMAIN world.regions : world.regions[i].cap = 24
       /\ \A i \in DOMAIN baseline.cohorts : baseline.cohorts[i].count = 23
       /\ phase = "setup" =>
              \A i \in DOMAIN world.cohorts : world.cohorts[i].count = 23
       /\ Len(world.log) <= 1
       /\ \A i \in DOMAIN world.log : world.log[i].requested = -4

\* What a later call can depend on: not what the last one was.
Life == <<world, baseline, saved, phase>>
=============================================================================
