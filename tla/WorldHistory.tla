---------------------------- MODULE WorldHistory ----------------------------
(***************************************************************************)
(* A WorldState object over its life: it is set up (regions, species and   *)
(* first populations, none of it logged), then changed by tool calls on    *)
(* handles good and bad, saved, and restored from what was saved or from   *)
(* a damaged copy of it.                                                   *)
(***************************************************************************)
EXTENDS WorldState

CONSTANTS
    RegionNames, SpeciesNames,
    Capacities,        \* the carrying capacities a region is created with
    Counts,            \* the populations it is set up with
    Deltas,            \* the changes a tool call asks for
    MaxLog,            \* bound: tool calls on one world
    MaxRegions,        \* bound: regions of one world
    MaxSpecies         \* bound: species of one world

\* The words of a name: none of them looks like a number.
Words == [digits : {FALSE}, word : STRING, number : {0}]

ASSUME HistoryAssumption ==
    /\ RegionNames \cup SpeciesNames \subseteq [tokens : Seq(Words), padded : BOOLEAN]
    /\ Capacities \subseteq Int /\ Counts \subseteq Int /\ Deltas \subseteq Int
    /\ MaxLog \in Nat /\ MaxRegions \in 0..(IndexSpan - 1) /\ MaxSpecies \in 0..(IndexSpan - 1)

VARIABLES
    world,
    baseline,     \* history: the world when setting up ended
    saved,        \* the last snapshot, <<>> when there is none
    phase,        \* "setup" or "running"
    last          \* history: the last call on the world, with its Result

vars == <<world, baseline, saved, phase, last>>

Handles(max) == {Handle(i, FirstGeneration) : i \in 1..max} \cup {Invalid}
RegionHandles == Handles(MaxRegions)
SpeciesHandles == Handles(MaxSpecies)

Called(op, r, s, delta, result) ==
    [op |-> op, region |-> r, species |-> s, delta |-> delta, ok |-> result.ok]
CalledOther(op, ok) == Called(op, Invalid, Invalid, 0, [ok |-> ok])

Init ==
    /\ world = EmptyWorld
    /\ baseline = EmptyWorld
    /\ saved = <<>>
    /\ phase = "setup"
    /\ last = CalledOther("none", TRUE)

Create ==
    /\ phase = "setup"
    /\ \/ \E name \in RegionNames, cap \in Capacities :
              /\ Len(world.regions) < MaxRegions
              /\ world' = CreateRegion(world, name, cap)
       \/ \E name \in SpeciesNames :
              /\ Len(world.species) < MaxSpecies
              /\ world' = CreateSpecies(world, name)
    /\ last' = CalledOther("none", TRUE)
    /\ UNCHANGED <<baseline, saved, phase>>

Populate(r, s, count) ==
    /\ phase = "setup"
    /\ LET result == SetPopulation(world, r, s, count)
       IN  /\ world' = result.world
           /\ last' = CalledOther("populate", result.ok)
    /\ UNCHANGED <<baseline, saved, phase>>

StartRunning ==
    /\ phase = "setup"
    /\ world.regions # <<>> /\ world.species # <<>>
    /\ phase' = "running"
    /\ baseline' = world
    /\ last' = CalledOther("none", TRUE)
    /\ UNCHANGED <<world, saved>>

Adjust(r, s, delta) ==
    /\ phase = "running"
    /\ Len(world.log) < MaxLog
    /\ LET result == ApplyAdjustPopulation(world, Len(world.log) + 1, r, s, delta, 0)
       IN  /\ world' = result.world
           /\ last' = Called("adjust", r, s, delta, result)
    /\ UNCHANGED <<baseline, saved, phase>>

Save ==
    /\ phase = "running"
    /\ saved' = <<SaveSnapshot(world)>>
    /\ last' = CalledOther("save", TRUE)
    /\ UNCHANGED <<world, baseline, phase>>

\* Copies of a text that are not what was saved: another version, a region out
\* of place, the last token lost (CutOffIsRefused is about the other cuts).
Damaged(text) ==
    {[text EXCEPT ![1] = Word("xrsim_snapshot_v2")],
     [text EXCEPT ![RegionsAt + 3] = HandleToken(Handle(2, FirstGeneration))],
     SubSeq(text, 1, Len(text) - 1)}

Restore(text) ==
    /\ phase = "running"
    /\ \E result \in {LoadSnapshot(world, text)} :
           /\ world' = result.world
           /\ last' = CalledOther("restore", result.ok)
    /\ UNCHANGED <<baseline, saved, phase>>

Next ==
    \/ Create
    \/ \E r \in RegionHandles, s \in SpeciesHandles, count \in Counts : Populate(r, s, count)
    \/ StartRunning
    \/ \E r \in RegionHandles, s \in SpeciesHandles, delta \in Deltas : Adjust(r, s, delta)
    \/ Save
    \/ \E i \in DOMAIN saved :
           \/ Restore(saved[i])
           \/ \E text \in Damaged(saved[i]) : Restore(text)

Spec == Init /\ [][Next]_vars

-----------------------------------------------------------------------------
(* Properties.                                                             *)

\* The lists hold records of the right shape and every count is a number
\* between nothing and the capacity of its region, which exists.
TypeOK ==
    /\ phase \in {"setup", "running"}
    /\ Len(world.regions) \in 0..MaxRegions
    /\ Len(world.species) \in 0..MaxSpecies
    /\ Len(world.log) \in 0..MaxLog
    /\ \A i \in DOMAIN world.cohorts :
           /\ HasRegion(world, world.cohorts[i].region)
           /\ HasSpecies(world, world.cohorts[i].species)
           /\ world.cohorts[i].count \in
                  0..world.regions[world.cohorts[i].region.index].cap

AppliedTo(log, r, s) ==
    LET Its(i) == IF log[i].region = r /\ log[i].species = s THEN log[i].applied ELSE 0
        total[i \in 0..Len(log)] == IF i = 0 THEN 0 ELSE total[i - 1] + Its(i)
    IN  total[Len(log)]

\* The log is a full account of the population: what a pair had at the
\* baseline plus the applied deltas logged for it is what it has now.
LogAccountsForPopulation ==
    phase = "running" =>
        \A r \in RegionHandles, s \in SpeciesHandles :
            Population(world, r, s)
                = Population(baseline, r, s) + AppliedTo(world.log, r, s)

\* One reading with >> brings such a name back.
IsReadable(name) == Len(name.tokens) = 1 /\ ~name.padded
HasReadableNames(w) ==
    /\ \A i \in DOMAIN w.regions : IsReadable(w.regions[i].name)
    /\ \A i \in DOMAIN w.species : IsReadable(w.species[i].name)

\* Replaying the log on the baseline gives the recorded world, whatever was
\* saved and restored: every call has the recorded outcome and the digests
\* agree, unless a snapshot could change a name.
ReplayReproduces ==
    phase = "running" /\ HasReadableNames(baseline) =>
        LET replay == ReplayToolLogFrom(baseline, world)
        IN  replay.ok /\ Digest(replay.world) = Digest(world)

\* A replay on a baseline with another population is always found out: limits
\* and clamps may bring the two together, but then some applied delta differs.
ReplayDetectsDivergence ==
    phase = "running" =>
        \A i \in DOMAIN baseline.cohorts :
            LET cohort == baseline.cohorts[i]
                cap == baseline.regions[cohort.region.index].cap
            IN  \A count \in {ClampPopulation(c, cap) : c \in Counts} \ {cohort.count} :
                    ~ReplayToolLogFrom([baseline EXCEPT !.cohorts[i].count = count],
                                       world).ok

\* "snapshot round trip preserves digest" (xrSimWorldStateTests.cpp:240) holds
\* for exactly the worlds whose names are single words and whose calls were
\* all accepted: saving and loading such a world gives it back, and no other
\* world comes back from what SaveSnapshot wrote of it.
RoundTripOfReadable ==
    LET loaded == LoadSnapshot(EmptyWorld, SaveSnapshot(world))
        readable == /\ HasReadableNames(world)
                    /\ \A i \in DOMAIN world.log : world.log[i].accepted
    IN  readable <=> loaded.ok /\ loaded.world = world

\* A snapshot that was cut off anywhere is refused, whatever the world was when
\* it was taken: no beginning of a text passes for a whole one, in step or out
\* of step.
CutOffIsRefused ==
    \A i \in DOMAIN saved :
        saved[i] = SaveSnapshot(world) =>
            \A n \in 0..(Len(saved[i]) - 1) :
                ~LoadSnapshot(world, SubSeq(saved[i], 1, n)).ok

\* The same claim for every world: what SaveSnapshot writes can be loaded.
RoundTrip ==
    LET loaded == LoadSnapshot(EmptyWorld, SaveSnapshot(world))
    IN  loaded.ok /\ loaded.world = world

\* A call never moves more than a tenth of the capacity (or one), and never
\* against the direction it was asked for, whatever was clamped in between.
\* Populations and capacities here are such that their sum is an int32_t.
CallsAreLimited ==
    [][last'.op = "adjust" /\ last'.ok =>
          LET r == last'.region
              s == last'.species
              moved == Population(world', r, s) - Population(world, r, s)
              cap == world.regions[r.index].cap
          IN  /\ moved * 10 <= cap \/ moved <= 1
              /\ -moved * 10 <= cap \/ moved >= -1
              /\ last'.delta >= 0 => moved >= 0
              /\ last'.delta <= 0 => moved <= 0
      ]_vars
=============================================================================
