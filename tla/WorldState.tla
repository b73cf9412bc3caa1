----------------------------- MODULE WorldState -----------------------------
(***************************************************************************)
(* xrSim's coarse world (xrSimWorldState.cpp) as operators on a record: a  *)
(* list of regions with a carrying capacity, a list of species, the cohort *)
(* of each (region, species) pair that was ever touched, and the tool log. *)
(* Each operator that stands for a method returns the new world with the   *)
(* Result the method returns.                                              *)
(***************************************************************************)
EXTENDS Integers, Sequences, SequencesExt

CONSTANT IntMax       \* the largest int32_t, scaled down

ASSUME IntMaxAssumption == IntMax \in Nat \ {0}

\* int32_t arithmetic: a sum out of range wraps around in the build.
Wrap(x) == ((x + IntMax + 1) % (2 * IntMax + 2)) - IntMax - 1

\* A handle is an index with a generation; indices start at 1 here.
Handle(i, gen) == [index |-> i, gen |-> gen]
Invalid == Handle(0, 255)
FirstGeneration == 1

-----------------------------------------------------------------------------
(* Text.  A token is a word or a number.  A name is the words it is        *)
(* printed as, none if it is empty, more than one if it has white space,   *)
(* and padded if there is white space at its ends, which no reader sees.   *)

Word(word) == [digits |-> FALSE, word |-> word, number |-> 0]
Number(n) == [digits |-> TRUE, word |-> "", number |-> n]

EmptyName == [tokens |-> <<>>, padded |-> FALSE]
OneWord(word) == [tokens |-> <<Word(word)>>, padded |-> FALSE]
NameRead(token) == [tokens |-> <<token>>, padded |-> FALSE]

\* The 2^24 of the code scaled down: a handle is one number in the text.
IndexSpan == 256
HandleToken(h) == Number(h.gen * IndexSpan + h.index)
HandleRead(token) == Handle(token.number % IndexSpan, token.number \div IndexSpan)

EmptyWorld == [regions |-> <<>>, species |-> <<>>, cohorts |-> <<>>, log |-> <<>>]

-----------------------------------------------------------------------------
(* Look-ups.                                                               *)

NotNegative(cap) == IF cap < 0 THEN 0 ELSE cap

ClampPopulation(value, cap) ==
    IF value < 0 THEN 0 ELSE IF value > cap THEN cap ELSE value

HasRegion(w, h) == /\ h.index \in 1..Len(w.regions)
                   /\ w.regions[h.index].gen = h.gen
HasSpecies(w, h) == /\ h.index \in 1..Len(w.species)
                    /\ w.species[h.index].gen = h.gen

\* The first entry of a name, Invalid if there is none.
FindByName(entries, name) ==
    LET i == SelectInSeq(entries, LAMBDA e : e.name = name)
    IN  IF i = 0 THEN Invalid ELSE Handle(i, entries[i].gen)
FindRegionByName(w, name) == FindByName(w.regions, name)
FindSpeciesByName(w, name) == FindByName(w.species, name)

FindCohort(w, r, s) ==
    SelectInSeq(w.cohorts, LAMBDA c : c.region = r /\ c.species = s)

Population(w, r, s) ==
    LET i == FindCohort(w, r, s) IN IF i = 0 THEN 0 ELSE w.cohorts[i].count

-----------------------------------------------------------------------------
(* Mutations.                                                              *)

CreateRegion(w, name, cap) ==
    [w EXCEPT !.regions =
        Append(@, [name |-> name, gen |-> FirstGeneration, cap |-> NotNegative(cap)])]

CreateSpecies(w, name) ==
    [w EXCEPT !.species = Append(@, [name |-> name, gen |-> FirstGeneration])]

\* The world with a cohort for the pair, added with nobody in it if need be.
WithCohort(w, r, s) ==
    IF FindCohort(w, r, s) # 0 THEN w
    ELSE [w EXCEPT !.cohorts = Append(@, [region |-> r, species |-> s, count |-> 0])]

WithCount(w, r, s, count) ==
    LET v == WithCohort(w, r, s)
    IN  [v EXCEPT !.cohorts[FindCohort(v, r, s)].count = count]

\* No reason was given: the empty string.
NoReason == ""

Result(w, ok, applied, reason) ==
    [world |-> w, ok |-> ok, applied |-> applied, reason |-> reason]

\* NoReason or the reason why a tool call on these handles is rejected.
Refusal(w, r, s) ==
    CASE ~HasRegion(w, r) -> "unknown_region"
      [] HasRegion(w, r) /\ ~HasSpecies(w, s) -> "unknown_species"
      [] OTHER -> NoReason

SetPopulation(w, r, s, count) ==
    IF Refusal(w, r, s) # NoReason THEN Result(w, FALSE, 0, Refusal(w, r, s))
    ELSE Result(WithCount(w, r, s, ClampPopulation(count, w.regions[r.index].cap)),
                TRUE, 0, NoReason)

\* MUTANT: a large request is not cut down.
Unlimited(delta, cap) == delta
\* A call moves a tenth of the capacity at most, and may always move one.
RateLimited(delta, cap) ==
    LET limit == IF cap \div 10 > 1 THEN cap \div 10 ELSE 1
    IN  IF delta > limit THEN limit ELSE IF delta < -limit THEN -limit ELSE delta

\* MUTANT: the log records the limited request, not what changed.
AppliedRequest(next, old, limited) == limited
AppliedDelta(next, old, limited) == next - old

LogAll(log, record) == Append(log, record)

ApplyAdjustPopulation(w, seq, r, s, delta, day) ==
    LET why == Refusal(w, r, s)
        cap == w.regions[r.index].cap
        old == Population(w, r, s)
        limited == RateLimited(delta, cap)
        next == ClampPopulation(Wrap(old + limited), cap)
        applied == IF why = NoReason THEN AppliedDelta(next, old, limited) ELSE 0
        record == [seq |-> seq, day |-> day, region |-> r, species |-> s,
                   accepted |-> why = NoReason, requested |-> delta, applied |-> applied,
                   reason |-> why]
        changed == IF why = NoReason THEN WithCount(w, r, s, next) ELSE w
    IN  Result([changed EXCEPT !.log = LogAll(@, record)], why = NoReason, applied, why)

-----------------------------------------------------------------------------
(* The digest: the sizes, and the named population of every cohort.        *)

NameOf(entries, known, h) == IF known THEN entries[h.index].name ELSE OneWord("?")

Digest(w) ==
    [regions |-> Len(w.regions), species |-> Len(w.species), log |-> Len(w.log),
     pop |-> [i \in DOMAIN w.cohorts |->
                LET c == w.cohorts[i]
                IN  <<NameOf(w.regions, HasRegion(w, c.region), c.region),
                      NameOf(w.species, HasSpecies(w, c.species), c.species),
                      c.count>>]]

-----------------------------------------------------------------------------
(* Snapshots.  The text is printed word by word and number by number, with *)
(* white space in between, and read back with >>, which takes the next     *)
(* token wherever the line ends.  Tag, count and width of a line say where *)
(* the reader is; it is out of step after a field that was not one token.  *)

ToolName == "adjust_population"

ReasonTokens(reason) ==
    CASE reason = "unknown_region" -> <<Word("unknown"), Word("region")>>
      [] reason = "unknown_species" -> <<Word("unknown"), Word("species")>>
      [] OTHER -> <<Word("-")>>

RegionLine(w, i) ==
    <<Word("region"), HandleToken(Handle(i, w.regions[i].gen)), Number(w.regions[i].cap)>>
        \o w.regions[i].name.tokens
SpeciesLine(w, i) ==
    <<Word("species"), HandleToken(Handle(i, w.species[i].gen))>> \o w.species[i].name.tokens
CohortLine(w, i) ==
    <<Word("cohort"), HandleToken(w.cohorts[i].region), HandleToken(w.cohorts[i].species),
      Number(w.cohorts[i].count)>>
ToolLine(w, i) ==
    LET record == w.log[i]
    IN  <<Word("tool"), Number(record.seq), Number(record.day), Word(ToolName),
          HandleToken(record.region), HandleToken(record.species),
          Number(IF record.accepted THEN 1 ELSE 0), Number(record.requested),
          Number(record.applied)>>
            \o ReasonTokens(record.reason)

Block(tag, lines) == <<Word(tag), Number(Len(lines))>> \o FlattenSeq(lines)

RegionBlock(w) == Block("regions", [i \in 1..Len(w.regions) |-> RegionLine(w, i)])
SpeciesBlock(w) == Block("species", [i \in 1..Len(w.species) |-> SpeciesLine(w, i)])
CohortBlock(w) == Block("cohorts", [i \in 1..Len(w.cohorts) |-> CohortLine(w, i)])
ToolBlock(w) == Block("tools", [i \in 1..Len(w.log) |-> ToolLine(w, i)])

SaveSnapshot(w) ==
    <<Word("xrsim_snapshot_v1")>> \o (RegionBlock(w) \o (SpeciesBlock(w)
        \o (CohortBlock(w) \o (ToolBlock(w) \o <<Word("end")>>))))

\* The token the reader finds at a place; none is left after the end.
Token(text, i) == IF i <= Len(text) THEN text[i] ELSE Word("")

\* A block at p has its tag and the number of its lines, then the lines.
Count(text, p) == Token(text, p + 1).number
Line(p, width, i) == p + 2 + width * (i - 1)
RegionsAt == 2
SpeciesAt(text) == RegionsAt + 2 + 4 * Count(text, RegionsAt)
CohortsAt(text) == LET at == SpeciesAt(text) IN at + 2 + 3 * Count(text, at)
ToolsAt(text) == LET at == CohortsAt(text) IN at + 2 + 4 * Count(text, at)
EndAt(text) == LET at == ToolsAt(text) IN at + 2 + 10 * Count(text, at)

\* MUTANT: the generations of the snapshot are dropped.
FreshRegions(text) ==
    [i \in 1..Count(text, RegionsAt) |->
        [name |-> NameRead(Token(text, Line(RegionsAt, 4, i) + 3)), gen |-> 0,
         cap |-> NotNegative(Token(text, Line(RegionsAt, 4, i) + 2).number)]]
LoadedRegions(text) ==
    [i \in 1..Count(text, RegionsAt) |->
        [name |-> NameRead(Token(text, Line(RegionsAt, 4, i) + 3)),
         gen |-> HandleRead(Token(text, Line(RegionsAt, 4, i) + 1)).gen,
         cap |-> NotNegative(Token(text, Line(RegionsAt, 4, i) + 2).number)]]

LoadedSpecies(text) ==
    [i \in 1..Count(text, SpeciesAt(text)) |->
        LET p == Line(SpeciesAt(text), 3, i)
        IN  [name |-> NameRead(Token(text, p + 2)), gen |-> HandleRead(Token(text, p + 1)).gen]]

LoadedCohorts(text) ==
    [i \in 1..Count(text, CohortsAt(text)) |->
        LET p == Line(CohortsAt(text), 4, i)
        IN  [region |-> HandleRead(Token(text, p + 1)), species |-> HandleRead(Token(text, p + 2)),
             count |-> Token(text, p + 3).number]]

LoadedTools(text) ==
    [i \in 1..Count(text, ToolsAt(text)) |->
        LET p == Line(ToolsAt(text), 10, i)
            reason == Token(text, p + 9).word
        IN  [seq |-> Token(text, p + 1).number, day |-> Token(text, p + 2).number,
             region |-> HandleRead(Token(text, p + 4)), species |-> HandleRead(Token(text, p + 5)),
             accepted |-> Token(text, p + 6).number # 0,
             requested |-> Token(text, p + 7).number, applied |-> Token(text, p + 8).number,
             reason |-> IF reason = "-" THEN NoReason ELSE reason]]

\* What LoadSnapshot has built when it reaches the end of the text.
Loaded(text) ==
    [regions |-> LoadedRegions(text), species |-> LoadedSpecies(text),
     cohorts |-> LoadedCohorts(text), log |-> LoadedTools(text)]

IsWord(token, word) == token = Word(word)
AreNumbers(text, places) == \A i \in places : Token(text, i).digits
IsBlock(text, p, tag) == IsWord(Token(text, p), tag) /\ AreNumbers(text, {p + 1})

IsRegionRecord(text, p, i) ==
    /\ IsWord(Token(text, p), "region") /\ AreNumbers(text, {p + 1, p + 2})
    /\ p + 3 <= Len(text)
    /\ HandleRead(Token(text, p + 1)).index = i
IsSpeciesRecord(text, p, i) ==
    /\ IsWord(Token(text, p), "species") /\ AreNumbers(text, {p + 1})
    /\ p + 2 <= Len(text)
    /\ HandleRead(Token(text, p + 1)).index = i
IsCohortRecord(text, p) ==
    /\ IsWord(Token(text, p), "cohort") /\ AreNumbers(text, {p + 1, p + 2, p + 3})
    /\ Refusal([regions |-> LoadedRegions(text), species |-> LoadedSpecies(text)],
               HandleRead(Token(text, p + 1)), HandleRead(Token(text, p + 2))) = NoReason
IsToolRecord(text, p) ==
    /\ IsWord(Token(text, p), "tool") /\ IsWord(Token(text, p + 3), ToolName)
    /\ AreNumbers(text, {p + 1, p + 2} \cup ((p + 4)..(p + 8)))
    /\ p + 9 <= Len(text)

\* MUTANT: the text may stop after the last block.
EndNotChecked(text) == TRUE
IsEnded(text) == IsWord(Token(text, EndAt(text)), "end")

\* What the reader says of the first mistake, NoReason if there is none.
Complaint(text) ==
    IF ~IsWord(Token(text, 1), "xrsim_snapshot_v1") THEN "unsupported_snapshot_version"
    ELSE IF ~IsBlock(text, RegionsAt, "regions") THEN "missing_regions_block"
    ELSE IF \E i \in 1..Count(text, RegionsAt) : ~IsRegionRecord(text, Line(RegionsAt, 4, i), i)
         THEN "invalid_region_record"
    ELSE IF ~IsBlock(text, SpeciesAt(text), "species") THEN "missing_species_block"
    ELSE IF \E i \in 1..Count(text, SpeciesAt(text)) :
                ~IsSpeciesRecord(text, Line(SpeciesAt(text), 3, i), i)
         THEN "invalid_species_record"
    ELSE IF ~IsBlock(text, CohortsAt(text), "cohorts") THEN "missing_cohorts_block"
    ELSE IF \E i \in 1..Count(text, CohortsAt(text)) :
                ~IsCohortRecord(text, Line(CohortsAt(text), 4, i))
         THEN "invalid_cohort_record"
    ELSE IF ~IsBlock(text, ToolsAt(text), "tools") THEN "missing_tools_block"
    ELSE IF \E i \in 1..Count(text, ToolsAt(text)) :
                ~IsToolRecord(text, Line(ToolsAt(text), 10, i))
         THEN "invalid_tool_record"
    ELSE IF ~IsEnded(text) THEN "missing_snapshot_end"
    ELSE NoReason

LoadSnapshot(w, text) ==
    LET complaint == Complaint(text)
    IN  Result(IF complaint = NoReason THEN Loaded(text) ELSE w, complaint = NoReason, 0, complaint)

-----------------------------------------------------------------------------
(* Replay: every recorded call again, stopping at the first difference,    *)
(* and the digests compared at the end.                                    *)

\* MUTANT: only the verdicts are compared, not what was applied.
ReplayVerdict(sofar, expected) ==
    IF ~sofar.ok THEN sofar
    ELSE LET actual == ApplyAdjustPopulation(sofar.world, expected.seq, expected.region,
                           expected.species, expected.requested, expected.day)
             same == actual.ok = expected.accepted
         IN  Result(actual.world, same, actual.applied,
                    IF same THEN NoReason ELSE "replay_mismatch")
ReplayStep(sofar, expected) ==
    IF ~sofar.ok THEN sofar
    ELSE LET actual == ApplyAdjustPopulation(sofar.world, expected.seq, expected.region,
                           expected.species, expected.requested, expected.day)
             same == actual.ok = expected.accepted /\ actual.applied = expected.applied
         IN  Result(actual.world, same, actual.applied,
                    IF same THEN NoReason ELSE "replay_mismatch")

Replayed(w, log) ==
    LET after[i \in 0..Len(log)] ==
            IF i = 0 THEN Result(w, TRUE, 0, NoReason) ELSE ReplayStep(after[i - 1], log[i])
    IN  after[Len(log)]

ReplayToolLogFrom(w, recorded) ==
    LET replayed == Replayed(w, recorded.log)
    IN  IF ~replayed.ok \/ Digest(replayed.world) = Digest(recorded) THEN replayed
        ELSE Result(replayed.world, FALSE, 0, "replay_mismatch_digest")
=============================================================================
