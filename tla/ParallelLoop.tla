---------------------------- MODULE ParallelLoop ----------------------------
(***************************************************************************)
(* What xr_parallel_for promises, whoever runs its pieces and in whatever  *)
(* order: the function is run on every index of the loop exactly once, in  *)
(* pieces no larger than the grain and no smaller than half of it.         *)
(***************************************************************************)
EXTENDS TaskRange

CONSTANT Loop       \* the loop

VARIABLES
    waiting,        \* the pieces that have not been begun
    begun,          \* has the loop been started
    runs            \* how often the function was run on each index

loopVars == <<waiting, begun, runs>>

LoopIndices == 0..(LoopSize[Loop] - 1)

LoopInit ==
    /\ waiting = {}
    /\ begun = FALSE
    /\ runs = [i \in LoopIndices |-> 0]

\* The grain depends on how many workers there are at that moment; any number
\* above that of the indices makes the same one.
Start ==
    /\ ~begun
    /\ \E n \in 1..(LoopSize[Loop] + 1) : waiting' = {WholeRange(Loop, n)}
    /\ begun' = TRUE
    /\ UNCHANGED runs

Split(r) ==
    /\ IsSplittable(r)
    /\ waiting' = (waiting \ {r}) \cup {LeftOf(r), RightOf(r)}
    /\ UNCHANGED <<begun, runs>>

Run(r) ==
    /\ ~IsSplittable(r)
    /\ waiting' = waiting \ {r}
    /\ runs' = [i \in LoopIndices |-> IF i \in Indices(r) THEN runs[i] + 1 ELSE runs[i]]
    /\ UNCHANGED begun

LoopNext == Start \/ \E r \in waiting : Split(r) \/ Run(r)

LoopSpec == LoopInit /\ [][LoopNext]_loopVars

-----------------------------------------------------------------------------
\* No index is run twice, and when no piece is left every index has been run.
EachIndexOnce ==
    /\ \A i \in LoopIndices : runs[i] \in {0, 1}
    /\ begun /\ waiting = {} => \A i \in LoopIndices : runs[i] = 1

\* A piece is the whole loop or at least half a grain: the number of tasks
\* that a loop floods the queues with is bounded.
PiecesAreWorthATask ==
    \A r \in waiting : SizeOf(r) = LoopSize[Loop] \/ 2 * SizeOf(r) >= r.grain

\* The pieces lie within the loop and do not overlap, and an index has been run
\* exactly if no piece still holds it.
PiecesAreInLoop ==
    \A r \in waiting :
        /\ r \in Ranges
        /\ r.loop = Loop
        /\ r.first <= r.last
        /\ r.last <= LoopSize[Loop]
        /\ r.first = r.last => LoopSize[Loop] = 0
PiecesAreDisjoint ==
    \A r, s \in waiting : r # s => r.last <= s.first \/ s.last <= r.first
RunsAreDone ==
    \A i \in LoopIndices :
        runs[i] = IF ~begun \/ \E r \in waiting : i \in Indices(r) THEN 0 ELSE 1

LoopInv ==
    /\ runs \in [LoopIndices -> Nat]
    /\ begun \in BOOLEAN
    /\ begun \/ waiting = {}
    /\ PiecesAreInLoop
    /\ PiecesAreDisjoint
    /\ RunsAreDone
    /\ PiecesAreWorthATask
=============================================================================
