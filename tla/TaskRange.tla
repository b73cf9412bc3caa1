----------------------------- MODULE TaskRange -----------------------------
(***************************************************************************)
(* TaskRange and the functor of xr_parallel_for (ParallelFor.hpp): a range *)
(* of indices that halves itself into tasks until no piece is larger than  *)
(* the grain.  The indices of loop l are 0..LoopSize[l]-1.                 *)
(***************************************************************************)
EXTENDS Integers

CONSTANTS
    Loops,      \* names of the parallel loops
    LoopSize    \* how many indices each of them has

ASSUME LoopSizeAssumption == LoopSize \in [Loops -> Nat]

Ranges == [loop : Loops, first : Nat, last : Nat, grain : Nat \ {0}]

SizeOf(r) == r.last - r.first
Indices(r) == r.first..(r.last - 1)

\* The grain of a loop started while the scheduler has n workers.
GrainOf(l, n) == IF LoopSize[l] < n THEN 1 ELSE LoopSize[l] \div n
WholeRange(l, n) ==
    [loop |-> l, first |-> 0, last |-> LoopSize[l], grain |-> GrainOf(l, n)]

IsSplittable(r) == r.grain < SizeOf(r)

Middle(r) == r.first + SizeOf(r) \div 2
\* TaskRange(other, SplitTaskRange()) takes the first half and leaves the
\* second to other.
LeftOf(r) == [r EXCEPT !.last = Middle(r)]
RightOf(r) == [r EXCEPT !.first = Middle(r)]
=============================================================================
