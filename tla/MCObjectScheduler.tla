------------------------ MODULE MCObjectScheduler ------------------------
(* Three things, so that a realtime one may leave with two behind it. *)
EXTENDS ObjectScheduler, TLC

CONSTANTS a, b, c

MCThings == {a, b, c}
MCSymmetry == Permutations(MCThings)
=============================================================================
