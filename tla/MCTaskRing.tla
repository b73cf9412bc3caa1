----------------------------- MODULE MCTaskRing -----------------------------
(* A ring of four slots, its owner and two thieves, six tasks.             *)
EXTENDS TaskRing
=============================================================================
