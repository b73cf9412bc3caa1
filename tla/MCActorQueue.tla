---------------------------- MODULE MCActorQueue ----------------------------
(* A queue that is given three wakes with two different contexts.          *)
EXTENDS ActorQueue
=============================================================================
