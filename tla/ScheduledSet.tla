---------------------------- MODULE ScheduledSet ----------------------------
(***************************************************************************)
(* What a scheduler of objects promises to their owners, who register and  *)
(* take off their objects whenever they like, in the middle of an update   *)
(* as well: one update runs at a time, and it is one of an object that is  *)
(* registered and that nobody is about to destroy.                         *)
(***************************************************************************)
CONSTANTS Things, None

VARIABLES
    registered,
    doomed,       \* the things that are about to be destroyed, or not yet made
    updating      \* whose update is running

setVars == <<registered, doomed, updating>>

SetInit == registered = {} /\ doomed = Things /\ updating = None

Enter(o) ==
    /\ o \notin registered
    /\ registered' = registered \cup {o}
    /\ UNCHANGED <<doomed, updating>>

Leave(o) ==
    /\ o \in registered
    /\ registered' = registered \ {o}
    /\ UNCHANGED <<doomed, updating>>

Doom(o) ==
    /\ doomed' = doomed \cup {o}
    /\ UNCHANGED <<registered, updating>>

\* A new thing, perhaps in the place of one that was destroyed.
Make(o) ==
    /\ o \notin registered
    /\ updating # o
    /\ doomed' = doomed \ {o}
    /\ UNCHANGED <<registered, updating>>

BeginUpdate(o) ==
    /\ updating = None
    /\ o \in registered \ doomed
    /\ updating' = o
    /\ UNCHANGED <<registered, doomed>>

EndUpdate ==
    /\ updating # None
    /\ updating' = None
    /\ UNCHANGED <<registered, doomed>>

\* The scheduler itself is destroyed.
Dissolve == registered' = {} /\ UNCHANGED <<doomed, updating>>

SetNext ==
    \/ \E o \in Things : Enter(o) \/ Leave(o) \/ Doom(o) \/ Make(o) \/ BeginUpdate(o)
    \/ EndUpdate
    \/ Dissolve

SetSpec == SetInit /\ [][SetNext]_setVars
=============================================================================
