---------------------------- MODULE WakeRequests ----------------------------
(***************************************************************************)
(* What an asynchronous wake queue promises its caller, with no threads    *)
(* and no locks: a wake that was asked for is pending until it is done or  *)
(* failed, wakes are finished in the order they were asked for, closing    *)
(* the queue fails everything pending, and an answer is taken once.        *)
(***************************************************************************)
EXTENDS Integers

CONSTANTS Contexts, MaxRequests, None

Ids == 1..MaxRequests
Results == [ctx : Contexts, kind : {"plan", "coast", "error"}]

VARIABLES
    asked,     \* id -> context, None when the id was not given out yet
    status,    \* id -> "new", "pending", "done", "failed" or "taken"
    outcome,   \* id -> the result of a done wake
    closed,
    answer     \* what the caller was last told

vars == <<asked, status, outcome, closed, answer>>

Answer(id, what, result) == [id |-> id, answer |-> what, result |-> result]

Init ==
    /\ asked = [i \in Ids |-> None]
    /\ status = [i \in Ids |-> "new"]
    /\ outcome = [i \in Ids |-> None]
    /\ closed \in BOOLEAN
    /\ answer = Answer(0, "none", None)

Ask(id, ctx) ==
    /\ ~closed
    /\ status[id] = "new"
    /\ \A i \in Ids : i < id => status[i] # "new"
    /\ asked' = [asked EXCEPT ![id] = ctx]
    /\ status' = [status EXCEPT ![id] = "pending"]
    /\ answer' = Answer(id, "queued", None)
    /\ UNCHANGED <<outcome, closed>>

Refuse ==
    /\ closed
    /\ answer' = Answer(0, "queue_shutdown", None)
    /\ UNCHANGED <<asked, status, outcome, closed>>

Finish(id, kind) ==
    /\ status[id] = "pending"
    /\ \A i \in Ids : i < id => status[i] # "pending"
    /\ status' = [status EXCEPT ![id] = "done"]
    /\ outcome' = [outcome EXCEPT ![id] = [ctx |-> asked[id], kind |-> kind]]
    /\ UNCHANGED <<asked, closed, answer>>

Close ==
    /\ ~closed
    /\ closed' = TRUE
    /\ status' = [i \in Ids |-> IF status[i] = "pending" THEN "failed" ELSE status[i]]
    /\ UNCHANGED <<asked, outcome, answer>>

Take(id) ==
    /\ status[id] \in {"done", "failed"}
    /\ status' = [status EXCEPT ![id] = "taken"]
    /\ outcome' = [outcome EXCEPT ![id] = None]
    /\ answer' = IF status[id] = "done" THEN Answer(id, "result", outcome[id])
                                       ELSE Answer(id, "queue_shutdown", None)
    /\ UNCHANGED <<asked, closed>>

\* Asking after a wake that is not finished, or that there is none of.
Inquire(id) ==
    /\ id \in Ids => status[id] \in {"new", "pending", "taken"}
    /\ answer' = IF id \in Ids /\ status[id] = "pending"
                 THEN Answer(id, "pending", None)
                 ELSE Answer(id, "unknown_request", None)
    /\ UNCHANGED <<asked, status, outcome, closed>>

FinishSome == \E id \in Ids, kind \in {"plan", "coast", "error"} : Finish(id, kind)

Next ==
    \/ \E id \in Ids, ctx \in Contexts : Ask(id, ctx)
    \/ Refuse
    \/ FinishSome
    \/ Close
    \/ \E id \in 0..(MaxRequests + 1) : Inquire(id)
    \/ \E id \in Ids : Take(id)

Spec == Init /\ [][Next]_vars
=============================================================================
