----------------------------- MODULE ActorQueue -----------------------------
(***************************************************************************)
(* AsyncActorProviderQueue (xrSimActorProvider.cpp): one worker thread     *)
(* that runs IActorIntentProvider::Wake off the engine thread, and the     *)
(* engine thread that submits wakes, polls for their results and shuts     *)
(* the queue down.  The provider is AnthropicActorIntentProvider over the  *)
(* curl transport (xrSimAnthropicTransport.cpp), whose cancel flag is set  *)
(* once and never cleared.                                                 *)
(*                                                                         *)
(* A critical section of Impl::mutex is one action; what a call does       *)
(* after releasing the mutex (notify, Cancel, join) is an action of its    *)
(* own, so that the worker can run in between.                             *)
(***************************************************************************)
EXTENDS Integers, Sequences

CONSTANTS
    Contexts,      \* the ActorWakeContext values that are submitted
    MaxRequests,   \* bound: how many requests one queue is given
    None           \* "no job", "no result"

ASSUME MaxRequestsAssumption == MaxRequests \in Nat
ASSUME ContextsAssumption == Contexts # {}

Ids == 1..MaxRequests

\* What a Wake produced: ok with a plan, ok and coasting, or ok = false.
Results == [ctx : Contexts, kind : {"plan", "coast", "error"}]
Jobs == [id : Ids, ctx : Contexts]

Absent == [state |-> "Absent", result |-> None]
Pending == [state |-> "Pending", result |-> None]
Failed == [state |-> "Failed", result |-> None]      \* reason "queue_shutdown"
Ready(r) == [state |-> "Ready", result |-> r]
Requests == {Absent, Pending, Failed} \cup {Ready(r) : r \in Results}

Replies == [id : 0..(MaxRequests + 1),
            answer : {"none", "queued", "pending", "result",
                      "queue_shutdown", "unknown_request"},
            result : Results \cup {None}]

VARIABLES
    provider,       \* "absent", "gated" (Wake coasts at once) or "live"
    jobs,           \* Impl::jobs
    requests,       \* Impl::requests
    nextRequestId,  \* Impl::nextRequestId
    shutdown,       \* Impl::shutdown
    cancelled,      \* CurlAnthropicTransport::m_cancelled
    workerPc,       \* where the worker is in WorkerLoop
    job,            \* WorkerLoop's local job
    wakeResult,     \* WorkerLoop's local result
    joinable,       \* worker.joinable()
    callerPc,       \* where the engine thread is in Submit or Shutdown
    reply,          \* what the last Submit or Poll returned
    submitted       \* history: the context submitted under each id

workerVars == <<workerPc, job, wakeResult>>
vars == <<provider, jobs, requests, nextRequestId, shutdown, cancelled,
          workerPc, job, wakeResult, joinable, callerPc, reply, submitted>>

-----------------------------------------------------------------------------
(* The constructor starts the worker only when there is a provider.        *)
Init ==
    /\ provider \in {"absent", "gated", "live"}
    /\ jobs = <<>>
    /\ requests = [i \in Ids |-> Absent]
    /\ nextRequestId = 1
    /\ shutdown = (provider = "absent")
    /\ cancelled = FALSE
    /\ workerPc = IF provider = "absent" THEN "none" ELSE "checking"
    /\ job = None
    /\ wakeResult = None
    /\ joinable = (provider # "absent")
    /\ callerPc = "idle"
    /\ reply = [id |-> 0, answer |-> "none", result |-> None]
    /\ submitted = [i \in Ids |-> None]

-----------------------------------------------------------------------------
(* What the calls do to the deque, the map and the sleeping worker.  The   *)
(* definitions marked MUTANT are wrong on purpose: no action uses them,    *)
(* and each one put in the place of its neighbour breaks a property.       *)

PushBack(q, j) == Append(q, j)

Erased(reqs, id) == [reqs EXCEPT ![id] = Absent]

FailPending(reqs) ==
    [i \in Ids |-> IF reqs[i] = Pending THEN Failed ELSE reqs[i]]

Cleared(q) == <<>>

\* MUTANT: the notify never happens.
StillAsleep(pc) == pc
\* A notify wakes the worker if it is asleep and is lost otherwise.
Notified(pc) == IF pc = "asleep" THEN "checking" ELSE pc

\* MUTANT: the worker is detached, not joined.
MayDetach == TRUE
MayJoin == joinable => workerPc = "exited"

\* MUTANT: the worker reads the context of the latest Submit, not its copy.
SharedContext(j) == submitted[nextRequestId - 1]
JobContext(j) == j.ctx

\* MUTANT: a coasting Wake returns without filling its result.
Unfilled(ctx) == None
Coast(ctx) == [ctx |-> ctx, kind |-> "coast"]

\* MUTANT: a late result is stored whatever became of its request.
StoredAlways(reqs, id, r) == [reqs EXCEPT ![id] = Ready(r)]
\* Only a request that is still Pending takes the result.
Stored(reqs, id, r) ==
    IF reqs[id] = Pending THEN [reqs EXCEPT ![id] = Ready(r)] ELSE reqs

-----------------------------------------------------------------------------
(* The engine thread.                                                      *)
SubmitAccepted(ctx) ==
    /\ callerPc = "idle"
    /\ ~shutdown
    /\ nextRequestId \in Ids
    /\ requests' = [requests EXCEPT ![nextRequestId] = Pending]
    /\ jobs' = PushBack(jobs, [id |-> nextRequestId, ctx |-> ctx])
    /\ submitted' = [submitted EXCEPT ![nextRequestId] = ctx]
    /\ reply' = [id |-> nextRequestId, answer |-> "queued", result |-> None]
    /\ nextRequestId' = nextRequestId + 1
    /\ callerPc' = "notifyOne"
    /\ UNCHANGED <<provider, shutdown, cancelled, workerVars, joinable>>

SubmitRejected ==
    /\ callerPc = "idle"
    /\ shutdown
    /\ reply' = [id |-> 0, answer |-> "queue_shutdown", result |-> None]
    /\ UNCHANGED <<provider, jobs, requests, nextRequestId, shutdown, cancelled,
                   workerVars, joinable, callerPc, submitted>>

NotifyOne ==
    /\ callerPc = "notifyOne"
    /\ workerPc' = Notified(workerPc)
    /\ callerPc' = "idle"
    /\ UNCHANGED <<provider, jobs, requests, nextRequestId, shutdown, cancelled,
                   job, wakeResult, joinable, reply, submitted>>

PollUnknown(id) ==
    /\ callerPc = "idle"
    /\ id \in Ids => requests[id] = Absent
    /\ reply' = [id |-> id, answer |-> "unknown_request", result |-> None]
    /\ UNCHANGED <<provider, jobs, requests, nextRequestId, shutdown, cancelled,
                   workerVars, joinable, callerPc, submitted>>

PollPending(id) ==
    /\ callerPc = "idle"
    /\ requests[id] = Pending
    /\ reply' = [id |-> id, answer |-> "pending", result |-> None]
    /\ UNCHANGED <<provider, jobs, requests, nextRequestId, shutdown, cancelled,
                   workerVars, joinable, callerPc, submitted>>
\* A Ready or Failed request is erased by the Poll that reports it.
PollFinished(id) ==
    /\ callerPc = "idle"
    /\ requests[id].state \in {"Ready", "Failed"}
    /\ reply' = [id |-> id,
                 answer |-> IF requests[id] = Failed THEN "queue_shutdown"
                                                     ELSE "result",
                 result |-> requests[id].result]
    /\ requests' = Erased(requests, id)
    /\ UNCHANGED <<provider, jobs, nextRequestId, shutdown, cancelled,
                   workerVars, joinable, callerPc, submitted>>
\* Shutdown under the mutex, the first time and when it was already down
\* (the early return of a second Shutdown changes nothing).
ShutdownLocked ==
    /\ callerPc = "idle"
    /\ shutdown => joinable
    /\ shutdown' = TRUE
    /\ IF shutdown
       THEN UNCHANGED <<jobs, requests>>
       ELSE /\ jobs' = Cleared(jobs)
            /\ requests' = FailPending(requests)
    /\ callerPc' = "cancel"
    /\ UNCHANGED <<provider, nextRequestId, cancelled, workerVars, joinable,
                   reply, submitted>>

\* provider->Cancel() reaches the transport; only a linked one has a flag.
CancelProvider ==
    /\ callerPc = "cancel"
    /\ cancelled' = (cancelled \/ provider = "live")
    /\ callerPc' = "notifyAll"
    /\ UNCHANGED <<provider, jobs, requests, nextRequestId, shutdown,
                   workerVars, joinable, reply, submitted>>

NotifyAll ==
    /\ callerPc = "notifyAll"
    /\ workerPc' = Notified(workerPc)
    /\ callerPc' = "join"
    /\ UNCHANGED <<provider, jobs, requests, nextRequestId, shutdown, cancelled,
                   job, wakeResult, joinable, reply, submitted>>
Join ==
    /\ callerPc = "join"
    /\ MayJoin
    /\ joinable' = FALSE
    /\ callerPc' = "idle"
    /\ UNCHANGED <<provider, jobs, requests, nextRequestId, shutdown, cancelled,
                   workerVars, reply, submitted>>

-----------------------------------------------------------------------------
(* The worker: wake.wait evaluates its predicate with the mutex held.      *)

WorkerSleep ==
    /\ workerPc = "checking"
    /\ ~shutdown /\ jobs = <<>>
    /\ workerPc' = "asleep"
    /\ UNCHANGED <<provider, jobs, requests, nextRequestId, shutdown, cancelled,
                   job, wakeResult, joinable, callerPc, reply, submitted>>

SpuriousWakeup ==
    /\ workerPc = "asleep"
    /\ workerPc' = "checking"
    /\ UNCHANGED <<provider, jobs, requests, nextRequestId, shutdown, cancelled,
                   job, wakeResult, joinable, callerPc, reply, submitted>>

WorkerExit ==
    /\ workerPc = "checking"
    /\ shutdown /\ jobs = <<>>
    /\ workerPc' = "exited"
    /\ UNCHANGED <<provider, jobs, requests, nextRequestId, shutdown, cancelled,
                   job, wakeResult, joinable, callerPc, reply, submitted>>

WorkerPop ==
    /\ workerPc = "checking"
    /\ jobs # <<>>
    /\ job' = Head(jobs)
    /\ jobs' = Tail(jobs)
    /\ workerPc' = "waking"
    /\ UNCHANGED <<provider, requests, nextRequestId, shutdown, cancelled,
                   wakeResult, joinable, callerPc, reply, submitted>>
\* Wake before the request is sent: disabled, unsupported, keyless or
\* unlinked providers coast, a live one enters the transport's Send.
WakeGated ==
    /\ workerPc = "waking"
    /\ provider = "gated"
    /\ wakeResult' = Coast(JobContext(job))
    /\ workerPc' = "storing"
    /\ UNCHANGED <<provider, jobs, requests, nextRequestId, shutdown, cancelled,
                   job, joinable, callerPc, reply, submitted>>
\* MUTANT: each Send clears the cancel flag before it starts.
SendClearsCancel ==
    /\ workerPc = "waking"
    /\ provider = "live"
    /\ cancelled' = FALSE
    /\ workerPc' = "sending"
    /\ UNCHANGED <<provider, jobs, requests, nextRequestId, shutdown,
                   job, wakeResult, joinable, callerPc, reply, submitted>>

SendBegin ==
    /\ workerPc = "waking"
    /\ provider = "live"
    /\ workerPc' = "sending"
    /\ UNCHANGED <<provider, jobs, requests, nextRequestId, shutdown, cancelled,
                   job, wakeResult, joinable, callerPc, reply, submitted>>
\* Send comes back by itself: a usable body (a plan, or a plan that says
\* coast), an unusable body (error), a failed transfer, another status, or
\* the timeout (coast).
SendReturn ==
    /\ workerPc = "sending"
    /\ \E k \in {"plan", "coast", "error"} :
           wakeResult' = [ctx |-> JobContext(job), kind |-> k]
    /\ workerPc' = "storing"
    /\ UNCHANGED <<provider, jobs, requests, nextRequestId, shutdown, cancelled,
                   job, joinable, callerPc, reply, submitted>>

\* curl's progress callback sees the cancel flag: transport_error, coast.
SendAborted ==
    /\ workerPc = "sending"
    /\ cancelled
    /\ wakeResult' = Coast(JobContext(job))
    /\ workerPc' = "storing"
    /\ UNCHANGED <<provider, jobs, requests, nextRequestId, shutdown, cancelled,
                   job, joinable, callerPc, reply, submitted>>
WorkerStore ==
    /\ workerPc = "storing"
    /\ requests' = Stored(requests, job.id, wakeResult)
    /\ job' = None
    /\ wakeResult' = None
    /\ workerPc' = "checking"
    /\ UNCHANGED <<provider, jobs, nextRequestId, shutdown, cancelled,
                   joinable, callerPc, reply, submitted>>

-----------------------------------------------------------------------------
Caller ==
    \/ \E ctx \in Contexts : SubmitAccepted(ctx)
    \/ SubmitRejected
    \/ NotifyOne
    \/ \E id \in 0..(MaxRequests + 1) : PollUnknown(id)
    \/ \E id \in Ids : PollPending(id) \/ PollFinished(id)
    \/ ShutdownLocked
    \/ CancelProvider
    \/ NotifyAll
    \/ Join

Worker ==
    \/ WorkerSleep \/ SpuriousWakeup \/ WorkerExit \/ WorkerPop
    \/ WakeGated \/ SendBegin \/ SendReturn \/ SendAborted \/ WorkerStore

Next == Caller \/ Worker

Spec == Init /\ [][Next]_vars

\* A thread that can run does run: the engine thread inside a call, and the
\* worker in its loop.  Nobody is obliged to call Submit, Poll or Shutdown,
\* and no spurious wakeup is promised.
ThreadFairness ==
    /\ WF_vars(NotifyOne \/ CancelProvider \/ NotifyAll \/ Join)
    /\ WF_vars(WorkerSleep \/ WorkerExit \/ WorkerPop \/ WakeGated
               \/ SendBegin \/ SendAborted \/ WorkerStore)

\* Send returns within config.timeoutMs (CURLOPT_TIMEOUT_MS), which
\* BuildAgentProviderConfig keeps positive.
TransportFairness == WF_vars(SendReturn)

\* The network may also hang, and the timeout be too long to wait for.
FairSpec == Spec /\ ThreadFairness

-----------------------------------------------------------------------------
(* Properties.                                                             *)

WorkerHolds(id) == workerPc \in {"waking", "sending", "storing"} /\ job.id = id
InJobs(id) == \E i \in 1..Len(jobs) : jobs[i].id = id

\* Every variable has its type: requests maps each id to a state the code
\* gives it, the queue holds jobs, both threads are at a known point.
TypeOK ==
    /\ provider \in {"absent", "gated", "live"}
    /\ jobs \in Seq(Jobs)
    /\ requests \in [Ids -> Requests]
    /\ nextRequestId \in 1..(MaxRequests + 1)
    /\ shutdown \in BOOLEAN
    /\ cancelled \in BOOLEAN
    /\ workerPc \in {"none", "checking", "asleep", "waking", "sending",
                     "storing", "exited"}
    /\ job \in Jobs \cup {None}
    /\ wakeResult \in Results \cup {None}
    /\ joinable \in BOOLEAN
    /\ callerPc \in {"idle", "notifyOne", "cancel", "notifyAll", "join"}
    /\ reply \in Replies
    /\ submitted \in [Ids -> Contexts \cup {None}]

\* A request the caller may still be waiting for is never orphaned: its job
\* is in the deque or in the worker's hands, so some step will finish it.
PendingIsServed ==
    \A id \in Ids : requests[id] = Pending => InJobs(id) \/ WorkerHolds(id)

\* Jobs are served in submission order, each at most once: the ids in the
\* deque increase strictly and lie after the one the worker has.
ServedInOrder ==
    /\ \A i, j \in 1..Len(jobs) : i < j => jobs[i].id < jobs[j].id
    /\ \A i \in 1..Len(jobs), id \in Ids : WorkerHolds(id) => id < jobs[i].id

\* A completed wake carries the answer to the context submitted under its
\* own id, whatever else was queued, cancelled or polled meanwhile.
ResultBelongsToRequest ==
    \A id \in Ids :
        requests[id].state = "Ready" => requests[id].result.ctx = submitted[id]

\* Once Shutdown has taken the mutex nothing is left pending and no job is
\* queued, although the worker may still be inside Wake.
ShutdownSettlesAll ==
    shutdown => /\ jobs = <<>>
                /\ \A id \in Ids : requests[id] # Pending

\* No lost wakeup: if the worker sleeps while there is work or a shutdown to
\* see, the engine thread is on its way to a notify.
NoLostWakeup ==
    workerPc = "asleep" /\ (jobs # <<>> \/ shutdown)
        => callerPc \in {"notifyOne", "cancel", "notifyAll"}

\* When Shutdown has returned the worker is gone, so the destructor may free
\* the state and the provider the worker was using.
QuietAfterShutdown ==
    shutdown /\ callerPc = "idle" => workerPc \in {"none", "exited"}

\* "Poll consumes a ready completion exactly once": the caller gets a result
\* only from a request it erases, an answered id never comes back, and a
\* request failed by Shutdown never turns Ready under a late result.
AnswersAreFinal ==
    [][\A id \in Ids :
          /\ requests[id] = Absent /\ id < nextRequestId => requests'[id] = Absent
          /\ requests[id] = Failed => requests'[id] \in {Failed, Absent}
          /\ requests[id].state = "Ready" => requests'[id] \in {requests[id], Absent}
      ]_vars

\* Every submitted wake is answered, with a result or by a shutdown, if Send
\* returns.
EveryRequestResolves ==
    TransportFairness => \A id \in Ids : requests[id] = Pending ~> requests[id] # Pending

\* Shutdown returns even when the network never answers: the cancel flag
\* stays set, so a Wake that had not reached Send yet is aborted as well.
ShutdownReturns == callerPc = "cancel" ~> callerPc = "idle"
-----------------------------------------------------------------------------
(* The promise of WakeRequests, read off the queue's state.                *)

StatusOf(id) ==
    CASE requests[id] = Pending -> "pending"
      [] requests[id] = Failed -> "failed"
      [] requests[id].state = "Ready" -> "done"
      [] OTHER -> IF id < nextRequestId THEN "taken" ELSE "new"

Promise == INSTANCE WakeRequests WITH
    asked <- submitted,
    status <- [id \in Ids |-> StatusOf(id)],
    outcome <- [id \in Ids |-> requests[id].result],
    closed <- shutdown,
    answer <- reply

\* The two threads implement the abstract queue, safety only: every step of
\* either thread is one step of the promise or invisible to the caller.
KeepsPromise == Promise!Spec

-----------------------------------------------------------------------------
(* The inductive invariant: TypeOK and the properties above are not enough *)
(* by themselves, what the worker holds and which thread has to move next  *)
(* must be known as well.                                                  *)

WorkerBusy == workerPc \in {"waking", "sending", "storing"}

JobsAreCurrent ==
    \A i \in 1..Len(jobs) :
        /\ requests[jobs[i].id] = Pending
        /\ jobs[i].ctx = submitted[jobs[i].id]
        /\ jobs[i].id < nextRequestId

HeldJobIsCurrent ==
    /\ WorkerBusy => /\ job \in Jobs
                     /\ job.ctx = submitted[job.id]
                     /\ job.id < nextRequestId
    /\ workerPc = "storing" => wakeResult \in Results /\ wakeResult.ctx = job.ctx

FreshIds == \A id \in Ids : id >= nextRequestId => requests[id] = Absent

ThreadsAgree ==
    /\ workerPc = "none" <=> provider = "absent"
    /\ workerPc = "none" => shutdown
    /\ workerPc = "exited" => shutdown
    /\ joinable => workerPc # "none"
    /\ ~joinable => workerPc \in {"none", "exited"}
    /\ callerPc \in {"cancel", "notifyAll", "join"} => shutdown
    /\ callerPc = "notifyOne" => ~shutdown
    /\ callerPc = "idle" /\ shutdown => ~joinable

\* The safety properties together with what makes them inductive: it is this
\* conjunction that every step of either thread preserves.
IInv ==
    /\ TypeOK
    /\ PendingIsServed
    /\ ServedInOrder
    /\ ResultBelongsToRequest
    /\ ShutdownSettlesAll
    /\ NoLostWakeup
    /\ QuietAfterShutdown
    /\ JobsAreCurrent
    /\ HeldJobIsCurrent
    /\ FreshIds
    /\ ThreadsAgree
=============================================================================
