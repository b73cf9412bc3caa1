--------------------------- MODULE ActorQueueProofs ---------------------------
(***************************************************************************)
(* Proofs about ActorQueue, for any number of requests and any contexts.   *)
(***************************************************************************)
EXTENDS ActorQueue, TLAPS

\* The states of a request tell apart by their "state" field.
LEMMA RequestStates ==
    /\ Absent.state = "Absent" /\ Pending.state = "Pending" /\ Failed.state = "Failed"
    /\ \A r : Ready(r).state = "Ready" /\ Ready(r).result = r
    /\ Absent.result = None /\ Pending.result = None /\ Failed.result = None
    /\ Absent # Pending /\ Absent # Failed /\ Pending # Failed
    /\ \A r : Ready(r) \notin {Absent, Pending, Failed}
<1>1. /\ Absent.state = "Absent" /\ Pending.state = "Pending" /\ Failed.state = "Failed"
      /\ Absent.result = None /\ Pending.result = None /\ Failed.result = None
      /\ \A r : Ready(r).state = "Ready" /\ Ready(r).result = r
  BY DEF Absent, Pending, Failed, Ready
<1>2. QED
  BY <1>1

\* The values a request can have, and how they are recognised.
LEMMA RequestKinds ==
    ASSUME NEW q \in Requests
    PROVE  /\ q.state \in {"Absent", "Pending", "Ready", "Failed"}
           /\ q.state = "Absent" <=> q = Absent
           /\ q.state = "Pending" <=> q = Pending
           /\ q.state = "Failed" <=> q = Failed
           /\ q.state = "Ready" => q.result \in Results /\ q = Ready(q.result)
<1>1. q \in {Absent, Pending, Failed} \/ \E r \in Results : q = Ready(r)
  BY DEF Requests
<1>2. CASE q \in {Absent, Pending, Failed}
  BY <1>2, RequestStates
<1>3. CASE \E r \in Results : q = Ready(r)
  BY <1>3, RequestStates
<1>4. QED
  BY <1>1, <1>2, <1>3

\* The constructor establishes the type invariant and the inductive one.
LEMMA InitType == Init => TypeOK
<1> SUFFICES ASSUME Init PROVE TypeOK
  OBVIOUS
<1>1. jobs \in Seq(Jobs)
  BY DEF Init
<1>2. requests \in [Ids -> Requests]
  BY DEF Init, Requests
<1>3. nextRequestId \in 1..(MaxRequests + 1)
  BY MaxRequestsAssumption DEF Init
<1>4. reply \in Replies
  BY MaxRequestsAssumption DEF Init, Replies
<1>5. QED
  BY <1>1, <1>2, <1>3, <1>4 DEF Init, TypeOK

\* A queue that was just made has nothing queued, held or pending.
LEMMA InitIInv == Init => IInv
<1> SUFFICES ASSUME Init PROVE IInv
  OBVIOUS
<1>1. TypeOK
  BY InitType
<1>2. \A id \in Ids : requests[id] = Absent
  BY DEF Init
<1>3. PendingIsServed /\ ResultBelongsToRequest /\ FreshIds
  BY <1>2, RequestStates DEF PendingIsServed, ResultBelongsToRequest, FreshIds
<1>4. jobs = <<>> /\ Len(jobs) = 0
  BY DEF Init
<1>5. ServedInOrder /\ JobsAreCurrent
  BY <1>4 DEF ServedInOrder, JobsAreCurrent
<1>6. ShutdownSettlesAll
  BY <1>2, <1>4, RequestStates DEF ShutdownSettlesAll
<1>7. NoLostWakeup /\ QuietAfterShutdown /\ HeldJobIsCurrent /\ ThreadsAgree
  BY DEF Init, NoLostWakeup, QuietAfterShutdown, HeldJobIsCurrent, ThreadsAgree,
         WorkerBusy
<1>8. QED
  BY <1>1, <1>3, <1>5, <1>6, <1>7 DEF IInv

-----------------------------------------------------------------------------
\* The jobs of the deque are jobs, with ids that can be compared.
LEMMA QueuedJobs ==
    ASSUME TypeOK
    PROVE  /\ Len(jobs) \in Nat
           /\ \A i \in 1..Len(jobs) : jobs[i] \in Jobs /\ jobs[i].id \in Ids
           /\ \A id \in Ids : id \in Nat
<1>1. jobs \in Seq(Jobs)
  BY DEF TypeOK
<1>2. Len(jobs) \in Nat /\ \A i \in 1..Len(jobs) : jobs[i] \in Jobs
  BY <1>1
<1>3. \A j \in Jobs : j.id \in Ids
  BY DEF Jobs
<1>4. QED
  BY <1>2, <1>3, MaxRequestsAssumption DEF Ids

-----------------------------------------------------------------------------
(* One lemma per action that touches the deque, the map or the job; the    *)
(* remaining actions only move the two threads.                            *)

\* A submit adds one job and the pending request it serves.
LEMMA SubmitStep ==
    ASSUME IInv, NEW ctx \in Contexts, SubmitAccepted(ctx)
    PROVE  IInv'
<1> DEFINE n == nextRequestId
           j == [id |-> n, ctx |-> ctx]
<1> USE DEF IInv
<1>1. /\ n \in Ids /\ n \in Nat /\ ~shutdown /\ callerPc = "idle"
      /\ j \in Jobs /\ j.id = n /\ j.ctx = ctx
      /\ jobs \in Seq(Jobs) /\ jobs' = Append(jobs, j)
      /\ requests \in [Ids -> Requests] /\ requests' = [requests EXCEPT ![n] = Pending]
      /\ submitted' = [submitted EXCEPT ![n] = ctx]
      /\ submitted \in [Ids -> Contexts \cup {None}]
      /\ nextRequestId' = n + 1
      /\ callerPc' = "notifyOne"
      /\ UNCHANGED <<provider, shutdown, cancelled, workerPc, job, wakeResult, joinable>>
  BY MaxRequestsAssumption DEF SubmitAccepted, TypeOK, Jobs, Ids, PushBack, workerVars
<1>2. /\ Len(jobs') = Len(jobs) + 1 /\ Len(jobs) \in Nat
      /\ \A i \in 1..Len(jobs) : jobs'[i] = jobs[i] /\ jobs[i] \in Jobs
      /\ jobs'[Len(jobs) + 1] = j
      /\ jobs' \in Seq(Jobs)
  BY <1>1
<1>3. \A i \in 1..Len(jobs) : jobs[i].id \in Ids /\ jobs[i].id \in Nat /\ jobs[i].id < n /\ jobs[i].id # n
  BY <1>1, <1>2, MaxRequestsAssumption DEF JobsAreCurrent, Jobs, Ids
<1>4. TypeOK'
  <2>1. requests' \in [Ids -> Requests]
    BY <1>1 DEF Requests
  <2>2. nextRequestId' \in 1..(MaxRequests + 1)
    BY <1>1, MaxRequestsAssumption DEF Ids
  <2>3. reply' \in Replies
    BY <1>1, MaxRequestsAssumption DEF Ids, SubmitAccepted, Replies
  <2>4. submitted' \in [Ids -> Contexts \cup {None}]
    BY <1>1
  <2>5. QED
    BY <1>1, <1>2, <2>1, <2>2, <2>3, <2>4 DEF TypeOK
<1>5. PendingIsServed'
  <2> SUFFICES ASSUME NEW id \in Ids, requests'[id] = Pending
               PROVE  InJobs(id)' \/ WorkerHolds(id)'
    BY DEF PendingIsServed
  <2>1. CASE id = n
    BY <2>1, <1>1, <1>2 DEF InJobs
  <2>2. CASE id # n
    <3>1. requests[id] = Pending
      BY <2>2, <1>1
    <3>2. CASE WorkerHolds(id)
      BY <3>2, <1>1 DEF WorkerHolds
    <3>3. CASE InJobs(id)
      <4>1. PICK i \in 1..Len(jobs) : jobs[i].id = id
        BY <3>3 DEF InJobs
      <4>2. i \in 1..Len(jobs') /\ jobs'[i].id = id
        BY <4>1, <1>2
      <4>3. QED
        BY <4>2 DEF InJobs
    <3>4. QED
      BY <3>1, <3>2, <3>3 DEF PendingIsServed
  <2>3. QED
    BY <2>1, <2>2
<1>6. ServedInOrder'
  <2>1. \A i, k \in 1..Len(jobs') : i < k => jobs'[i].id < jobs'[k].id
    <3> SUFFICES ASSUME NEW i \in 1..Len(jobs'), NEW k \in 1..Len(jobs'), i < k
                 PROVE  jobs'[i].id < jobs'[k].id
      OBVIOUS
    <3>1. i \in 1..Len(jobs) /\ (k \in 1..Len(jobs) \/ k = Len(jobs) + 1)
      BY <1>2
    <3>2. CASE k \in 1..Len(jobs)
      BY <3>1, <3>2, <1>2 DEF ServedInOrder
    <3>3. CASE k = Len(jobs) + 1
      BY <3>1, <3>3, <1>1, <1>2, <1>3
    <3>4. QED
      BY <3>1, <3>2, <3>3
  <2>2. ASSUME NEW i \in 1..Len(jobs'), NEW id \in Ids, WorkerHolds(id)'
        PROVE  id < jobs'[i].id
    <3>1. WorkerHolds(id) /\ id < n
      BY <2>2, <1>1 DEF WorkerHolds, HeldJobIsCurrent, WorkerBusy
    <3>2. i \in 1..Len(jobs) \/ i = Len(jobs) + 1
      BY <2>2, <1>2
    <3>3. CASE i \in 1..Len(jobs)
      <4>1. id < jobs[i].id
        BY <3>1, <3>3 DEF ServedInOrder
      <4>2. QED
        BY <4>1, <3>3, <1>2
    <3>4. CASE i = Len(jobs) + 1
      BY <3>1, <3>4, <1>1, <1>2
    <3>5. QED
      BY <3>2, <3>3, <3>4
  <2>3. QED
    BY <2>1, <2>2 DEF ServedInOrder
<1>7. ResultBelongsToRequest'
  BY <1>1, RequestStates DEF ResultBelongsToRequest
<1>8. ShutdownSettlesAll' /\ NoLostWakeup' /\ QuietAfterShutdown' /\ ThreadsAgree'
  BY <1>1 DEF ShutdownSettlesAll, NoLostWakeup, QuietAfterShutdown, ThreadsAgree
<1>9. JobsAreCurrent'
  BY <1>1, <1>2, <1>3 DEF JobsAreCurrent
<1>10. HeldJobIsCurrent'
  BY <1>1 DEF HeldJobIsCurrent, WorkerBusy, Jobs, Ids
<1>11. FreshIds'
  BY <1>1, MaxRequestsAssumption DEF FreshIds, Ids
<1>12. QED
  BY <1>4, <1>5, <1>6, <1>7, <1>8, <1>9, <1>10, <1>11

\* Shutdown empties the deque and fails what was pending.
LEMMA ShutdownStep ==
    ASSUME IInv, ShutdownLocked
    PROVE  IInv'
<1> USE DEF IInv
<1>1. shutdown' /\ callerPc = "idle" /\ callerPc' = "cancel"
  BY DEF ShutdownLocked
<1>2. ~shutdown
  BY DEF ShutdownLocked, ThreadsAgree
<1>3. /\ jobs' = <<>> /\ Len(jobs') = 0 /\ jobs' \in Seq(Jobs)
      /\ requests' = FailPending(requests)
      /\ UNCHANGED <<provider, nextRequestId, cancelled, workerPc, job, wakeResult,
                     joinable, reply, submitted>>
  BY <1>2 DEF ShutdownLocked, Cleared, workerVars
<1>4. \A id \in Ids : /\ requests'[id] \in Requests /\ requests'[id] # Pending
                      /\ requests[id] = Pending => requests'[id] = Failed
                      /\ requests[id] # Pending => requests'[id] = requests[id]
  BY <1>3, RequestStates DEF FailPending, TypeOK, Requests
<1>5. TypeOK'
  <2>1. requests' \in [Ids -> Requests]
    BY <1>3, <1>4 DEF FailPending
  <2>2. QED
    BY <1>1, <1>3, <2>1 DEF TypeOK
<1>6. PendingIsServed' /\ ShutdownSettlesAll'
  BY <1>3, <1>4 DEF PendingIsServed, ShutdownSettlesAll
<1>7. ServedInOrder' /\ JobsAreCurrent'
  BY <1>3 DEF ServedInOrder, JobsAreCurrent
<1>8. ResultBelongsToRequest'
  BY <1>3, <1>4, RequestStates DEF ResultBelongsToRequest
<1>9. HeldJobIsCurrent' /\ FreshIds'
  BY <1>3, <1>4, RequestStates DEF HeldJobIsCurrent, WorkerBusy, FreshIds
<1>10. NoLostWakeup' /\ QuietAfterShutdown' /\ ThreadsAgree'
  BY <1>1, <1>2, <1>3 DEF NoLostWakeup, QuietAfterShutdown, ThreadsAgree
<1>11. QED
  BY <1>5, <1>6, <1>7, <1>8, <1>9, <1>10

\* Poll erases a request that is not Pending, so no job loses its request.
LEMMA PollStep ==
    ASSUME IInv, NEW id \in Ids, PollFinished(id)
    PROVE  IInv'
<1> USE DEF IInv
<1>1. /\ requests[id].state \in {"Ready", "Failed"} /\ requests[id] \in Requests
      /\ requests \in [Ids -> Requests]
      /\ requests' = [requests EXCEPT ![id] = Absent]
      /\ UNCHANGED <<provider, jobs, nextRequestId, shutdown, cancelled, workerPc, job,
                     wakeResult, joinable, callerPc, submitted>>
  BY DEF PollFinished, Erased, workerVars, TypeOK
<1>2. requests[id] # Pending
  BY <1>1, RequestStates
<1>3. \A i \in Ids : requests'[i] = IF i = id THEN Absent ELSE requests[i]
  BY <1>1
<1>4. TypeOK'
  <2>1. requests' \in [Ids -> Requests]
    BY <1>1 DEF Requests
  <2>2. requests[id].result \in Results \cup {None}
    BY <1>1, RequestKinds, RequestStates
  <2>3. reply' \in Replies
    BY <2>2, MaxRequestsAssumption DEF PollFinished, Replies, Ids
  <2>4. QED
    BY <1>1, <2>1, <2>3 DEF TypeOK
<1>5. PendingIsServed'
  BY <1>1, <1>3, RequestStates DEF PendingIsServed, InJobs, WorkerHolds
<1>6. ServedInOrder' /\ HeldJobIsCurrent' /\ NoLostWakeup' /\ QuietAfterShutdown'
      /\ ThreadsAgree'
  BY <1>1 DEF ServedInOrder, WorkerHolds, HeldJobIsCurrent, WorkerBusy, NoLostWakeup,
              QuietAfterShutdown, ThreadsAgree
<1>7. ResultBelongsToRequest' /\ ShutdownSettlesAll' /\ FreshIds'
  BY <1>1, <1>3, RequestStates DEF ResultBelongsToRequest, ShutdownSettlesAll, FreshIds
<1>8. JobsAreCurrent'
  <2>1. \A i \in 1..Len(jobs) : jobs[i].id \in Ids
    BY QueuedJobs
  <2>2. QED
    BY <1>1, <1>2, <1>3, <2>1 DEF JobsAreCurrent
<1>9. QED
  BY <1>4, <1>5, <1>6, <1>7, <1>8

\* The worker takes the oldest job: it leaves the deque for its hands.
LEMMA PopStep ==
    ASSUME IInv, WorkerPop
    PROVE  IInv'
<1> USE DEF IInv
<1>1. /\ workerPc = "checking" /\ workerPc' = "waking"
      /\ jobs \in Seq(Jobs) /\ jobs # <<>>
      /\ job' = Head(jobs) /\ jobs' = Tail(jobs)
      /\ UNCHANGED <<provider, requests, nextRequestId, shutdown, cancelled, wakeResult,
                     joinable, callerPc, reply, submitted>>
  BY DEF WorkerPop, TypeOK
<1>2. /\ Len(jobs) \in Nat /\ Len(jobs) >= 1 /\ Len(jobs') = Len(jobs) - 1
      /\ jobs' \in Seq(Jobs)
      /\ \A i \in 1..Len(jobs') : jobs'[i] = jobs[i + 1] /\ i + 1 \in 1..Len(jobs)
      /\ job' = jobs[1] /\ job' \in Jobs /\ 1 \in 1..Len(jobs)
  BY <1>1
<1>3. TypeOK'
  BY <1>1, <1>2 DEF TypeOK
<1>4. ASSUME NEW id \in Ids, requests'[id] = Pending
      PROVE  InJobs(id)' \/ WorkerHolds(id)'
  <2>1. InJobs(id)
    BY <1>1, <1>4 DEF PendingIsServed, WorkerHolds
  <2>2. PICK i \in 1..Len(jobs) : jobs[i].id = id
    BY <2>1 DEF InJobs
  <2>3. CASE i = 1
    BY <2>2, <2>3, <1>1, <1>2 DEF WorkerHolds
  <2>4. CASE i # 1
    <3>1. i - 1 \in 1..Len(jobs') /\ jobs'[i - 1].id = id
      BY <2>2, <2>4, <1>2
    <3>2. QED
      BY <3>1 DEF InJobs
  <2>5. QED
    BY <2>3, <2>4
<1>5. PendingIsServed'
  BY <1>4 DEF PendingIsServed
<1>6. ServedInOrder'
  <2>1. \A i, k \in 1..Len(jobs') : i < k => jobs'[i].id < jobs'[k].id
    BY <1>2 DEF ServedInOrder
  <2>2. \A i \in 1..Len(jobs') : job'.id < jobs'[i].id
    BY <1>2 DEF ServedInOrder
  <2>3. QED
    BY <2>1, <2>2 DEF ServedInOrder, WorkerHolds
<1>7. ResultBelongsToRequest' /\ FreshIds'
  BY <1>1 DEF ResultBelongsToRequest, FreshIds
<1>8. ~shutdown
  BY <1>1 DEF ShutdownSettlesAll
<1>9. ShutdownSettlesAll' /\ NoLostWakeup' /\ QuietAfterShutdown' /\ ThreadsAgree'
  BY <1>1, <1>8 DEF ShutdownSettlesAll, NoLostWakeup, QuietAfterShutdown, ThreadsAgree
<1>10. JobsAreCurrent'
  BY <1>1, <1>2 DEF JobsAreCurrent
<1>11. HeldJobIsCurrent'
  BY <1>1, <1>2 DEF HeldJobIsCurrent, WorkerBusy, JobsAreCurrent
<1>12. QED
  BY <1>3, <1>5, <1>6, <1>7, <1>9, <1>10, <1>11

\* Wake ends, one way or another, with a result for the job's own context.
LEMMA WakeStep ==
    ASSUME IInv, WakeGated \/ SendReturn \/ SendAborted
    PROVE  IInv'
<1> USE DEF IInv
<1>1. /\ workerPc \in {"waking", "sending"} /\ workerPc' = "storing"
      /\ UNCHANGED <<provider, jobs, requests, nextRequestId, shutdown, cancelled, job,
                     joinable, callerPc, reply, submitted>>
  BY DEF WakeGated, SendReturn, SendAborted
<1>2. job \in Jobs /\ job.ctx \in Contexts
  BY <1>1 DEF HeldJobIsCurrent, WorkerBusy, Jobs
<1>3. wakeResult' \in Results /\ wakeResult'.ctx = job.ctx
  BY <1>2 DEF WakeGated, SendReturn, SendAborted, Coast, JobContext, Results
<1>4. TypeOK'
  BY <1>1, <1>3 DEF TypeOK
<1>5. PendingIsServed' /\ ServedInOrder'
  BY <1>1 DEF PendingIsServed, ServedInOrder, InJobs, WorkerHolds
<1>6. ResultBelongsToRequest' /\ FreshIds' /\ JobsAreCurrent'
  BY <1>1 DEF ResultBelongsToRequest, FreshIds, JobsAreCurrent
<1>7. ShutdownSettlesAll' /\ NoLostWakeup' /\ QuietAfterShutdown' /\ ThreadsAgree'
  BY <1>1 DEF ShutdownSettlesAll, NoLostWakeup, QuietAfterShutdown, ThreadsAgree
<1>8. HeldJobIsCurrent'
  BY <1>1, <1>3 DEF HeldJobIsCurrent, WorkerBusy
<1>9. QED
  BY <1>4, <1>5, <1>6, <1>7, <1>8

\* The result goes to the job's request, and to no other.
LEMMA StoreStep ==
    ASSUME IInv, WorkerStore
    PROVE  IInv'
<1> USE DEF IInv
<1>1. /\ workerPc = "storing" /\ workerPc' = "checking" /\ job' = None
      /\ wakeResult' = None
      /\ requests \in [Ids -> Requests] /\ requests' = Stored(requests, job.id, wakeResult)
      /\ UNCHANGED <<provider, jobs, nextRequestId, shutdown, cancelled, joinable,
                     callerPc, reply, submitted>>
  BY DEF WorkerStore, TypeOK
<1>2. /\ job \in Jobs /\ job.id \in Ids /\ job.ctx = submitted[job.id]
      /\ job.id < nextRequestId
      /\ wakeResult \in Results /\ wakeResult.ctx = job.ctx
  BY <1>1 DEF HeldJobIsCurrent, WorkerBusy, Jobs
<1>3. /\ requests' \in [Ids -> Requests]
      /\ \A id \in Ids : id # job.id => requests'[id] = requests[id]
      /\ requests[job.id] = Pending => requests'[job.id] = Ready(wakeResult)
      /\ requests[job.id] # Pending => requests'[job.id] = requests[job.id]
  BY <1>1, <1>2 DEF Stored, Requests
<1>4. TypeOK'
  BY <1>1, <1>3 DEF TypeOK
<1>5. PendingIsServed'
  BY <1>1, <1>2, <1>3, RequestStates DEF PendingIsServed, InJobs, WorkerHolds
<1>6. ServedInOrder'
  BY <1>1 DEF ServedInOrder, WorkerHolds
<1>7. ResultBelongsToRequest'
  BY <1>1, <1>2, <1>3, RequestStates DEF ResultBelongsToRequest
<1>8. ShutdownSettlesAll'
  BY <1>1, <1>2, <1>3, RequestStates DEF ShutdownSettlesAll
<1>9. NoLostWakeup' /\ QuietAfterShutdown' /\ ThreadsAgree'
  BY <1>1 DEF NoLostWakeup, QuietAfterShutdown, ThreadsAgree
<1>10. JobsAreCurrent'
  <2>1. \A i \in 1..Len(jobs) : jobs[i].id \in Ids /\ jobs[i].id # job.id
    <3>1. \A i \in 1..Len(jobs) : job.id < jobs[i].id
      BY <1>1, <1>2 DEF ServedInOrder, WorkerHolds
    <3>2. QED
      BY <3>1, <1>2, QueuedJobs
  <2>2. QED
    BY <1>1, <1>3, <2>1 DEF JobsAreCurrent
<1>11. HeldJobIsCurrent' /\ FreshIds'
  <2>1. \A id \in Ids : id >= nextRequestId => id # job.id
    BY <1>2, MaxRequestsAssumption DEF TypeOK, Ids
  <2>2. QED
    BY <1>1, <1>3, <2>1 DEF HeldJobIsCurrent, WorkerBusy, FreshIds
<1>12. QED
  BY <1>4, <1>5, <1>6, <1>7, <1>8, <1>9, <1>10, <1>11

\* What is left moves one of the two threads and nothing else.
ThreadStep ==
    \/ SubmitRejected \/ NotifyOne \/ CancelProvider \/ NotifyAll \/ Join
    \/ \E id \in 0..(MaxRequests + 1) : PollUnknown(id)
    \/ \E id \in Ids : PollPending(id)
    \/ WorkerSleep \/ SpuriousWakeup \/ WorkerExit \/ SendBegin
    \/ UNCHANGED vars

\* The steps that only move one of the two threads on.
LEMMA ThreadStepKeeps ==
    ASSUME IInv, ThreadStep
    PROVE  IInv'
<1> USE DEF IInv
<1>1. /\ UNCHANGED <<provider, jobs, requests, nextRequestId, shutdown, job, wakeResult,
                     submitted>>
      /\ WorkerBusy' <=> WorkerBusy
      /\ workerPc' = "storing" => workerPc = "storing"
  BY DEF ThreadStep, SubmitRejected, NotifyOne, CancelProvider, NotifyAll, Join,
         PollUnknown, PollPending, WorkerSleep, SpuriousWakeup, WorkerExit, SendBegin,
         vars, workerVars, WorkerBusy, Notified
<1>2. TypeOK'
  <2>1. reply' \in Replies
    BY MaxRequestsAssumption
       DEF ThreadStep, SubmitRejected, NotifyOne, CancelProvider, NotifyAll, Join,
           PollUnknown, PollPending, WorkerSleep, SpuriousWakeup, WorkerExit, SendBegin,
           vars, TypeOK, Replies, Ids
  <2>2. cancelled' \in BOOLEAN /\ joinable' \in BOOLEAN
    BY DEF ThreadStep, SubmitRejected, NotifyOne, CancelProvider, NotifyAll, Join,
           PollUnknown, PollPending, WorkerSleep, SpuriousWakeup, WorkerExit, SendBegin,
           vars, workerVars, TypeOK
  <2>3. workerPc' \in {"none", "checking", "asleep", "waking", "sending", "storing", "exited"}
    BY DEF ThreadStep, SubmitRejected, NotifyOne, CancelProvider, NotifyAll, Join,
           PollUnknown, PollPending, WorkerSleep, SpuriousWakeup, WorkerExit, SendBegin,
           vars, workerVars, Notified, TypeOK
  <2>4. callerPc' \in {"idle", "notifyOne", "cancel", "notifyAll", "join"}
    BY DEF ThreadStep, SubmitRejected, NotifyOne, CancelProvider, NotifyAll, Join,
           PollUnknown, PollPending, WorkerSleep, SpuriousWakeup, WorkerExit, SendBegin,
           vars, TypeOK
  <2> QED
    BY <1>1, <2>1, <2>2, <2>3, <2>4 DEF TypeOK
<1>3. PendingIsServed' /\ ServedInOrder'
  BY <1>1 DEF PendingIsServed, ServedInOrder, InJobs, WorkerHolds, WorkerBusy
<1>4. ResultBelongsToRequest' /\ ShutdownSettlesAll' /\ JobsAreCurrent' /\ FreshIds'
  BY <1>1 DEF ResultBelongsToRequest, ShutdownSettlesAll, JobsAreCurrent, FreshIds
<1>5. HeldJobIsCurrent'
  BY <1>1 DEF HeldJobIsCurrent, WorkerBusy
<1>6. NoLostWakeup' /\ QuietAfterShutdown' /\ ThreadsAgree'
  BY DEF ThreadStep, SubmitRejected, NotifyOne, CancelProvider, NotifyAll, Join,
         PollUnknown, PollPending, WorkerSleep, SpuriousWakeup, WorkerExit, SendBegin,
         vars, workerVars, Notified, MayJoin, NoLostWakeup, QuietAfterShutdown,
         ThreadsAgree, TypeOK
<1>7. QED
  BY <1>2, <1>3, <1>4, <1>5, <1>6

\* Every step of the engine thread or the worker preserves the invariant.
LEMMA NextIInv == IInv /\ [Next]_vars => IInv'
<1> SUFFICES ASSUME IInv, [Next]_vars PROVE IInv'
  OBVIOUS
<1>1. CASE \E ctx \in Contexts : SubmitAccepted(ctx)
  BY <1>1, SubmitStep
<1>2. CASE \E id \in Ids : PollFinished(id)
  BY <1>2, PollStep
<1>3. CASE ShutdownLocked
  BY <1>3, ShutdownStep
<1>4. CASE WorkerPop
  BY <1>4, PopStep
<1>5. CASE WakeGated \/ SendReturn \/ SendAborted
  BY <1>5, WakeStep
<1>6. CASE WorkerStore
  BY <1>6, StoreStep
<1>7. CASE ThreadStep
  BY <1>7, ThreadStepKeeps
<1>8. QED
  BY <1>1, <1>2, <1>3, <1>4, <1>5, <1>6, <1>7 DEF Next, Caller, Worker, ThreadStep

-----------------------------------------------------------------------------
\* The inductive invariant holds in every reachable state.
THEOREM InductiveInvariant == Spec => []IInv
<1>1. Init => IInv
  BY InitIInv
<1>2. IInv /\ [Next]_vars => IInv'
  BY NextIInv
<1>3. QED
  BY <1>1, <1>2, PTL DEF Spec

\* Type correctness of the queue.
THEOREM TypeCorrect == Spec => []TypeOK
<1>1. IInv => TypeOK
  BY DEF IInv
<1>2. QED
  BY <1>1, InductiveInvariant, PTL

\* What the runs check of three requests holds for any number of them: no
\* request is orphaned, order and results are kept, a shutdown settles all,
\* no wakeup is lost, and the worker is gone when Shutdown has returned.
THEOREM QueueIsSafe ==
    Spec => [](/\ PendingIsServed
               /\ ServedInOrder
               /\ ResultBelongsToRequest
               /\ ShutdownSettlesAll
               /\ NoLostWakeup
               /\ QuietAfterShutdown)
<1>1. IInv => /\ PendingIsServed
              /\ ServedInOrder
              /\ ResultBelongsToRequest
              /\ ShutdownSettlesAll
              /\ NoLostWakeup
              /\ QuietAfterShutdown
  BY DEF IInv
<1>2. QED
  BY <1>1, InductiveInvariant, PTL

\* The answer to a wake is that of the context it was submitted with, however
\* many were queued, cancelled or polled meanwhile.
THEOREM ResultsBelong == Spec => []ResultBelongsToRequest
  BY QueueIsSafe, PTL

\* The worker never sleeps through a job or a shutdown.
THEOREM NoWakeupIsLost == Spec => []NoLostWakeup
  BY QueueIsSafe, PTL

\* When Shutdown has returned, the worker that used the provider is gone.
THEOREM WorkerIsGone == Spec => []QuietAfterShutdown
  BY QueueIsSafe, PTL

-----------------------------------------------------------------------------
(* The action property: a request only moves forward.                      *)

Forward(id) ==
    /\ requests[id] = Absent /\ id < nextRequestId => requests'[id] = Absent
    /\ requests[id] = Failed => requests'[id] \in {Failed, Absent}
    /\ requests[id].state = "Ready" => requests'[id] \in {requests[id], Absent}

\* No step takes a request back: what was answered stays answered.
LEMMA StepForward ==
    ASSUME IInv, [Next]_vars, NEW id \in Ids
    PROVE  Forward(id)
<1>1. /\ requests \in [Ids -> Requests] /\ requests[id] \in Requests
      /\ id \in Nat /\ nextRequestId \in Nat
  BY MaxRequestsAssumption DEF IInv, TypeOK, Ids
<1>2. CASE requests' = requests
  BY <1>2 DEF Forward
<1>3. CASE \E ctx \in Contexts : SubmitAccepted(ctx)
  <2>1. nextRequestId \in Ids /\ requests' = [requests EXCEPT ![nextRequestId] = Pending]
    BY <1>3 DEF SubmitAccepted
  <2>2. requests[nextRequestId] = Absent
    BY <2>1, <1>1 DEF IInv, FreshIds
  <2>3. CASE id = nextRequestId
    BY <2>2, <2>3, <1>1, RequestStates DEF Forward
  <2>4. CASE id # nextRequestId
    BY <2>1, <2>4, <1>1 DEF Forward
  <2>5. QED
    BY <2>3, <2>4
<1>4. CASE \E i \in Ids : PollFinished(i)
  <2>1. PICK i \in Ids : requests' = [requests EXCEPT ![i] = Absent]
    BY <1>4 DEF PollFinished, Erased
  <2>2. QED
    BY <2>1, <1>1 DEF Forward
<1>5. CASE ShutdownLocked
  <2>1. requests' = requests \/ requests' = FailPending(requests)
    BY <1>5 DEF ShutdownLocked
  <2>2. QED
    BY <2>1, <1>1, <1>2, RequestStates DEF FailPending, Forward
<1>6. CASE WorkerStore
  <2>1. job.id \in Ids /\ requests' = Stored(requests, job.id, wakeResult)
    BY <1>6 DEF WorkerStore, IInv, HeldJobIsCurrent, WorkerBusy, Jobs
  <2>2. QED
    BY <2>1, <1>1, RequestStates DEF Stored, Forward
<1>7. QED
  BY <1>2, <1>3, <1>4, <1>5, <1>6
     DEF Next, Caller, Worker, SubmitRejected, NotifyOne, PollUnknown, PollPending,
         CancelProvider, NotifyAll, Join, WorkerSleep, SpuriousWakeup, WorkerExit,
         WorkerPop, WakeGated, SendBegin, SendReturn, SendAborted, vars

\* A completion is consumed exactly once, and the answer given to a request
\* by Shutdown is never replaced by a result that arrives late.
THEOREM AnswersStayFinal == Spec => AnswersAreFinal
<1>1. IInv /\ [Next]_vars => [\A id \in Ids : Forward(id)]_vars
  BY StepForward
<1>2. [\A id \in Ids : Forward(id)]_vars =>
      [\A id \in Ids :
          /\ requests[id] = Absent /\ id < nextRequestId => requests'[id] = Absent
          /\ requests[id] = Failed => requests'[id] \in {Failed, Absent}
          /\ requests[id].state = "Ready" => requests'[id] \in {requests[id], Absent}
      ]_vars
  BY DEF Forward
<1>3. QED
  BY <1>1, <1>2, InductiveInvariant, PTL DEF Spec, AnswersAreFinal
-----------------------------------------------------------------------------
(* Refinement: the two threads implement the abstract queue.               *)

Status == [id \in Ids |-> StatusOf(id)]
Outcome == [id \in Ids |-> requests[id].result]

\* The abstract status of a request, case by case.
LEMMA StatusCases ==
    ASSUME TypeOK, NEW id \in Ids
    PROVE  /\ requests[id] = Pending => StatusOf(id) = "pending"
           /\ requests[id] = Failed => StatusOf(id) = "failed"
           /\ requests[id].state = "Ready" => StatusOf(id) = "done"
           /\ requests[id] = Absent /\ id < nextRequestId => StatusOf(id) = "taken"
           /\ requests[id] = Absent /\ id >= nextRequestId => StatusOf(id) = "new"
           /\ requests[id] \in {Pending, Failed, Absent} \/ requests[id].state = "Ready"
<1>1. /\ requests[id] \in Requests /\ id \in Nat /\ nextRequestId \in Nat
      /\ id < nextRequestId <=> ~(id >= nextRequestId)
  BY MaxRequestsAssumption DEF TypeOK, Ids
<1>2. requests[id] \in {Pending, Failed, Absent} \/ requests[id].state = "Ready"
  BY <1>1, RequestKinds
<1>3. /\ requests[id] = Pending => StatusOf(id) = "pending"
      /\ requests[id] = Failed => StatusOf(id) = "failed"
  BY RequestStates DEF StatusOf
<1>4. requests[id].state = "Ready" => StatusOf(id) = "done"
  BY RequestStates DEF StatusOf
<1>5. requests[id] = Absent => StatusOf(id) = IF id < nextRequestId THEN "taken" ELSE "new"
  BY RequestStates DEF StatusOf
<1>6. QED
  BY <1>1, <1>2, <1>3, <1>4, <1>5

\* A queue that was just made is an abstract queue nobody has asked.
LEMMA InitPromise == Init => Promise!Init
<1> SUFFICES ASSUME Init PROVE Promise!Init
  OBVIOUS
<1>1. \A id \in Ids : requests[id] = Absent /\ id >= nextRequestId /\ id \in Nat
  BY MaxRequestsAssumption DEF Init, Ids
<1>2. \A id \in Ids : StatusOf(id) = "new" /\ requests[id].result = None
  BY <1>1, InitType, StatusCases, RequestStates
<1>3. QED
  BY <1>2 DEF Init, Promise!Init, Promise!Ids, Ids, Promise!Answer

\* A submit is Ask for the next id.
LEMMA SubmitPromise ==
    ASSUME IInv, IInv', NEW ctx \in Contexts, SubmitAccepted(ctx),
           NEW n \in Ids, n = nextRequestId
    PROVE  Promise!Ask(n, ctx)
<1>1. /\ n \in Nat /\ ~shutdown /\ nextRequestId' = n + 1
      /\ requests \in [Ids -> Requests] /\ requests' = [requests EXCEPT ![n] = Pending]
      /\ submitted' = [submitted EXCEPT ![n] = ctx] /\ shutdown' = shutdown
      /\ reply' = [id |-> n, answer |-> "queued", result |-> None]
      /\ TypeOK /\ TypeOK'
  BY MaxRequestsAssumption DEF SubmitAccepted, IInv, TypeOK, Ids
<1>2. requests[n] = Absent /\ StatusOf(n) = "new"
  BY <1>1, StatusCases DEF IInv, FreshIds
<1>3. \A i \in Ids : i < n => StatusOf(i) # "new"
  BY <1>1, StatusCases, RequestKinds
<1>4. StatusOf(n)' = "pending" /\ requests'[n].result = None
  BY <1>1, RequestStates DEF StatusOf
<1>5. ASSUME NEW i \in Ids, i # n
      PROVE  requests'[i] = requests[i] /\ StatusOf(i)' = StatusOf(i)
  <2>1. requests'[i] = requests[i] /\ (i < n <=> i < n + 1)
    BY <1>1, <1>5, MaxRequestsAssumption DEF Ids
  <2>2. QED
    BY <2>1, <1>1 DEF StatusOf
<1>6. Status' = [Status EXCEPT ![n] = "pending"]
  BY <1>1, <1>4, <1>5 DEF Status
<1>7. Outcome' = Outcome
  BY <1>1, <1>2, <1>4, <1>5, RequestStates DEF Outcome
<1>8. QED
  BY <1>1, <1>2, <1>3, <1>6, <1>7
     DEF Promise!Ask, Promise!Ids, Ids, Status, Outcome, Promise!Answer

\* A Poll that answers is Take.
LEMMA PollPromise ==
    ASSUME IInv, IInv', NEW id \in Ids, PollFinished(id)
    PROVE  Promise!Take(id)
<1>1. /\ requests \in [Ids -> Requests] /\ requests' = [requests EXCEPT ![id] = Absent]
      /\ requests[id].state \in {"Ready", "Failed"} /\ requests[id] \in Requests
      /\ UNCHANGED <<nextRequestId, submitted, shutdown>>
      /\ id \in Nat /\ nextRequestId \in Nat /\ TypeOK /\ TypeOK'
  BY MaxRequestsAssumption DEF PollFinished, Erased, IInv, TypeOK, Ids
<1>2. id < nextRequestId
  BY <1>1, RequestStates DEF IInv, FreshIds
<1>3. StatusOf(id)' = "taken" /\ requests'[id].result = None
  BY <1>1, <1>2, RequestStates DEF StatusOf
<1>4. \A i \in Ids : i # id => requests'[i] = requests[i] /\ StatusOf(i)' = StatusOf(i)
  BY <1>1 DEF StatusOf
<1>5. /\ Status' = [Status EXCEPT ![id] = "taken"]
      /\ Outcome' = [Outcome EXCEPT ![id] = None]
  BY <1>1, <1>3, <1>4 DEF Status, Outcome
<1>6. CASE requests[id] = Failed
  BY <1>1, <1>5, <1>6, StatusCases, RequestStates
     DEF Promise!Take, Promise!Ids, Ids, Status, Outcome, Promise!Answer, PollFinished
<1>7. CASE requests[id] # Failed
  <2>1. StatusOf(id) = "done"
    BY <1>1, <1>7, StatusCases, RequestKinds
  <2>2. reply' = [id |-> id, answer |-> "result", result |-> Outcome[id]]
    BY <1>7 DEF PollFinished, Outcome
  <2>3. QED
    BY <1>1, <1>5, <2>1, <2>2
       DEF Promise!Take, Promise!Ids, Ids, Status, Outcome, Promise!Answer
<1>8. QED
  BY <1>6, <1>7

\* The critical section of Shutdown is Close.
LEMMA ShutdownPromise ==
    ASSUME IInv, IInv', ShutdownLocked
    PROVE  Promise!Close
<1>1. /\ ~shutdown /\ shutdown' /\ requests' = FailPending(requests)
      /\ UNCHANGED <<nextRequestId, submitted, reply>>
      /\ requests \in [Ids -> Requests] /\ TypeOK /\ TypeOK'
  BY DEF ShutdownLocked, IInv, ThreadsAgree, TypeOK
<1>2. ASSUME NEW i \in Ids
      PROVE  /\ requests'[i].result = requests[i].result
             /\ StatusOf(i)' = IF StatusOf(i) = "pending" THEN "failed" ELSE StatusOf(i)
  <2>1. CASE requests[i] = Pending
    <3>1. requests'[i] = Failed
      BY <1>1, <2>1 DEF FailPending
    <3>2. StatusOf(i) = "pending" /\ StatusOf(i)' = "failed"
      BY <2>1, <3>1, RequestStates DEF StatusOf
    <3>3. QED
      BY <2>1, <3>1, <3>2, RequestStates
  <2>2. CASE requests[i] # Pending
    <3>1. requests'[i] = requests[i]
      BY <1>1, <2>2 DEF FailPending
    <3>2. StatusOf(i)' = StatusOf(i) /\ StatusOf(i) # "pending"
      BY <1>1, <2>2, <3>1 DEF StatusOf
    <3>3. QED
      BY <3>1, <3>2
  <2>3. QED
    BY <2>1, <2>2
<1>3. /\ Status' = [i \in Ids |-> IF Status[i] = "pending" THEN "failed" ELSE Status[i]]
      /\ Outcome' = Outcome
  BY <1>2 DEF Status, Outcome
<1>4. QED
  BY <1>1, <1>3 DEF Promise!Close, Promise!Ids, Ids, Status, Outcome

\* Storing a result is Finish for the oldest pending wake, or invisible when
\* Shutdown got there first.
LEMMA StorePromise ==
    ASSUME IInv, IInv', WorkerStore, NEW id \in Ids, id = job.id
    PROVE  \/ \E kind \in {"plan", "coast", "error"} : Promise!Finish(id, kind)
           \/ UNCHANGED Promise!vars
<1>1. /\ workerPc = "storing" /\ requests' = Stored(requests, id, wakeResult)
      /\ UNCHANGED <<nextRequestId, submitted, shutdown, reply>>
      /\ requests \in [Ids -> Requests] /\ TypeOK /\ TypeOK'
  BY DEF WorkerStore, IInv, TypeOK
<1>2. wakeResult \in Results /\ wakeResult.ctx = submitted[id]
  BY <1>1 DEF IInv, HeldJobIsCurrent, WorkerBusy
<1>3. CASE requests[id] # Pending
  <2>1. requests' = requests
    BY <1>1, <1>3 DEF Stored
  <2>2. \A i \in Ids : StatusOf(i)' = StatusOf(i)
    BY <1>1, <2>1 DEF StatusOf
  <2>3. Status' = Status /\ Outcome' = Outcome
    BY <2>1, <2>2 DEF Status, Outcome
  <2>4. QED
    BY <1>1, <2>3 DEF Promise!vars, Status, Outcome
<1>4. CASE requests[id] = Pending
  <2>1. requests' = [requests EXCEPT ![id] = Ready(wakeResult)]
    BY <1>1, <1>4 DEF Stored
  <2>2. StatusOf(id) = "pending" /\ StatusOf(id)' = "done"
    BY <1>1, <1>4, <2>1, RequestStates DEF StatusOf
  <2>3. \A i \in Ids : i # id => requests'[i] = requests[i] /\ StatusOf(i)' = StatusOf(i)
    BY <1>1, <2>1 DEF StatusOf
  <2>4. PICK k \in {"plan", "coast", "error"} :
            wakeResult = [ctx |-> submitted[id], kind |-> k]
    BY <1>2 DEF Results
  <2>5. /\ Status' = [Status EXCEPT ![id] = "done"]
        /\ Outcome' = [Outcome EXCEPT ![id] = wakeResult]
    <3>1. Status' = [Status EXCEPT ![id] = "done"]
      BY <2>2, <2>3 DEF Status
    <3>2. requests'[id].result = wakeResult
      BY <1>1, <2>1, RequestStates
    <3>3. Outcome' = [Outcome EXCEPT ![id] = wakeResult]
      BY <2>3, <3>2 DEF Outcome
    <3>4. QED
      BY <3>1, <3>3
  <2>6. ASSUME NEW i \in Ids, i < id
        PROVE  StatusOf(i) # "pending"
    <3>1. WorkerHolds(id) /\ (WorkerHolds(i) => i = id) /\ i # id
      BY <1>1, <2>6, MaxRequestsAssumption DEF WorkerHolds, Ids
    <3>2. ~InJobs(i)
      BY <2>6, <3>1, QueuedJobs, <1>1 DEF IInv, ServedInOrder, InJobs
    <3>3. requests[i] # Pending
      BY <3>1, <3>2 DEF IInv, PendingIsServed
    <3>4. QED
      BY <3>3, <1>1 DEF StatusOf
  <2>7. Promise!Finish(id, k)
    BY <1>1, <2>2, <2>4, <2>5, <2>6
       DEF Promise!Finish, Promise!Ids, Ids, Status, Outcome
  <2>8. QED
    BY <2>4, <2>7
<1>5. QED
  BY <1>3, <1>4

\* Polling what is not finished is Inquire.
LEMMA InquirePromise ==
    ASSUME IInv, NEW id \in 0..(MaxRequests + 1),
           PollUnknown(id) \/ (id \in Ids /\ PollPending(id))
    PROVE  Promise!Inquire(id)
<1>1. /\ UNCHANGED <<requests, nextRequestId, submitted, shutdown>> /\ TypeOK
  BY DEF PollUnknown, PollPending, IInv
<1>2. Status' = Status /\ Outcome' = Outcome
  <2>1. \A i \in Ids : StatusOf(i)' = StatusOf(i)
    BY <1>1 DEF StatusOf
  <2>2. QED
    BY <1>1, <2>1 DEF Status, Outcome
<1>3. CASE PollUnknown(id)
  <2>1. ASSUME id \in Ids PROVE StatusOf(id) \in {"new", "taken"}
    <3>1. requests[id] = Absent /\ id \in Nat /\ nextRequestId \in Nat
      BY <1>1, <1>3, <2>1, MaxRequestsAssumption DEF PollUnknown, TypeOK
    <3>2. id < nextRequestId \/ id >= nextRequestId
      BY <3>1
    <3>3. QED
      BY <1>1, <2>1, <3>1, <3>2, StatusCases
  <2>2. QED
    BY <1>1, <1>2, <1>3, <2>1
       DEF PollUnknown, Promise!Inquire, Promise!Ids, Ids, Status, Outcome, Promise!Answer
<1>4. CASE id \in Ids /\ PollPending(id)
  <2>1. StatusOf(id) = "pending"
    BY <1>1, <1>4, StatusCases DEF PollPending
  <2>2. QED
    BY <1>1, <1>2, <1>4, <2>1
       DEF PollPending, Promise!Inquire, Promise!Ids, Ids, Status, Outcome, Promise!Answer
<1>5. QED
  BY <1>3, <1>4

\* The steps the caller cannot see, and the rejected Submit.
LEMMA HiddenPromise ==
    ASSUME IInv,
           \/ SubmitRejected \/ NotifyOne \/ CancelProvider \/ NotifyAll \/ Join
           \/ WorkerSleep \/ SpuriousWakeup \/ WorkerExit \/ WorkerPop
           \/ WakeGated \/ SendBegin \/ SendReturn \/ SendAborted \/ UNCHANGED vars
    PROVE  Promise!Refuse \/ UNCHANGED Promise!vars
<1>1. UNCHANGED <<requests, nextRequestId, submitted, shutdown>>
  BY DEF SubmitRejected, NotifyOne, CancelProvider, NotifyAll, Join, WorkerSleep,
         SpuriousWakeup, WorkerExit, WorkerPop, WakeGated, SendBegin, SendReturn,
         SendAborted, vars
<1>2. \A i \in Ids : StatusOf(i)' = StatusOf(i)
  BY <1>1 DEF StatusOf
<1>3. Status' = Status /\ Outcome' = Outcome
  BY <1>1, <1>2 DEF Status, Outcome
<1>4. CASE SubmitRejected
  BY <1>1, <1>3, <1>4
     DEF SubmitRejected, Promise!Refuse, Status, Outcome, Promise!Answer
<1>5. CASE ~SubmitRejected
  <2>1. UNCHANGED reply
    BY <1>5 DEF NotifyOne, CancelProvider, NotifyAll, Join, WorkerSleep,
         SpuriousWakeup, WorkerExit, WorkerPop, WakeGated, SendBegin, SendReturn,
         SendAborted, vars
  <2>2. QED
    BY <1>1, <1>3, <2>1 DEF Promise!vars, Status, Outcome
<1>6. QED
  BY <1>4, <1>5

\* Every step of either thread is a step of the abstract queue or invisible.
LEMMA NextPromise == IInv /\ IInv' /\ [Next]_vars => [Promise!Next]_(Promise!vars)
<1> SUFFICES ASSUME IInv, IInv', [Next]_vars PROVE [Promise!Next]_(Promise!vars)
  OBVIOUS
<1> USE DEF Promise!Next, Promise!Ids, Ids
<1>1. CASE \E ctx \in Contexts : SubmitAccepted(ctx)
  <2>1. nextRequestId \in Ids
    BY <1>1 DEF SubmitAccepted
  <2>2. QED
    BY <1>1, <2>1, SubmitPromise
<1>2. CASE \E id \in Ids : PollFinished(id)
  BY <1>2, PollPromise
<1>3. CASE ShutdownLocked
  BY <1>3, ShutdownPromise
<1>4. CASE WorkerStore
  <2>1. job.id \in Ids
    BY <1>4 DEF WorkerStore, IInv, HeldJobIsCurrent, WorkerBusy, Jobs
  <2>2. QED
    BY <1>4, <2>1, StorePromise DEF Promise!FinishSome
<1>5. CASE \E id \in 0..(MaxRequests + 1) : PollUnknown(id)
  BY <1>5, InquirePromise
<1>6. CASE \E id \in Ids : PollPending(id)
  BY <1>6, InquirePromise, MaxRequestsAssumption
<1>7. CASE \/ SubmitRejected \/ NotifyOne \/ CancelProvider \/ NotifyAll \/ Join
           \/ WorkerSleep \/ SpuriousWakeup \/ WorkerExit \/ WorkerPop
           \/ WakeGated \/ SendBegin \/ SendReturn \/ SendAborted \/ UNCHANGED vars
  BY <1>7, HiddenPromise
<1>8. QED
  BY <1>1, <1>2, <1>3, <1>4, <1>5, <1>6, <1>7 DEF Next, Caller, Worker

\* Two threads, a deque, a map and a condition variable are, to the caller,
\* the abstract queue of WakeRequests: in-order, once-only, settled by Close.
THEOREM QueueKeepsPromise == Spec => KeepsPromise
<1>1. Init => Promise!Init
  BY InitPromise
<1>2. IInv /\ IInv' /\ [Next]_vars => [Promise!Next]_(Promise!vars)
  BY NextPromise
<1>3. QED
  BY <1>1, <1>2, InductiveInvariant, PTL DEF Spec, KeepsPromise, Promise!Spec

=============================================================================
