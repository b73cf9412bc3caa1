--------------------------- MODULE TaskScheduler ---------------------------
(***************************************************************************)
(* TaskManager (TaskManager.cpp, Task.hpp, Event.cpp) under parallel loops *)
(* (ParallelFor.hpp): the main thread and the task workers push, pop and   *)
(* steal the pieces of loops, sleep on an event, and are torn down.        *)
(*                                                                         *)
(* An access to an atomic, to the event or under workersLock is a step of  *)
(* its own; accesses are sequentially consistent and a weak exchange fails *)
(* only when the head has moved, as on x86.  A queue is the sequence of    *)
(* its untaken tasks, which is what TaskRing is as long as it is not       *)
(* crowded.  A task is the range it runs on: no two tasks have the same.   *)
(***************************************************************************)
EXTENDS TaskRange, SequencesExt, FiniteSets, TLC

CONSTANTS
    Main,         \* the primary thread, which makes the TaskManager
    Workers,      \* the threads of SpawnThreads
    MaxPauses,    \* bound: how often Pause is called
    NoTask,       \* nullptr
    NoThread,
    NoLoop

ASSUME ThreadsAssumption == Main \notin Workers /\ IsFiniteSet(Workers)
ASSUME MaxPausesAssumption == MaxPauses \in Nat
ASSUME NoTaskAssumption == NoTask \notin Ranges

Threads == Workers \cup {Main}

VARIABLES
    thread,       \* where each thread is, and its locals
    queue,        \* the untaken tasks of each thread's TaskQueue
    tasks,        \* of each task created: Data::jobs and Data::parent
    runs,         \* how often each index of each loop was run
    started,      \* the loops that have been started
    waitFor,      \* the loop that the main thread is in Wait for
    list,         \* TaskManager::workers
    lock,         \* who holds workersLock
    signaled,     \* newWorkArrived
    active,       \* activeWorkersCount
    shouldPause, shouldStop,
    alarms,       \* how often the destructor still calls Set before it drains
    pauses,       \* bounded by MaxPauses
    gaveUp        \* has a deadline of five seconds passed

control == <<list, lock, active, shouldPause, shouldStop, alarms, pauses, gaveUp>>
work == <<queue, tasks, runs, started>>
vars == <<thread, work, waitFor, signaled, control>>

\* pc: the next step.  stage: which queue ExecuteOneTask is at ("own", "first",
\* "steal"), or "drain" in the last loop of a thread that is leaving.
Resting(p) == [pc |-> p, stage |-> "own", victim |-> NoThread, task |-> NoTask, todo |-> <<>>]

Registered(t) == \E i \in 1..Len(list) : list[i] = t
Others(t) == {list[i] : i \in 1..Len(list)} \ {t}

\* The task of the whole loop, and Task::IsFinished.
RootOf(l) == CHOOSE r \in DOMAIN tasks : r.loop = l /\ tasks[r].parent = NoTask
IsFinished(l) ==
    /\ \E r \in DOMAIN tasks : r.loop = l
    /\ tasks[RootOf(l)].jobs = 0

\* The constructor has registered the main thread, and SpawnThreads has run.
Init ==
    /\ thread = [t \in Threads |-> Resting(IF t = Main THEN "user" ELSE "start")]
    /\ queue = [t \in Threads |-> <<>>]
    /\ tasks = <<>>
    /\ runs = [l \in Loops |-> [i \in 0..(LoopSize[l] - 1) |-> 0]]
    /\ started = {}
    /\ waitFor = NoLoop
    /\ list = <<Main>>
    /\ lock = NoThread
    /\ signaled = FALSE
    /\ active = 0
    /\ shouldPause = FALSE /\ shouldStop = FALSE
    /\ alarms = 0
    /\ pauses = 0
    /\ gaveUp = FALSE

At(t, p) == thread[t].pc = p
Goto(t, p) == thread' = [thread EXCEPT ![t] = Resting(p)]
\* ExecuteOneTask looks at the next queue, or a drain at its own again.
Seek(t, s) == thread' = [thread EXCEPT ![t] = [Resting("look") EXCEPT !.stage = s]]

-----------------------------------------------------------------------------
(* Tasks: AddTask, operator() and the walk up the parents.                 *)

\* MUTANT: the constructor of a child does not tell its parent.
NotAdopted(parent) == tasks
\* A task that a body adds is a child of the task that runs it.
Adopted(parent) ==
    IF parent = NoTask THEN tasks ELSE [tasks EXCEPT ![parent].jobs = @ + 1]

PushTask(t) ==
    LET me == thread[t]
        new == Head(me.todo)
    IN  /\ me.pc = "push"
        /\ tasks' = [r \in DOMAIN tasks \cup {new} |->
                        IF r = new THEN [jobs |-> 1, parent |-> me.task] ELSE Adopted(me.task)[r]]
        /\ queue' = [queue EXCEPT ![t] = Append(@, new)]
        /\ thread' = [thread EXCEPT ![t].pc = "notify", ![t].todo = Tail(@)]
        /\ UNCHANGED <<runs, started, waitFor, signaled, control>>

\* MUTANT: nobody is woken for the new task.
NotSet == signaled
\* Event::Set merges with one that nobody has consumed.
Set == TRUE

Notify(t) ==
    /\ At(t, "notify")
    /\ signaled' = Set
    /\ thread' = [thread EXCEPT ![t].pc =
                    IF thread[t].todo # <<>> THEN "push"
                    ELSE IF thread[t].task = NoTask THEN "user" ELSE "finish"]
    /\ UNCHANGED <<work, waitFor, control>>

\* MUTANT: the range is cut down before the left half is made.
HalvesOfRest(r) == <<LeftOf(RightOf(r)), RightOf(r)>>
\* ParallelFor's functor: add the two halves, or run the function.
Halves(r) == <<LeftOf(r), RightOf(r)>>

RunSplit(t) ==
    /\ At(t, "run")
    /\ IsSplittable(thread[t].task)
    /\ thread' = [thread EXCEPT ![t].pc = "push",
                    ![t].todo = Halves(thread[t].task)]
    /\ UNCHANGED <<work, waitFor, signaled, control>>

RunFunction(t) ==
    LET r == thread[t].task
    IN  /\ At(t, "run")
        /\ ~IsSplittable(r)
        /\ runs' = [runs EXCEPT ![r.loop] =
                      [i \in DOMAIN @ |-> IF i \in Indices(r) THEN @[i] + 1 ELSE @[i]]]
        /\ thread' = [thread EXCEPT ![t].pc = "finish"]
        /\ UNCHANGED <<queue, tasks, started, waitFor, signaled, control>>

\* Where a thread goes on when it has executed a task.
AfterTask(t) ==
    IF thread[t].stage = "drain" THEN Seek(t, "drain")
    ELSE Goto(t, IF t = Main THEN "wait" ELSE "top")

\* MUTANT: nobody tells the parent.
ClosesNever(left) == FALSE
ClosesTask(left) == left = 0

\* fetch_sub on one task; the last job of a task finishes one of its parent.
Finish(t) ==
    LET r == thread[t].task
        left == tasks[r].jobs - 1
    IN  /\ At(t, "finish")
        /\ tasks' = [tasks EXCEPT ![r].jobs = left]
        /\ IF ClosesTask(left) /\ tasks[r].parent # NoTask
           THEN thread' = [thread EXCEPT ![t].task = tasks[r].parent]
           ELSE AfterTask(t)
        /\ UNCHANGED <<queue, runs, started, waitFor, signaled, control>>

-----------------------------------------------------------------------------
(* ExecuteOneTask: the own queue, that of the first worker, one of another *)
(* chosen at random.  TryToSteal's five attempts are one: one that fails   *)
(* leaves no trace, so whatever five can do one can.                       *)

\* The queues a thread may look at next.  A lone worker finds nobody to steal
\* from and draws for ever.
Victims(t) ==
    CASE thread[t].stage \in {"own", "drain"} -> {t}
      [] thread[t].stage = "first" -> {list[1]}
      [] thread[t].stage = "steal" -> Others(t)

\* There was no task, or another thread was faster.
Missed(t) ==
    CASE thread[t].stage = "own" -> Seek(t, "first")
      [] thread[t].stage = "first" -> Seek(t, "steal")
      [] thread[t].stage = "steal" -> Goto(t, IF t = Main THEN "wait" ELSE "idle")
      [] thread[t].stage = "drain" -> Goto(t, "unregister")

\* pop reads the head and the task there ...
LookAt(t, v) ==
    /\ At(t, "look")
    /\ v \in Victims(t)
    /\ IF queue[v] = <<>> THEN Missed(t)
       ELSE thread' = [thread EXCEPT ![t].pc = "swap", ![t].victim = v,
                                     ![t].task = Head(queue[v])]
    /\ UNCHANGED <<work, waitFor, signaled, control>>

\* ... and moves the head if it is still there.
StillThere(t) ==
    /\ queue[thread[t].victim] # <<>>
    /\ Head(queue[thread[t].victim]) = thread[t].task

Take(t) ==
    /\ At(t, "swap")
    /\ StillThere(t)
    /\ queue' = [queue EXCEPT ![thread[t].victim] = Tail(@)]
    /\ thread' = [thread EXCEPT ![t].pc = IF thread[t].stage = "steal" THEN "share" ELSE "run"]
    /\ UNCHANGED <<tasks, runs, started, waitFor, signaled, control>>

LoseRace(t) ==
    /\ At(t, "swap")
    /\ ~StillThere(t)
    /\ Missed(t)
    /\ UNCHANGED <<work, waitFor, signaled, control>>

\* A thief wakes another one if there is more.
Share(t) ==
    /\ At(t, "share")
    /\ signaled' = (signaled \/ queue[thread[t].victim] # <<>>)
    /\ thread' = [thread EXCEPT ![t].pc = "run"]
    /\ UNCHANGED <<work, waitFor, control>>

TaskStep(t) ==
    \/ PushTask(t) \/ Notify(t) \/ Finish(t)
    \/ \E v \in Threads : LookAt(t, v)
    \/ Take(t) \/ LoseRace(t) \/ Share(t)
RunBody(t) == RunSplit(t) \/ RunFunction(t)

-----------------------------------------------------------------------------
(* The main thread: engine code that starts loops, waits for them, pauses  *)
(* the scheduler when the window loses the focus, and destroys it.         *)

StartLoop(l) ==
    /\ At(Main, "user")
    /\ l \notin started
    /\ started' = started \cup {l}
    /\ thread' = [thread EXCEPT ![Main].pc = "push",
                                ![Main].todo = <<WholeRange(l, Len(list))>>]
    /\ UNCHANGED <<queue, tasks, runs, waitFor, signaled, control>>

BeginWait(l) ==
    /\ At(Main, "user")
    /\ l \in started
    /\ ~IsFinished(l)
    /\ waitFor' = l
    /\ Goto(Main, "wait")
    /\ UNCHANGED <<work, signaled, control>>

WaitTurn ==
    /\ At(Main, "wait")
    /\ ~IsFinished(waitFor)
    /\ Seek(Main, "own")
    /\ UNCHANGED <<work, waitFor, signaled, control>>

WaitDone ==
    /\ At(Main, "wait")
    /\ IsFinished(waitFor)
    /\ waitFor' = NoLoop
    /\ Goto(Main, "user")
    /\ UNCHANGED <<work, signaled, control>>

Pause(b) ==
    /\ At(Main, "user")
    /\ pauses < MaxPauses
    /\ pauses' = pauses + 1
    /\ shouldPause' = b
    /\ UNCHANGED <<thread, work, waitFor, signaled, list, lock, active, shouldStop, alarms, gaveUp>>

Destroy ==
    /\ At(Main, "user")
    /\ shouldStop' = TRUE
    /\ alarms' = Cardinality(Workers)
    /\ Goto(Main, "alarm")
    /\ UNCHANGED <<work, waitFor, signaled, list, lock, active, shouldPause, pauses, gaveUp>>

Alarm ==
    /\ At(Main, "alarm")
    /\ IF alarms > 0
       THEN signaled' = TRUE /\ alarms' = alarms - 1 /\ UNCHANGED thread
       ELSE Seek(Main, "drain") /\ UNCHANGED <<signaled, alarms>>
    /\ UNCHANGED <<work, waitFor, list, lock, active, shouldPause, shouldStop, pauses, gaveUp>>

\* Only a task that does not return makes anybody wait for five seconds.
SomeTaskHangs == \E w \in Workers : At(w, "run")

\* The destructor wakes the workers until all have unregistered ...
Reap ==
    /\ At(Main, "reap")
    /\ list # <<>>
    /\ signaled' = TRUE
    /\ UNCHANGED <<thread, work, waitFor, control>>

\* ... joins them, or detaches them after the deadline.
Join ==
    /\ At(Main, "reap")
    /\ list = <<>>
    /\ \A w \in Workers : At(w, "gone")
    /\ Goto(Main, "done")
    /\ UNCHANGED <<work, waitFor, signaled, control>>

\* MUTANT: as before the deadlines were introduced.
NeverGivesUp == FALSE
MayGiveUp == SomeTaskHangs

Abandon ==
    /\ At(Main, "reap")
    /\ list # <<>>
    /\ MayGiveUp
    /\ gaveUp' = TRUE
    /\ Goto(Main, "done")
    /\ UNCHANGED <<work, waitFor, signaled, list, lock, active, shouldPause, shouldStop, alarms, pauses>>

-----------------------------------------------------------------------------
(* RegisterThisThreadAsWorker, the loop of TaskWorkerStart, and            *)
(* UnregisterThisThreadAsWorker, which the destructor calls as well.       *)

Register(w) ==
    /\ At(w, "start")
    /\ lock = NoThread
    /\ list' = Append(list, w)
    /\ Goto(w, "join")
    /\ UNCHANGED <<work, waitFor, signaled, lock, active, shouldPause, shouldStop, alarms, pauses, gaveUp>>

\* SetThreadStatus(true), first and after each sleep.
Activate(w) ==
    /\ At(w, "join")
    /\ active' = active + 1
    /\ Goto(w, "top")
    /\ UNCHANGED <<work, waitFor, signaled, list, lock, shouldPause, shouldStop, alarms, pauses, gaveUp>>

CheckStop(w) ==
    /\ At(w, "top")
    /\ Goto(w, IF shouldStop THEN "leave" ELSE "gate")
    /\ UNCHANGED <<work, waitFor, signaled, control>>


CheckPause(w) ==
    /\ At(w, "gate")
    /\ IF ~shouldPause THEN Seek(w, "own") ELSE Goto(w, "idle")
    /\ UNCHANGED <<work, waitFor, signaled, control>>

\* SetThreadStatus(false), before a sleep and before the drain.
Deactivate(w) ==
    /\ thread[w].pc \in {"idle", "leave"}
    /\ active' = active - 1
    /\ IF At(w, "idle") THEN Goto(w, "asleep") ELSE Seek(w, "drain")
    /\ UNCHANGED <<work, waitFor, signaled, list, lock, shouldPause, shouldStop, alarms, pauses, gaveUp>>

\* Event::Wait consumes the signal, for one of those who wait.
Wake(w) ==
    /\ At(w, "asleep")
    /\ signaled
    /\ signaled' = FALSE
    /\ Goto(w, "woken")
    /\ UNCHANGED <<work, waitFor, control>>

CheckWoken(w) ==
    /\ At(w, "woken")
    /\ Goto(w, IF shouldPause THEN "asleep" ELSE "join")
    /\ UNCHANGED <<work, waitFor, signaled, control>>

Unregister(t) ==
    /\ At(t, "unregister")
    /\ lock = NoThread
    /\ lock' = t
    /\ shouldPause' = TRUE
    /\ Goto(t, "quiet")
    /\ UNCHANGED <<work, waitFor, signaled, list, active, shouldStop, alarms, pauses, gaveUp>>

\* MUTANT: the thread does not wait for the others to pause.
NoNeedToWait == TRUE
AllPaused == active = 0

SeeQuiet(t) ==
    /\ At(t, "quiet")
    /\ AllPaused
    /\ Goto(t, "erase")
    /\ UNCHANGED <<work, waitFor, signaled, control>>

GiveUp(t) ==
    /\ At(t, "quiet")
    /\ active # 0
    /\ MayGiveUp
    /\ gaveUp' = TRUE
    /\ Goto(t, "erase")
    /\ UNCHANGED <<work, waitFor, signaled, list, lock, active, shouldPause, shouldStop, alarms, pauses>>

Erase(t) ==
    /\ At(t, "erase")
    /\ \E i \in 1..Len(list) : list[i] = t /\ list' = RemoveAt(list, i)
    /\ Goto(t, "resume")
    /\ UNCHANGED <<work, waitFor, signaled, lock, active, shouldPause, shouldStop, alarms, pauses, gaveUp>>

Resume(t) ==
    /\ At(t, "resume")
    /\ shouldPause' = FALSE
    /\ lock' = NoThread
    /\ Goto(t, IF t = Main THEN "reap" ELSE "gone")
    /\ UNCHANGED <<work, waitFor, signaled, list, active, shouldStop, alarms, pauses, gaveUp>>

UnregisterStep(t) == Unregister(t) \/ SeeQuiet(t) \/ GiveUp(t) \/ Erase(t) \/ Resume(t)

WorkerStep(w) ==
    \/ Register(w) \/ Activate(w) \/ CheckStop(w) \/ CheckPause(w)
    \/ Deactivate(w) \/ Wake(w) \/ CheckWoken(w)

MainCall ==
    \/ \E l \in Loops : StartLoop(l) \/ BeginWait(l)
    \/ \E b \in BOOLEAN : Pause(b)
    \/ Destroy
MainStep == WaitTurn \/ WaitDone \/ Alarm \/ Reap \/ Join \/ Abandon

\* When the destructor has returned, the process is about to end.
Ended == At(Main, "done") /\ UNCHANGED vars

Next ==
    \/ /\ ~At(Main, "done")
       /\ \/ MainCall \/ MainStep
          \/ \E t \in Threads : TaskStep(t) \/ RunBody(t) \/ UnregisterStep(t)
          \/ \E w \in Workers : WorkerStep(w)
    \/ Ended

Spec == Init /\ [][Next]_vars

-----------------------------------------------------------------------------
(* Fairness: every thread runs, and the random choice of a victim leaves   *)
(* nobody out for ever.  What a task's body does on a worker is not the    *)
(* scheduler's: it may never return.  What the engine does on the main     *)
(* thread, the bodies there included, returns.                             *)
OwnStep(t) ==
    \/ TaskStep(t) \/ UnregisterStep(t)
    \/ t = Main /\ (MainStep \/ RunBody(t))
    \/ t # Main /\ WorkerStep(t)
ThreadFairness ==
    /\ \A t \in Threads : WF_vars(OwnStep(t))
    /\ \A w \in Workers : SF_vars(LookAt(Main, w))
BodiesFinish == \A w \in Workers : WF_vars(RunBody(w))

FairSpec == Spec /\ ThreadFairness

-----------------------------------------------------------------------------
(* Properties.                                                             *)

\* The pieces of loop l that no thread has run or split yet.
Pieces(l) ==
    {r \in UNION {Range(queue[t]) \cup Range(thread[t].todo)
                     \cup (IF thread[t].pc \in {"share", "run"} THEN {thread[t].task} ELSE {})
                  : t \in Threads} : r.loop = l}

Loop(l) == INSTANCE ParallelLoop
    WITH Loop <- l, waiting <- Pieces(l), begun <- l \in started, runs <- runs[l]

Steps == {"user", "wait", "push", "notify", "look", "swap", "share", "run", "finish", "alarm",
          "reap", "done", "start", "join", "top", "gate", "idle", "asleep", "woken", "leave",
          "unregister", "quiet", "erase", "resume", "gone"}

\* Every variable has its type; Data::jobs is never negative, which is the
\* assertion "The same task was executed two times", and no more workers are
\* counted as active than there are.
TypeOK ==
    /\ DOMAIN tasks \subseteq Ranges
    /\ \A r \in DOMAIN tasks : tasks[r].jobs \in 0..3 /\ tasks[r].parent \in DOMAIN tasks \cup {NoTask}
    /\ \A t \in Threads :
          /\ thread[t].pc \in Steps
          /\ thread[t].task \in DOMAIN tasks \cup {NoTask}
          /\ Range(queue[t]) \subseteq DOMAIN tasks
    /\ waitFor \in started \cup {NoLoop}
    /\ Range(list) \subseteq Threads
    /\ lock \in Threads \cup {NoThread}
    /\ active \in 0..Cardinality(Workers)
    /\ {signaled, shouldPause, shouldStop, gaveUp} \subseteq BOOLEAN

\* Data::jobs of a task counts its own body until that has returned, each
\* child until the last job of the child is done, and the threads that are on
\* their way to take either off.
Held(t) ==
    IF thread[t].pc \in {"share", "run", "push", "notify"} THEN {thread[t].task} ELSE {}
JobsCountUnfinished ==
    \A r \in DOMAIN tasks :
        tasks[r].jobs =
            (IF \E t \in Threads : r \in Range(queue[t]) \cup Held(t) THEN 1 ELSE 0)
            + Cardinality({c \in DOMAIN tasks : tasks[c].parent = r /\ tasks[c].jobs > 0})
            + Cardinality({t \in Threads : At(t, "finish") /\ thread[t].task = r})

\* When a loop counts as finished, which is when Wait returns and the frame with
\* the function and what it captured goes away, every index has been run and
\* no queue and no thread still has a piece of it.
FinishedIsOver ==
    \A l \in Loops : IsFinished(l) =>
        /\ \A i \in DOMAIN runs[l] : runs[l][i] = 1
        /\ Pieces(l) = {}
        /\ \A t \in Threads : thread[t].pc \in {"push", "notify", "finish"} /\ thread[t].task # NoTask
                                 => thread[t].task.loop # l

\* A thread that reads the list of workers, or pops the queue of another one,
\* does so while the list does not change and that thread is still there: the
\* queue is thread-local storage of its owner.  A thread that steals has
\* somebody to steal from: alone it would draw itself for ever.  Unless a task
\* hung and somebody gave up waiting.
VictimsAreThere ==
    ~gaveUp =>
        \A t \in Threads :
            /\ At(t, "look") /\ thread[t].stage \in {"first", "steal"} =>
                   \A u \in Threads \ {t} : ~At(u, "erase")
            /\ At(t, "look") /\ thread[t].stage = "steal" => Others(t) # {}
            /\ thread[t].pc \in {"swap", "share"} => Registered(thread[t].victim)

\* A loop that the main thread has started, and does not work on itself, does
\* not wait for nothing: if all workers sleep, one is about to be woken.  A
\* pause may swallow the signal, and so may Wait: the main thread can take the
\* task of an earlier loop from under the worker that was woken for it, which
\* then looks into the queue of another sleeper and goes back to sleep.
NobodyOversleeps ==
    /\ pauses = 0
    /\ At(Main, "user") /\ queue[Main] # <<>>
    /\ \A l \in started : ~IsFinished(l)
    /\ \A w \in Workers : At(w, "asleep")
    => signaled

\* The steps of all threads on the pieces of a loop are those of a parallel
\* loop, whatever the others do.
RunsLoops ==
    /\ \A l \in Loops : Loop(l)!LoopInit
    /\ [][\A l \in Loops : [Loop(l)!LoopNext]_(Loop(l)!loopVars)]_vars

\* Wait returns if every task does, even if the workers are paused and a piece
\* is in the queue of one that sleeps.
WaitReturns == BodiesFinish => (At(Main, "wait") ~> At(Main, "user"))

\* The destructor returns even if a task on a worker never does.
DestroyReturns == shouldStop ~> At(Main, "done")

\* "Finish all pending tasks", says the destructor: when it has returned
\* without giving up, no task is left.
FinishAllPendingTasks ==
    At(Main, "done") /\ ~gaveUp => \A t \in Threads : queue[t] = <<>>
=============================================================================
