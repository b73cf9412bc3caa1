------------------------ MODULE TaskSchedulerProofs ------------------------
(***************************************************************************)
(* A thread that steals finds somebody to steal from, and nobody is taken  *)
(* off the list of workers while another thread reads it (unless somebody  *)
(* gave up waiting for a task that hangs).  A task's jobs are counted      *)
(* right, every step on the pieces of a loop is one of a parallel loop, a  *)
(* loop that counts as finished is over, and no task lies while all        *)
(* workers sleep: for any workers, any loops of any size and any number of *)
(* pauses.                                                                 *)
(***************************************************************************)
EXTENDS TaskScheduler, FiniteSetTheorems, SequenceTheorems, WellFoundedInduction, TLAPS

-----------------------------------------------------------------------------
(* The inductive invariant.                                                *)

Busy == {"push", "notify", "look", "swap", "share", "run", "finish"}
Quitting == {"unregister", "quiet", "erase", "resume"}
StepsOf(t) ==
    Busy \cup Quitting
    \cup IF t = Main THEN {"user", "wait", "alarm", "reap", "done"}
         ELSE {"start", "join", "top", "gate", "idle", "asleep", "woken", "leave", "gone"}
ThreadStates ==
    [pc : Steps, stage : {"own", "first", "steal", "drain"}, victim : Threads \cup {NoThread},
     task : Ranges \cup {NoTask}, todo : Seq(Ranges)]

TypeInv ==
    /\ thread \in [Threads -> ThreadStates]
    /\ queue \in [Threads -> Seq(Ranges)]
    /\ tasks = [r \in DOMAIN tasks |-> tasks[r]]
    /\ DOMAIN tasks \subseteq Ranges
    /\ \A r \in DOMAIN tasks : tasks[r] \in [jobs : Int, parent : DOMAIN tasks \cup {NoTask}]
    /\ \A t \in Threads : \A i \in DOMAIN queue[t] : queue[t][i] \in DOMAIN tasks
    /\ list \in Seq(Threads)
    /\ active \in Int
    /\ shouldStop \in BOOLEAN /\ gaveUp \in BOOLEAN
    /\ started \subseteq Loops

\* A thread in its last loop, and one that is on its way out.
Draining(t) == thread[t].pc \in Busy /\ thread[t].stage = "drain"
Leaving(t) ==
    Draining(t) \/ thread[t].pc \in Quitting \cup {"alarm", "leave", "gone", "reap", "done"}
\* A thread that has stopped waiting for the others to pause.
Past(t) == thread[t].pc \in {"erase", "resume", "gone", "reap", "done"}
Absent(t) == thread[t].pc \in {"start", "resume", "gone", "reap", "done"}

HoldsTask(t) ==
    /\ thread[t].pc \in {"swap", "share", "run", "finish"} => thread[t].task \in DOMAIN tasks
    /\ thread[t].pc \in {"push", "notify"} =>
           \/ thread[t].task \in DOMAIN tasks
           \/ t = Main /\ thread[t].task = NoTask /\ thread[t].stage # "drain"
    /\ At(t, "push") => thread[t].todo # <<>>
    /\ At(t, "user") => thread[t].task = NoTask /\ thread[t].stage # "drain"

Fine(t) ==
    /\ thread[t].pc \in StepsOf(t)
    /\ HoldsTask(t)
    /\ Leaving(t) => shouldStop
    /\ t = Main /\ shouldStop => Leaving(t)
    /\ ~Absent(t) => Registered(t)
    /\ thread[t].pc \in {"swap", "share"} =>
           /\ thread[t].stage = "drain" => thread[t].victim = t
           /\ ~gaveUp => Registered(thread[t].victim)
ThreadsInv == \A t \in Threads : Fine(t)

\* activeWorkersCount is the number of workers between SetThreadStatus(true) and
\* SetThreadStatus(false).
Counted(w) ==
    \/ thread[w].pc \in {"top", "gate", "idle", "leave"}
    \/ thread[w].pc \in Busy /\ thread[w].stage # "drain"
Counting == {w \in Workers : Counted(w)}
CountInv == active = Cardinality(Counting)

\* Once a thread has seen all the others pause, one that becomes active again
\* sees shouldStop before it looks for a task.
CalmInv ==
    ~gaveUp /\ (\E u \in Threads : Past(u)) =>
        \A w \in Workers : Counted(w) => thread[w].pc \in {"top", "leave"}

\* As long as no worker has registered, loops are not split and the main thread
\* finds in its own queue what it waits for.
Alone == \A w \in Workers : At(w, "start")
MainRuns == thread[Main].pc \in {"run", "finish"}
AloneTasks ==
    /\ \A r \in DOMAIN tasks :
          /\ ~IsSplittable(r) /\ tasks[r].parent = NoTask /\ r.loop \in started
          /\ tasks[r].jobs # 0 => \/ \E i \in DOMAIN queue[Main] : queue[Main][i] = r
                                  \/ MainRuns /\ thread[Main].task = r
    /\ \A i \in DOMAIN queue[Main] :
          /\ tasks[queue[Main][i]].jobs = 1
          /\ \A j \in DOMAIN queue[Main] : i # j => queue[Main][i] # queue[Main][j]
          /\ MainRuns => queue[Main][i] # thread[Main].task
    /\ MainRuns => tasks[thread[Main].task].jobs = 1
    /\ \A l \in started :
          \/ \E r \in DOMAIN tasks : r.loop = l
          \/ At(Main, "push") /\ thread[Main].todo[1].loop = l
AloneMain ==
    /\ ~Absent(Main) => list = <<Main>>
    /\ At(Main, "push") =>
          /\ thread[Main].task = NoTask /\ Len(thread[Main].todo) = 1
          /\ ~IsSplittable(thread[Main].todo[1]) /\ thread[Main].todo[1].loop \in started
          /\ \A r \in DOMAIN tasks : r.loop # thread[Main].todo[1].loop
    /\ At(Main, "notify") => thread[Main].task = NoTask /\ thread[Main].todo = <<>>
    /\ At(Main, "look") =>
          \/ thread[Main].stage = "drain"
          \/ thread[Main].stage = "own" /\ queue[Main] # <<>>
    /\ At(Main, "swap") =>
          /\ thread[Main].stage \in {"own", "drain"} /\ thread[Main].victim = Main
          /\ queue[Main] # <<>> /\ queue[Main][1] = thread[Main].task
    /\ ~At(Main, "share")
    /\ At(Main, "wait") \/ (thread[Main].pc \in {"look", "swap", "run", "finish"}
                              /\ thread[Main].stage # "drain") => waitFor \in started
AloneInv == Alone => AloneTasks /\ AloneMain

IInv == TypeInv /\ ThreadsInv /\ CountInv /\ CalmInv /\ AloneInv

\* All of it but what is said of the time before the workers register.
Core == TypeInv /\ ThreadsInv /\ CountInv /\ CalmInv

-----------------------------------------------------------------------------
(* What one thread does leaves what is said of the others true.            *)

Moves(t) == \A u \in Threads \ {t} : thread'[u] = thread[u]

LEMMA RestingIsState == \A p \in Steps : Resting(p) \in ThreadStates
<1>1. /\ <<>> \in Seq(Ranges)
      /\ NoTask \in Ranges \cup {NoTask} /\ NoThread \in Threads \cup {NoThread}
  OBVIOUS
<1> QED
  BY <1>1 DEF ThreadStates, Resting

LEMMA GotoMoves ==
    ASSUME TypeInv, NEW t \in Threads, NEW p \in Steps, Goto(t, p)
    PROVE  /\ thread' \in [Threads -> ThreadStates] /\ Moves(t)
           /\ thread'[t].pc = p /\ thread'[t].stage = "own"
           /\ thread'[t].task = NoTask /\ thread'[t].todo = <<>>
<1> DEFINE x == Resting(p)
<1>1. x \in ThreadStates
  BY RestingIsState
<1>2. thread' = [thread EXCEPT ![t] = x]
  BY DEF Goto
<1>3. x.pc = p /\ x.stage = "own" /\ x.task = NoTask /\ x.todo = <<>>
  BY DEF Resting
<1> HIDE DEF x
<1> QED
  BY <1>1, <1>2, <1>3 DEF TypeInv, Moves

LEMMA SeekMoves ==
    ASSUME TypeInv, NEW t \in Threads, NEW s \in {"own", "first", "steal", "drain"}, Seek(t, s)
    PROVE  /\ thread' \in [Threads -> ThreadStates] /\ Moves(t)
           /\ thread'[t].pc = "look" /\ thread'[t].stage = s
           /\ thread'[t].task = NoTask /\ thread'[t].todo = <<>>
<1> DEFINE r == Resting("look")
           x == [r EXCEPT !.stage = s]
<1>1. /\ x \in ThreadStates
      /\ x.pc = "look" /\ x.stage = s /\ x.task = NoTask /\ x.todo = <<>>
  <2>1. r \in ThreadStates
    BY RestingIsState DEF Steps
  <2>2. r.pc = "look" /\ r.task = NoTask /\ r.todo = <<>>
    BY DEF Resting
  <2> HIDE DEF r
  <2> QED
    BY <2>1, <2>2 DEF ThreadStates
<1>2. thread' = [thread EXCEPT ![t] = x]
  BY DEF Seek
<1> HIDE DEF x
<1> QED
  BY <1>1, <1>2 DEF TypeInv, Moves

LEMMA ThreadsStay ==
    ASSUME ThreadsInv, NEW t \in Threads, Moves(t), Fine(t)',
           DOMAIN tasks \subseteq DOMAIN tasks', shouldStop' = shouldStop, gaveUp => gaveUp',
           \A u : Registered(u) => Registered(u)'
    PROVE  ThreadsInv'
<1> SUFFICES ASSUME NEW u \in Threads, u # t PROVE Fine(u)'
  BY DEF ThreadsInv
<1>1. thread'[u] = thread[u] /\ Fine(u)
  BY DEF Moves, ThreadsInv
<1>2. HoldsTask(u)'
  BY <1>1 DEF HoldsTask, Fine, At
<1>3. Registered(u) => Registered(u)'
  OBVIOUS
<1>4. Registered(thread[u].victim) => Registered(thread[u].victim)'
  BY <1>1
<1> HIDE DEF Registered
<1> QED
  BY <1>1, <1>2, <1>3, <1>4 DEF Fine, Leaving, Draining, Absent

LEMMA CountStays ==
    ASSUME CountInv, NEW t \in Threads, Moves(t), active' = active,
           t \in Workers => (Counted(t)' <=> Counted(t))
    PROVE  CountInv'
<1>1. ASSUME NEW w \in Workers PROVE Counted(w)' <=> Counted(w)
  BY DEF Moves, Threads, Counted
<1>2. Counting' = Counting
  BY <1>1 DEF Counting
<1> QED
  BY <1>2 DEF CountInv

LEMMA CalmStays ==
    ASSUME CalmInv, ThreadsInv', NEW t \in Threads, Moves(t), gaveUp => gaveUp',
           Past(t)' => Past(t),
           t \in Workers /\ shouldStop' /\ Counted(t)' =>
               \/ thread'[t].pc \in {"top", "leave"}
               \/ Counted(t) /\ thread[t].pc \notin {"top", "leave"}
    PROVE  CalmInv'
<1> SUFFICES ASSUME ~gaveUp', NEW u \in Threads, Past(u)', NEW w \in Workers, Counted(w)'
             PROVE  thread'[w].pc \in {"top", "leave"}
  BY DEF CalmInv
<1>1. ~gaveUp /\ Past(u)
  BY DEF Moves, Past
<1>2. shouldStop'
  BY DEF ThreadsInv, Fine, Leaving, Past, Quitting
<1>3. Counted(w) => thread[w].pc \in {"top", "leave"}
  BY <1>1 DEF CalmInv
<1>4. CASE w = t
  BY <1>2, <1>3, <1>4
<1>5. CASE w # t
  BY <1>3, <1>5 DEF Moves, Counted, Threads
<1> QED
  BY <1>4, <1>5

\* A thread that only moves keeps the core, if it counts as before.
LEMMA OnlyMoves ==
    ASSUME Core, TypeInv', NEW t \in Threads, Moves(t), Fine(t)',
           DOMAIN tasks \subseteq DOMAIN tasks', UNCHANGED <<list, active, shouldStop>>,
           gaveUp => gaveUp', Past(t)' => Past(t),
           t \in Workers =>
               /\ Counted(t)' <=> Counted(t)
               /\ shouldStop /\ Counted(t)' =>
                     \/ thread'[t].pc \in {"top", "leave"}
                     \/ Counted(t) /\ thread[t].pc \notin {"top", "leave"}
    PROVE  Core'
<1>1. ThreadsInv'
  BY ThreadsStay DEF Core, Registered
<1>2. CountInv'
  BY CountStays DEF Core
<1>3. CalmInv'
  BY <1>1, CalmStays DEF Core
<1> QED
  BY <1>1, <1>2, <1>3 DEF Core

LEMMA TypeStays ==
    ASSUME TypeInv, thread' \in [Threads -> ThreadStates], gaveUp' \in BOOLEAN,
           UNCHANGED <<queue, tasks, list, active, shouldStop, started>>
    PROVE  TypeInv'
  BY DEF TypeInv

LEMMA RegisteredEndsAlone ==
    ASSUME NEW w \in Workers, ~At(w, "start")'
    PROVE  AloneInv'
  BY DEF AloneInv, Alone

-----------------------------------------------------------------------------
(* The steps that only workers take.                                       *)

LEMMA CountingIsFinite == IsFiniteSet(Counting)
  BY ThreadsAssumption, FS_Subset DEF Counting

LEMMA RegisterStep ==
    ASSUME Core, NEW w \in Workers, Register(w)
    PROVE  Core' /\ AloneInv'
<1>1. w \in Threads /\ "join" \in Steps /\ TypeInv
  BY DEF Threads, Steps, Core
<1>2. /\ thread' \in [Threads -> ThreadStates] /\ Moves(w) /\ thread'[w].pc = "join"
      /\ thread'[w].stage = "own"
  BY <1>1, GotoMoves DEF Register
<1>3. /\ list' \in Seq(Threads) /\ Registered(w)' /\ \A u : Registered(u) => Registered(u)'
  <2>1. list \in Seq(Threads) /\ list' = Append(list, w)
    BY <1>1 DEF TypeInv, Register
  <2>2. /\ list' \in Seq(Threads) /\ Len(list') = Len(list) + 1 /\ list'[Len(list) + 1] = w
        /\ Len(list) \in Nat /\ \A i \in 1..Len(list) : list'[i] = list[i]
    BY <1>1, <2>1
  <2> QED
    BY <2>2 DEF Registered
<1>4. UNCHANGED <<queue, tasks, active, shouldStop, started, gaveUp>>
  BY DEF Register, work
<1>5. TypeInv'
  BY <1>1, <1>2, <1>3, <1>4 DEF TypeInv
<1>6. w # Main
  BY ThreadsAssumption
<1>7. Fine(w)'
  BY <1>2, <1>3, <1>6
     DEF Fine, StepsOf, Busy, Quitting, HoldsTask, Leaving, Draining, Absent, At
<1>8. ThreadsInv'
  BY <1>1, <1>2, <1>3, <1>4, <1>7, ThreadsStay DEF Core
<1>9. ~Counted(w) /\ ~Counted(w)' /\ ~Past(w)'
  BY <1>2 DEF Register, At, Counted, Busy, Past
<1>10. CountInv'
  BY <1>1, <1>2, <1>4, <1>9, CountStays DEF Core
<1>11. CalmInv'
  BY <1>1, <1>2, <1>4, <1>8, <1>9, CalmStays DEF Core
<1>12. AloneInv'
  BY <1>2, RegisteredEndsAlone DEF At
<1> QED
  BY <1>5, <1>8, <1>10, <1>11, <1>12 DEF Core

\* A worker that only changes its pc, between two sleeps.
LEMMA WorkerMoves ==
    ASSUME Core, NEW w \in Workers, thread' \in [Threads -> ThreadStates], Moves(w),
           thread'[w].stage = "own",
           UNCHANGED <<queue, tasks, list, active, shouldStop, started, gaveUp>>,
           \/ At(w, "top") /\ thread'[w].pc = (IF shouldStop THEN "leave" ELSE "gate")
           \/ At(w, "gate") /\ thread'[w].pc \in {"look", "idle"}
           \/ At(w, "asleep") /\ thread'[w].pc = "woken"
           \/ At(w, "woken") /\ thread'[w].pc \in {"asleep", "join"}
    PROVE  Core' /\ AloneInv'
<1>1. w \in Threads /\ w # Main /\ TypeInv /\ Fine(w)
  BY ThreadsAssumption DEF Threads, Core, ThreadsInv
<1>2. Registered(w)'
  BY <1>1 DEF Fine, Absent, At, Registered
<1>3. Fine(w)'
  BY <1>1, <1>2
     DEF Fine, StepsOf, Busy, Quitting, HoldsTask, Leaving, Draining, Absent, At
<1>4. /\ ~Past(w)'
      /\ Counted(w)' <=> Counted(w)
      /\ shouldStop /\ Counted(w)' =>
            \/ thread'[w].pc \in {"top", "leave"}
            \/ Counted(w) /\ thread[w].pc \notin {"top", "leave"}
  BY DEF Past, Counted, Busy, At
<1>5. Core'
  <2>1. TypeInv'
    BY <1>1, TypeStays DEF TypeInv
  <2> QED
    BY <1>1, <1>3, <1>4, <2>1, OnlyMoves
<1>6. AloneInv'
  BY RegisteredEndsAlone DEF At
<1> QED
  BY <1>5, <1>6

LEMMA ActivateStep ==
    ASSUME Core, NEW w \in Workers, Activate(w)
    PROVE  Core' /\ AloneInv'
<1>1. w \in Threads /\ w # Main /\ TypeInv /\ Fine(w) /\ "top" \in Steps
  BY ThreadsAssumption DEF Threads, Core, ThreadsInv, Steps
<1>2. /\ thread' \in [Threads -> ThreadStates] /\ Moves(w) /\ thread'[w].pc = "top"
      /\ thread'[w].stage = "own" /\ At(w, "join")
  BY <1>1, GotoMoves DEF Activate
<1>3. UNCHANGED <<queue, tasks, list, shouldStop, started, gaveUp>> /\ active' = active + 1
  BY DEF Activate, work
<1>4. Registered(w)'
  BY <1>1, <1>2, <1>3 DEF Fine, Absent, At, Registered
<1>5. Fine(w)'
  BY <1>1, <1>2, <1>4
     DEF Fine, StepsOf, Busy, Quitting, HoldsTask, Leaving, Draining, Absent, At
<1>6. TypeInv'
  BY <1>1, <1>2, <1>3 DEF TypeInv
<1>7. ThreadsInv'
  BY <1>1, <1>2, <1>3, <1>5, ThreadsStay DEF Core, Registered
<1>8. ~Counted(w) /\ Counted(w)' /\ ~Past(w)'
  BY <1>2 DEF Counted, Busy, Past, At
<1>9. CountInv'
  <2>1. Counting' = Counting \cup {w} /\ w \notin Counting
    <3>1. \A u \in Workers \ {w} : Counted(u)' <=> Counted(u)
      BY <1>2 DEF Moves, Threads, Counted
    <3> QED
      BY <1>8, <3>1 DEF Counting
  <2> QED
    BY <1>3, <2>1, CountingIsFinite, FS_AddElement DEF CountInv, Core
<1>10. CalmInv'
  BY <1>1, <1>2, <1>3, <1>7, <1>8, CalmStays DEF Core
<1>11. AloneInv'
  BY <1>2, RegisteredEndsAlone DEF At
<1> QED
  BY <1>6, <1>7, <1>9, <1>10, <1>11 DEF Core

LEMMA DeactivateStep ==
    ASSUME Core, NEW w \in Workers, Deactivate(w)
    PROVE  Core' /\ AloneInv'
<1>1. /\ w \in Threads /\ w # Main /\ TypeInv /\ Fine(w)
      /\ "asleep" \in Steps /\ "drain" \in {"own", "first", "steal", "drain"}
  BY ThreadsAssumption DEF Threads, Core, ThreadsInv, Steps
<1>2. /\ thread' \in [Threads -> ThreadStates] /\ Moves(w)
      /\ \/ At(w, "idle") /\ thread'[w].pc = "asleep"
         \/ At(w, "leave") /\ thread'[w].pc = "look" /\ thread'[w].stage = "drain"
  BY <1>1, GotoMoves, SeekMoves DEF Deactivate, At
<1>3. UNCHANGED <<queue, tasks, list, shouldStop, started, gaveUp>> /\ active' = active - 1
  BY DEF Deactivate, work
<1>4. Registered(w)'
  BY <1>1, <1>2, <1>3 DEF Fine, Absent, At, Registered
<1>5. Fine(w)'
  BY <1>1, <1>2, <1>3, <1>4
     DEF Fine, StepsOf, Busy, Quitting, HoldsTask, Leaving, Draining, Absent, At
<1>6. TypeInv'
  BY <1>1, <1>2, <1>3 DEF TypeInv
<1>7. ThreadsInv'
  BY <1>1, <1>2, <1>3, <1>5, ThreadsStay DEF Core, Registered
<1>8. Counted(w) /\ ~Counted(w)' /\ ~Past(w)'
  BY <1>2 DEF Counted, Busy, Past, At
<1>9. CountInv'
  <2>1. Counting' = Counting \ {w} /\ w \in Counting
    <3>1. \A u \in Workers \ {w} : Counted(u)' <=> Counted(u)
      BY <1>2 DEF Moves, Threads, Counted
    <3> QED
      BY <1>8, <3>1 DEF Counting
  <2> QED
    BY <1>3, <2>1, CountingIsFinite, FS_RemoveElement DEF CountInv, Core
<1>10. CalmInv'
  BY <1>1, <1>2, <1>3, <1>7, <1>8, CalmStays DEF Core
<1>11. AloneInv'
  BY <1>2, RegisteredEndsAlone DEF At
<1> QED
  BY <1>6, <1>7, <1>9, <1>10, <1>11 DEF Core

LEMMA WorkersStep ==
    ASSUME Core, NEW w \in Workers, WorkerStep(w)
    PROVE  Core' /\ AloneInv'
<1> DEFINE Same == UNCHANGED <<queue, tasks, list, active, shouldStop, started, gaveUp>>
<1>0. /\ {"leave", "gate", "look", "idle", "woken", "asleep", "join"} \subseteq Steps
      /\ w \in Threads /\ TypeInv
  BY DEF Steps, Threads, Core
<1>1. CASE Register(w)
  BY <1>1, RegisterStep
<1>2. CASE Activate(w)
  BY <1>2, ActivateStep
<1>3. CASE CheckStop(w)
  <2>1. /\ At(w, "top") /\ Same
        /\ Goto(w, IF shouldStop THEN "leave" ELSE "gate")
    BY <1>3 DEF CheckStop, control, work
  <2>2. /\ thread' \in [Threads -> ThreadStates] /\ Moves(w) /\ thread'[w].stage = "own"
        /\ thread'[w].pc = (IF shouldStop THEN "leave" ELSE "gate")
    BY <1>0, <2>1, GotoMoves
  <2> QED
    BY <2>1, <2>2, WorkerMoves
<1>4. CASE CheckPause(w)
  <2>1. At(w, "gate") /\ Same /\ (Goto(w, "idle") \/ Seek(w, "own"))
    BY <1>4 DEF CheckPause, control, work
  <2>2. /\ thread' \in [Threads -> ThreadStates] /\ Moves(w) /\ thread'[w].stage = "own"
        /\ thread'[w].pc \in {"look", "idle"}
    BY <1>0, <2>1, GotoMoves, SeekMoves
  <2> QED
    BY <2>1, <2>2, WorkerMoves
<1>5. CASE Deactivate(w)
  BY <1>5, DeactivateStep
<1>6. CASE Wake(w)
  <2>1. At(w, "asleep") /\ Same /\ Goto(w, "woken")
    BY <1>6 DEF Wake, control, work
  <2>2. /\ thread' \in [Threads -> ThreadStates] /\ Moves(w) /\ thread'[w].stage = "own"
        /\ thread'[w].pc = "woken"
    BY <1>0, <2>1, GotoMoves
  <2> QED
    BY <2>1, <2>2, WorkerMoves
<1>7. CASE CheckWoken(w)
  <2>1. At(w, "woken") /\ Same /\ (Goto(w, "asleep") \/ Goto(w, "join"))
    BY <1>7 DEF CheckWoken, control, work
  <2>2. /\ thread' \in [Threads -> ThreadStates] /\ Moves(w) /\ thread'[w].stage = "own"
        /\ thread'[w].pc \in {"asleep", "join"}
    BY <1>0, <2>1, GotoMoves
  <2> QED
    BY <2>1, <2>2, WorkerMoves
<1> QED
  BY <1>1, <1>2, <1>3, <1>4, <1>5, <1>6, <1>7 DEF WorkerStep

-----------------------------------------------------------------------------
(* The steps of a thread that looks for a task or runs one.                *)

LEMMA BusyMoves ==
    ASSUME Core, TypeInv', NEW t \in Threads, thread[t].pc \in Busy, Moves(t),
           DOMAIN tasks \subseteq DOMAIN tasks',
           UNCHANGED <<list, active, shouldStop, gaveUp>>, HoldsTask(t)',
           thread'[t].pc \in {"swap", "share"} =>
               /\ thread[t].stage = "drain" => thread'[t].victim = t
               /\ ~gaveUp => Registered(thread'[t].victim),
           \/ /\ thread'[t].pc \in Busy
              /\ thread'[t].stage = "drain" <=> thread[t].stage = "drain"
           \/ thread[t].stage # "drain" /\ t # Main /\ thread'[t].pc \in {"top", "idle"}
           \/ thread[t].stage # "drain" /\ t = Main /\ thread'[t].pc \in {"wait", "user"}
           \/ thread[t].stage = "drain" /\ thread'[t].pc = "unregister"
    PROVE  Core'
<1>1. Fine(t)
  BY DEF Core, ThreadsInv
<1>2. Registered(t)'
  BY <1>1 DEF Fine, Absent, Busy, Registered
<1>3. thread'[t].pc \in {"swap", "share"} => (~gaveUp' => Registered(thread[t].victim)')
  BY DEF Registered
<1>4. /\ thread'[t].pc \in StepsOf(t)
      /\ Leaving(t)' => shouldStop'
      /\ t = Main /\ shouldStop' => Leaving(t)'
  BY <1>1 DEF Fine, StepsOf, Busy, Quitting, Leaving, Draining
<1>5. thread'[t].pc \in {"swap", "share"} => (thread'[t].stage = "drain" => thread'[t].victim = t)
  BY DEF Busy
<1>6. Fine(t)'
  BY <1>2, <1>3, <1>4, <1>5 DEF Fine, StepsOf
<1>7. /\ ~Past(t)'
      /\ t \in Workers => (Counted(t)' <=> Counted(t))
      /\ thread[t].pc \notin {"top", "leave"}
  BY ThreadsAssumption DEF Past, Counted, Busy
<1> QED
  BY <1>6, <1>7, OnlyMoves

LEMMA PushTaskMoves ==
    ASSUME Core, NEW t \in Threads, PushTask(t)
    PROVE  /\ thread' \in [Threads -> ThreadStates] /\ Moves(t)
           /\ At(t, "push") /\ thread'[t].pc = "notify"
           /\ thread'[t].stage = thread[t].stage /\ thread'[t].task = thread[t].task
           /\ thread'[t].todo = Tail(thread[t].todo)
           /\ thread[t].todo \in Seq(Ranges) /\ thread[t].todo # <<>>
<1>1. /\ thread \in [Threads -> ThreadStates] /\ thread[t].todo \in Seq(Ranges)
      /\ At(t, "push") /\ thread[t].todo # <<>>
  BY DEF Core, TypeInv, ThreadStates, ThreadsInv, Fine, HoldsTask, PushTask, At
<1>2. Tail(thread[t].todo) \in Seq(Ranges) /\ "notify" \in Steps
  BY <1>1 DEF Steps
<1>3. thread' = [thread EXCEPT ![t] = [thread[t] EXCEPT !.pc = "notify", !.todo = Tail(@)]]
  BY <1>1 DEF PushTask
<1> QED
  BY <1>1, <1>2, <1>3 DEF ThreadStates, Moves

LEMMA NotifyMoves ==
    ASSUME Core, NEW t \in Threads, Notify(t)
    PROVE  /\ thread' \in [Threads -> ThreadStates] /\ Moves(t) /\ At(t, "notify")
           /\ thread'[t].pc = (IF thread[t].todo # <<>> THEN "push"
                               ELSE IF thread[t].task = NoTask THEN "user" ELSE "finish")
           /\ thread'[t].stage = thread[t].stage /\ thread'[t].task = thread[t].task
           /\ thread'[t].todo = thread[t].todo
<1>1. thread \in [Threads -> ThreadStates] /\ {"push", "user", "finish"} \subseteq Steps
  BY DEF Core, TypeInv, Steps
<1> QED
  BY <1>1 DEF Notify, At, ThreadStates, Moves

LEMMA PushTaskKeeps ==
    ASSUME Core, NEW t \in Threads, PushTask(t)
    PROVE  Core'
<1> DEFINE new == Head(thread[t].todo)
           Datas == [jobs : Int, parent : DOMAIN tasks \cup {NoTask}]
<1>1. new \in Ranges /\ thread[t].pc \in Busy
  BY PushTaskMoves DEF Busy, At
<1>2. /\ DOMAIN tasks' = DOMAIN tasks \cup {new}
      /\ tasks' = [r \in DOMAIN tasks' |-> tasks'[r]]
  BY DEF PushTask
<1>3. thread[t].task \in DOMAIN tasks \cup {NoTask} /\ TypeInv
  BY DEF Core, ThreadsInv, Fine, HoldsTask, PushTask
<1>4. \A r \in DOMAIN tasks : Adopted(thread[t].task)[r] \in Datas
  <2>1. tasks \in [DOMAIN tasks -> Datas]
    BY <1>3 DEF TypeInv
  <2>2. CASE thread[t].task = NoTask
    BY <2>1, <2>2 DEF Adopted
  <2>3. CASE thread[t].task # NoTask
    <3> DEFINE p == thread[t].task
               more == [tasks[p] EXCEPT !.jobs = @ + 1]
    <3>1. p \in DOMAIN tasks /\ more \in Datas
      BY <1>3, <2>1, <2>3
    <3>2. Adopted(p) = [tasks EXCEPT ![p] = more]
      BY <2>3 DEF Adopted
    <3> HIDE DEF more, Datas
    <3> QED
      BY <2>1, <3>1, <3>2
  <2> QED
    BY <2>2, <2>3
<1>5. \A r \in DOMAIN tasks' : tasks'[r] \in [jobs : Int, parent : DOMAIN tasks' \cup {NoTask}]
  <2> SUFFICES ASSUME NEW r \in DOMAIN tasks'
               PROVE  tasks'[r] \in [jobs : Int, parent : DOMAIN tasks' \cup {NoTask}]
    OBVIOUS
  <2>1. CASE r = new
    BY <1>2, <1>3, <2>1 DEF PushTask
  <2>2. CASE r # new
    <3>1. r \in DOMAIN tasks /\ tasks'[r] = Adopted(thread[t].task)[r]
      BY <1>2, <2>2 DEF PushTask
    <3> QED
      BY <1>2, <1>4, <3>1
  <2> QED
    BY <2>1, <2>2
<1>6. /\ queue' = [queue EXCEPT ![t] = Append(queue[t], new)]
      /\ queue[t] \in Seq(Ranges) /\ queue \in [Threads -> Seq(Ranges)]
  BY <1>3 DEF PushTask, TypeInv
<1>7. /\ Append(queue[t], new) \in Seq(Ranges)
      /\ \A i \in DOMAIN Append(queue[t], new) :
            \/ Append(queue[t], new)[i] = new
            \/ i \in DOMAIN queue[t] /\ Append(queue[t], new)[i] = queue[t][i]
  <2> HIDE DEF new
  <2> QED
    BY <1>1, <1>6
<1>8. UNCHANGED <<list, active, shouldStop, gaveUp, started>>
  BY DEF PushTask, control
<1>9. \A u \in Threads : \A i \in DOMAIN queue'[u] : queue'[u][i] \in DOMAIN tasks'
  <2> SUFFICES ASSUME NEW u \in Threads, NEW i \in DOMAIN queue'[u]
               PROVE  queue'[u][i] \in DOMAIN tasks'
    OBVIOUS
  <2> HIDE DEF new
  <2>1. CASE u = t
    BY <1>2, <1>3, <1>6, <1>7, <2>1 DEF TypeInv
  <2>2. CASE u # t
    BY <1>2, <1>3, <1>6, <2>2 DEF TypeInv
  <2> QED
    BY <2>1, <2>2
<1> HIDE DEF new
<1>10. TypeInv'
  <2>1. queue' \in [Threads -> Seq(Ranges)] /\ DOMAIN tasks' \subseteq Ranges
    BY <1>1, <1>2, <1>3, <1>6, <1>7 DEF TypeInv
  <2> QED
    BY <1>2, <1>3, <1>5, <1>8, <1>9, <2>1, PushTaskMoves DEF TypeInv
<1>11. HoldsTask(t)'
  BY <1>2, PushTaskMoves DEF Core, ThreadsInv, Fine, HoldsTask, At
<1> QED
  BY <1>1, <1>2, <1>8, <1>10, <1>11, PushTaskMoves, BusyMoves DEF Busy

LEMMA NotifyKeeps ==
    ASSUME Core, NEW t \in Threads, Notify(t)
    PROVE  Core'
<1>1. UNCHANGED <<queue, tasks, list, active, shouldStop, gaveUp, started>>
  BY DEF Notify, work, control
<1>2. TypeInv'
  BY <1>1, NotifyMoves, TypeStays DEF Core, TypeInv
<1>3. NoTask \notin DOMAIN tasks
  BY NoTaskAssumption DEF Core, TypeInv
<1>4. HoldsTask(t)' /\ (thread'[t].pc = "user" => t = Main /\ thread[t].stage # "drain")
  BY <1>1, <1>3, NotifyMoves DEF Core, ThreadsInv, Fine, HoldsTask, At
<1>5. thread[t].pc \in Busy
  BY NotifyMoves DEF Busy, At
<1> QED
  BY <1>1, <1>2, <1>4, <1>5, NotifyMoves, BusyMoves DEF Busy

LEMMA RunSplitMoves ==
    ASSUME Core, NEW t \in Threads, RunSplit(t)
    PROVE  /\ thread' \in [Threads -> ThreadStates] /\ Moves(t) /\ At(t, "run")
           /\ thread'[t].pc = "push" /\ thread'[t].stage = thread[t].stage
           /\ thread'[t].task = thread[t].task /\ thread'[t].todo # <<>>
           /\ IsSplittable(thread[t].task)
<1>1. /\ thread \in [Threads -> ThreadStates] /\ thread[t].task \in Ranges /\ At(t, "run")
      /\ IsSplittable(thread[t].task)
  BY DEF Core, TypeInv, ThreadStates, ThreadsInv, Fine, HoldsTask, RunSplit, At
<1>2. ASSUME NEW r \in Ranges, IsSplittable(r)
      PROVE  LeftOf(r) \in Ranges /\ RightOf(r) \in Ranges
  <2>1. SizeOf(r) \in Nat
    BY <1>2 DEF IsSplittable, SizeOf, Ranges
  <2>2. Middle(r) \in Nat
    BY <2>1 DEF Middle, Ranges
  <2> QED
    BY <2>2 DEF LeftOf, RightOf, Ranges
<1> DEFINE halves == Halves(thread[t].task)
<1>3. halves \in Seq(Ranges) /\ halves # <<>> /\ "push" \in Steps
  <2>1. LeftOf(thread[t].task) \in Ranges /\ RightOf(thread[t].task) \in Ranges
    BY <1>1, <1>2
  <2> QED
    BY <2>1 DEF Halves, Steps
<1>4. thread' = [thread EXCEPT ![t] = [thread[t] EXCEPT !.pc = "push", !.todo = halves]]
  BY <1>1 DEF RunSplit
<1> HIDE DEF halves
<1> QED
  BY <1>1, <1>3, <1>4 DEF ThreadStates, Moves

LEMMA RunSplitKeeps ==
    ASSUME Core, NEW t \in Threads, RunSplit(t)
    PROVE  Core'
<1>1. UNCHANGED <<queue, tasks, list, active, shouldStop, gaveUp, started>>
  BY DEF RunSplit, work, control
<1>2. TypeInv'
  BY <1>1, RunSplitMoves, TypeStays DEF Core, TypeInv
<1>3. HoldsTask(t)'
  BY <1>1, RunSplitMoves DEF Core, ThreadsInv, Fine, HoldsTask, At
<1>4. thread[t].pc \in Busy
  BY RunSplitMoves DEF Busy, At
<1> QED
  BY <1>1, <1>2, <1>3, <1>4, RunSplitMoves, BusyMoves DEF Busy

LEMMA RunFunctionMoves ==
    ASSUME Core, NEW t \in Threads, RunFunction(t)
    PROVE  /\ thread' \in [Threads -> ThreadStates] /\ Moves(t) /\ At(t, "run")
           /\ thread'[t].pc = "finish" /\ thread'[t].stage = thread[t].stage
           /\ thread'[t].task = thread[t].task
           /\ UNCHANGED <<queue, tasks, list, active, shouldStop, gaveUp, started, waitFor>>
<1>1. thread \in [Threads -> ThreadStates] /\ "finish" \in Steps
  BY DEF Core, TypeInv, Steps
<1> QED
  BY <1>1 DEF RunFunction, At, ThreadStates, Moves, control

LEMMA RunFunctionKeeps ==
    ASSUME Core, NEW t \in Threads, RunFunction(t)
    PROVE  Core'
<1>1. UNCHANGED <<queue, tasks, list, active, shouldStop, gaveUp, started>>
  BY RunFunctionMoves
<1>2. TypeInv'
  BY <1>1, RunFunctionMoves, TypeStays DEF Core, TypeInv
<1>3. HoldsTask(t)'
  BY <1>1, RunFunctionMoves DEF Core, ThreadsInv, Fine, HoldsTask, At
<1>4. thread[t].pc \in Busy
  BY RunFunctionMoves DEF Busy, At
<1> QED
  BY <1>1, <1>2, <1>3, <1>4, RunFunctionMoves, BusyMoves DEF Busy

LEMMA FinishMoves ==
    ASSUME Core, NEW t \in Threads, Finish(t)
    PROVE  /\ thread' \in [Threads -> ThreadStates] /\ Moves(t) /\ At(t, "finish")
           /\ thread[t].task \in DOMAIN tasks
           /\ LET parent == tasks[thread[t].task].parent
              IN  \/ /\ parent # NoTask /\ parent \in DOMAIN tasks
                     /\ thread'[t].pc = "finish" /\ thread'[t].stage = thread[t].stage
                     /\ thread'[t].task = parent
                  \/ /\ thread[t].stage = "drain"
                     /\ thread'[t].pc = "look" /\ thread'[t].stage = "drain"
                  \/ /\ thread[t].stage # "drain" /\ thread'[t].stage = "own"
                     /\ thread'[t].pc = IF t = Main THEN "wait" ELSE "top"
<1> DEFINE r == thread[t].task
           parent == tasks[r].parent
<1>1. /\ TypeInv /\ thread \in [Threads -> ThreadStates] /\ At(t, "finish") /\ r \in DOMAIN tasks
      /\ parent \in DOMAIN tasks \cup {NoTask}
      /\ {"wait", "top"} \subseteq Steps /\ "drain" \in {"own", "first", "steal", "drain"}
  <2>1. TypeInv /\ At(t, "finish") /\ r \in DOMAIN tasks
    BY DEF Core, ThreadsInv, Fine, HoldsTask, Finish, At
  <2> QED
    BY <2>1 DEF TypeInv, Steps
<1>2. CASE parent # NoTask /\ thread' = [thread EXCEPT ![t].task = parent]
  <2>1. parent \in Ranges
    BY <1>1, <1>2 DEF TypeInv
  <2>2. thread' = [thread EXCEPT ![t] = [thread[t] EXCEPT !.task = parent]]
    BY <1>2
  <2> HIDE DEF parent
  <2>3. thread' \in [Threads -> ThreadStates] /\ Moves(t) /\ thread'[t].pc = thread[t].pc
        /\ thread'[t].stage = thread[t].stage /\ thread'[t].task = parent
    BY <1>1, <2>1, <2>2 DEF ThreadStates, Moves
  <2> QED
    BY <1>1, <1>2, <2>3 DEF At, parent
<1>3. CASE AfterTask(t)
  <2>1. CASE thread[t].stage = "drain"
    <3>1. Seek(t, "drain")
      BY <1>3, <2>1 DEF AfterTask
    <3> QED
      BY <1>1, <2>1, <3>1, SeekMoves
  <2>2. CASE thread[t].stage # "drain"
    <3>1. Goto(t, IF t = Main THEN "wait" ELSE "top")
      BY <1>3, <2>2 DEF AfterTask
    <3> QED
      BY <1>1, <2>2, <3>1, GotoMoves
  <2> QED
    BY <2>1, <2>2
<1> QED
  BY <1>2, <1>3 DEF Finish

LEMMA FinishKeeps ==
    ASSUME Core, NEW t \in Threads, Finish(t)
    PROVE  Core'
<1> DEFINE r == thread[t].task
           x == [tasks[r] EXCEPT !.jobs = tasks[r].jobs - 1]
<1>1. /\ UNCHANGED <<queue, list, active, shouldStop, gaveUp, started>>
      /\ tasks' = [tasks EXCEPT ![r] = x]
  BY DEF Finish, control
<1>2. r \in DOMAIN tasks /\ thread[t].pc \in Busy
  BY FinishMoves DEF Busy, At
<1>3. TypeInv'
  <2> DEFINE Datas == [jobs : Int, parent : DOMAIN tasks \cup {NoTask}]
  <2>1. tasks \in [DOMAIN tasks -> Datas]
    BY DEF Core, TypeInv
  <2>2. x \in Datas
    BY <1>2, <2>1
  <2> HIDE DEF x, r, Datas
  <2>3. tasks' \in [DOMAIN tasks -> Datas]
    BY <1>1, <1>2, <2>1, <2>2
  <2>4. DOMAIN tasks' = DOMAIN tasks /\ tasks' = [u \in DOMAIN tasks' |-> tasks'[u]]
    BY <2>3
  <2> QED
    BY <1>1, <2>3, <2>4, FinishMoves DEF Core, TypeInv, Datas
<1>4. DOMAIN tasks' = DOMAIN tasks
  BY <1>1
<1>5. HoldsTask(t)'
  BY <1>4, FinishMoves DEF HoldsTask, At
<1> QED
  BY <1>1, <1>2, <1>3, <1>4, <1>5, FinishMoves, BusyMoves DEF Busy

\* A thread that has not found a task goes on as the code does.
MissedOne(t) ==
    \/ /\ thread'[t].pc = "look"
       /\ \/ thread[t].stage = "own" /\ thread'[t].stage = "first"
          \/ thread[t].stage = "first" /\ thread'[t].stage = "steal"
    \/ thread[t].stage = "steal" /\ thread'[t].pc = IF t = Main THEN "wait" ELSE "idle"
    \/ thread[t].stage = "drain" /\ thread'[t].pc = "unregister"

LEMMA MissedMoves ==
    ASSUME TypeInv, NEW t \in Threads, Missed(t)
    PROVE  thread' \in [Threads -> ThreadStates] /\ Moves(t) /\ MissedOne(t)
<1>1. /\ thread[t].stage \in {"own", "first", "steal", "drain"}
      /\ {"wait", "idle", "unregister"} \subseteq Steps
      /\ {"first", "steal"} \subseteq {"own", "first", "steal", "drain"}
  BY DEF TypeInv, ThreadStates, Steps
<1>2. CASE thread[t].stage = "own"
  <2>1. Seek(t, "first")
    BY <1>2 DEF Missed
  <2> QED
    BY <1>1, <1>2, <2>1, SeekMoves DEF MissedOne
<1>3. CASE thread[t].stage = "first"
  <2>1. Seek(t, "steal")
    BY <1>3 DEF Missed
  <2> QED
    BY <1>1, <1>3, <2>1, SeekMoves DEF MissedOne
<1>4. CASE thread[t].stage = "steal"
  <2>1. Goto(t, IF t = Main THEN "wait" ELSE "idle")
    BY <1>4 DEF Missed
  <2> QED
    BY <1>1, <1>4, <2>1, GotoMoves DEF MissedOne
<1>5. CASE thread[t].stage = "drain"
  <2>1. Goto(t, "unregister")
    BY <1>5 DEF Missed
  <2> QED
    BY <1>1, <1>5, <2>1, GotoMoves DEF MissedOne
<1> QED
  BY <1>1, <1>2, <1>3, <1>4, <1>5

LEMMA MissedKeeps ==
    ASSUME Core, NEW t \in Threads, thread[t].pc \in {"look", "swap"}, Missed(t),
           UNCHANGED <<queue, tasks, list, active, shouldStop, gaveUp, started>>
    PROVE  Core'
<1>1. thread' \in [Threads -> ThreadStates] /\ Moves(t) /\ MissedOne(t)
  BY MissedMoves DEF Core
<1>2. TypeInv'
  BY <1>1, TypeStays DEF Core, TypeInv
<1>3. HoldsTask(t)' /\ thread'[t].pc \notin {"swap", "share"}
  BY <1>1 DEF HoldsTask, At, MissedOne
<1>4. thread[t].pc \in Busy
  BY DEF Busy
<1> QED
  BY <1>1, <1>2, <1>3, <1>4, BusyMoves DEF Busy, MissedOne

\* A thread that has found a task has it in hand, and knows whose queue it is in.
FoundAt(t, v) ==
    /\ thread' \in [Threads -> ThreadStates] /\ Moves(t)
    /\ thread'[t].pc = "swap" /\ thread'[t].stage = thread[t].stage
    /\ thread'[t].victim = v /\ v \in Threads /\ Registered(v)
    /\ thread[t].stage \in {"own", "drain"} => v = t
    /\ queue[v] # <<>> /\ thread'[t].task = queue[v][1] /\ queue[v][1] \in DOMAIN tasks

LEMMA LookAtMoves ==
    ASSUME Core, NEW t \in Threads, NEW v \in Threads, LookAt(t, v)
    PROVE  /\ At(t, "look") /\ v \in Victims(t)
           /\ UNCHANGED <<queue, tasks, list, active, shouldStop, gaveUp, started, waitFor>>
           /\ (queue[v] = <<>> /\ Missed(t)) \/ FoundAt(t, v)
<1>1. /\ At(t, "look") /\ v \in Victims(t)
      /\ UNCHANGED <<queue, tasks, list, active, shouldStop, gaveUp, started, waitFor>>
  BY DEF LookAt, work, control
<1>2. ASSUME queue[v] # <<>> PROVE FoundAt(t, v)
  <2>1. /\ thread \in [Threads -> ThreadStates] /\ queue[v] \in Seq(Ranges) /\ list \in Seq(Threads)
        /\ \A i \in DOMAIN queue[v] : queue[v][i] \in DOMAIN tasks
        /\ DOMAIN tasks \subseteq Ranges /\ Fine(t)
    BY DEF Core, TypeInv, ThreadsInv
  <2>2. /\ Head(queue[v]) = queue[v][1] /\ queue[v][1] \in DOMAIN tasks
        /\ Head(queue[v]) \in Ranges \cup {NoTask}
    BY <1>2, <2>1
  <2>3. /\ thread[t].stage \in {"own", "drain"} => v = t
        /\ Registered(v)
    <3>1. thread[t].stage \in {"own", "first", "steal", "drain"}
      BY <2>1 DEF ThreadStates
    <3>2. Registered(t)
      BY <1>1, <2>1 DEF Fine, Absent, At
    <3>3. CASE thread[t].stage \in {"own", "drain"}
      BY <1>1, <3>2, <3>3 DEF Victims
    <3>4. CASE thread[t].stage = "first"
      <4>1. v = list[1] /\ 1 \in 1..Len(list)
        BY <1>1, <2>1, <3>2, <3>4 DEF Victims, Registered
      <4> QED
        BY <3>4, <4>1 DEF Registered
    <3>5. CASE thread[t].stage = "steal"
      <4>1. v \in Others(t)
        BY <1>1, <3>5 DEF Victims
      <4> QED
        BY <3>5, <4>1 DEF Others, Registered
    <3> QED
      BY <3>1, <3>3, <3>4, <3>5
  <2> DEFINE head == Head(queue[v])
  <2>4. thread' = [thread EXCEPT ![t] =
                     [thread[t] EXCEPT !.pc = "swap", !.victim = v, !.task = head]]
    BY <1>2, <2>1 DEF LookAt
  <2>5. head \in Ranges \cup {NoTask} /\ v \in Threads \cup {NoThread} /\ "swap" \in Steps
    BY <2>2 DEF Steps
  <2> HIDE DEF head
  <2>6. /\ thread' \in [Threads -> ThreadStates] /\ Moves(t)
        /\ thread'[t].pc = "swap" /\ thread'[t].stage = thread[t].stage
        /\ thread'[t].victim = v /\ thread'[t].task = head
    BY <2>1, <2>4, <2>5 DEF ThreadStates, Moves
  <2> QED
    BY <1>2, <2>2, <2>3, <2>6 DEF FoundAt, head
<1>3. queue[v] = <<>> => Missed(t)
  BY DEF LookAt
<1> QED
  BY <1>1, <1>2, <1>3

LEMMA LookAtKeeps ==
    ASSUME Core, NEW t \in Threads, NEW v \in Threads, LookAt(t, v)
    PROVE  Core'
<1>1. CASE Missed(t)
  BY <1>1, LookAtMoves, MissedKeeps DEF At
<1>2. CASE FoundAt(t, v)
  <2>1. UNCHANGED <<queue, tasks, list, active, shouldStop, gaveUp, started>> /\ At(t, "look")
    BY LookAtMoves
  <2>2. TypeInv'
    BY <1>2, <2>1, TypeStays DEF Core, TypeInv, FoundAt
  <2>3. HoldsTask(t)'
    BY <1>2, <2>1 DEF HoldsTask, At, FoundAt
  <2>4. thread[t].pc \in Busy
    BY <2>1 DEF Busy, At
  <2> QED
    BY <1>2, <2>1, <2>2, <2>3, <2>4, BusyMoves DEF Busy, FoundAt
<1> QED
  BY <1>1, <1>2, LookAtMoves

LEMMA TakeMoves ==
    ASSUME Core, NEW t \in Threads, Take(t)
    PROVE  /\ thread' \in [Threads -> ThreadStates] /\ Moves(t) /\ At(t, "swap")
           /\ thread'[t].pc = (IF thread[t].stage = "steal" THEN "share" ELSE "run")
           /\ thread'[t].stage = thread[t].stage /\ thread'[t].task = thread[t].task
           /\ thread'[t].victim = thread[t].victim
           /\ queue' = [queue EXCEPT ![thread[t].victim] = Tail(queue[thread[t].victim])]
           /\ queue[thread[t].victim] # <<>>
           /\ UNCHANGED <<tasks, list, active, shouldStop, gaveUp, started, waitFor>>
<1>1. thread \in [Threads -> ThreadStates] /\ {"share", "run"} \subseteq Steps
  BY DEF Core, TypeInv, Steps
<1>2. /\ At(t, "swap") /\ queue[thread[t].victim] # <<>>
      /\ queue' = [queue EXCEPT ![thread[t].victim] = Tail(queue[thread[t].victim])]
      /\ UNCHANGED <<tasks, list, active, shouldStop, gaveUp, started, waitFor>>
  BY DEF Take, StillThere, control
<1> DEFINE p == IF thread[t].stage = "steal" THEN "share" ELSE "run"
<1>3. thread' = [thread EXCEPT ![t].pc = p] /\ p \in Steps
  BY <1>1 DEF Take
<1> HIDE DEF p
<1>4. /\ thread' \in [Threads -> ThreadStates] /\ Moves(t) /\ thread'[t].pc = p
      /\ thread'[t].stage = thread[t].stage /\ thread'[t].task = thread[t].task
      /\ thread'[t].victim = thread[t].victim
  BY <1>1, <1>3 DEF ThreadStates, Moves
<1> QED
  BY <1>2, <1>4 DEF p

LEMMA TakeKeeps ==
    ASSUME Core, NEW t \in Threads, Take(t)
    PROVE  Core'
<1> DEFINE v == thread[t].victim
<1>1. thread[t].pc \in Busy
  BY TakeMoves DEF Busy, At
<1>2. /\ queue' \in [Threads -> Seq(Ranges)]
      /\ \A u \in Threads : \A i \in DOMAIN queue'[u] : queue'[u][i] \in DOMAIN tasks
  <2>1. /\ queue \in [Threads -> Seq(Ranges)]
        /\ \A u \in Threads : \A i \in DOMAIN queue[u] : queue[u][i] \in DOMAIN tasks
    BY DEF Core, TypeInv
  <2>2. queue' = [queue EXCEPT ![v] = Tail(queue[v])] /\ queue[v] # <<>>
    BY TakeMoves
  <2>3. ASSUME NEW q \in Seq(Ranges), q # <<>>
        PROVE  /\ Tail(q) \in Seq(Ranges)
               /\ \A i \in DOMAIN Tail(q) : i + 1 \in DOMAIN q /\ Tail(q)[i] = q[i + 1]
    BY <2>3
  <2> HIDE DEF v
  <2>4. ASSUME NEW u \in Threads
        PROVE  /\ queue'[u] \in Seq(Ranges)
               /\ \A i \in DOMAIN queue'[u] : queue'[u][i] \in DOMAIN tasks
    <3>1. CASE u = v
      BY <2>1, <2>2, <2>3, <3>1
    <3>2. CASE u # v
      BY <2>1, <2>2, <3>2
    <3> QED
      BY <3>1, <3>2
  <2> QED
    BY <2>1, <2>2, <2>4
<1>3. TypeInv'
  BY <1>2, TakeMoves DEF Core, TypeInv
<1>4. HoldsTask(t)'
  BY TakeMoves DEF Core, ThreadsInv, Fine, HoldsTask, At
<1>5. /\ thread[t].stage = "drain" => v = t
      /\ ~gaveUp => Registered(v)
  BY TakeMoves DEF Core, ThreadsInv, Fine, At
<1> QED
  BY <1>1, <1>3, <1>4, <1>5, TakeMoves, BusyMoves DEF Busy

LEMMA ShareMoves ==
    ASSUME Core, NEW t \in Threads, Share(t)
    PROVE  /\ thread' \in [Threads -> ThreadStates] /\ Moves(t) /\ At(t, "share")
           /\ thread'[t].pc = "run"
           /\ thread'[t].stage = thread[t].stage /\ thread'[t].task = thread[t].task
           /\ UNCHANGED <<queue, tasks, list, active, shouldStop, gaveUp, started, waitFor>>
<1>1. thread \in [Threads -> ThreadStates] /\ "run" \in Steps
  BY DEF Core, TypeInv, Steps
<1> QED
  BY <1>1 DEF Share, At, ThreadStates, Moves, control, work

LEMMA ShareKeeps ==
    ASSUME Core, NEW t \in Threads, Share(t)
    PROVE  Core'
<1>1. TypeInv'
  BY ShareMoves, TypeStays DEF Core, TypeInv
<1>2. HoldsTask(t)' /\ thread[t].pc \in Busy
  BY ShareMoves DEF Core, ThreadsInv, Fine, HoldsTask, At, Busy
<1> QED
  BY <1>1, <1>2, ShareMoves, BusyMoves DEF Busy

LEMMA LoseRaceKeeps ==
    ASSUME Core, NEW t \in Threads, LoseRace(t)
    PROVE  Core'
<1>1. /\ UNCHANGED <<queue, tasks, list, active, shouldStop, gaveUp, started>>
      /\ thread[t].pc \in {"look", "swap"} /\ Missed(t)
  BY DEF LoseRace, At, work, control
<1> QED
  BY <1>1, MissedKeeps

LEMMA TasksKeep ==
    ASSUME Core, NEW t \in Threads, TaskStep(t) \/ RunBody(t)
    PROVE  Core' /\ ~At(t, "start")'
<1>1. CASE PushTask(t)
  BY <1>1, PushTaskKeeps, PushTaskMoves DEF At
<1>2. CASE Notify(t)
  BY <1>2, NotifyKeeps, NotifyMoves DEF At
<1>3. CASE Finish(t)
  BY <1>3, FinishKeeps, FinishMoves DEF At
<1>4. ASSUME NEW v \in Threads, LookAt(t, v)
      PROVE  Core' /\ ~At(t, "start")'
  <2>1. CASE Missed(t)
    BY <1>4, <2>1, LookAtKeeps, MissedMoves DEF At, MissedOne, Core
  <2>2. CASE FoundAt(t, v)
    BY <1>4, <2>2, LookAtKeeps DEF At, FoundAt
  <2> QED
    BY <1>4, <2>1, <2>2, LookAtMoves
<1>5. CASE Take(t)
  BY <1>5, TakeKeeps, TakeMoves DEF At
<1>6. CASE LoseRace(t)
  <2>1. Missed(t)
    BY <1>6 DEF LoseRace
  <2> QED
    BY <1>6, <2>1, LoseRaceKeeps, MissedMoves DEF At, MissedOne, Core
<1>7. CASE Share(t)
  BY <1>7, ShareKeeps, ShareMoves DEF At
<1>8. CASE RunSplit(t)
  BY <1>8, RunSplitKeeps, RunSplitMoves DEF At
<1>9. CASE RunFunction(t)
  BY <1>9, RunFunctionKeeps, RunFunctionMoves DEF At
<1> QED
  BY <1>1, <1>2, <1>3, <1>4, <1>5, <1>6, <1>7, <1>8, <1>9 DEF TaskStep, RunBody

-----------------------------------------------------------------------------
(* A thread unregisters.                                                   *)

\* What holds of a thread that only goes on unregistering, or has done so.
LEMMA GoneIsFine ==
    ASSUME NEW t \in Threads, shouldStop',
           \/ thread'[t].pc \in {"quiet", "erase"} /\ Registered(t)'
           \/ thread'[t].pc = "resume"
           \/ thread'[t].pc = "gone" /\ t # Main
           \/ thread'[t].pc \in {"reap", "done"} /\ t = Main
    PROVE  Fine(t)' /\ ~Counted(t)'
  BY DEF Fine, StepsOf, Busy, Quitting, HoldsTask, Leaving, Absent, At, Counted

LEMMA QuitMoves ==
    ASSUME Core, NEW t \in Threads, UnregisterStep(t)
    PROVE  /\ thread' \in [Threads -> ThreadStates] /\ Moves(t)
           /\ shouldStop /\ shouldStop' = shouldStop
           /\ UNCHANGED <<queue, tasks, active, started, waitFor>>
           /\ thread[t].pc \in Quitting /\ ~Counted(t)
           /\ \/ At(t, "unregister") /\ thread'[t].pc = "quiet"
              \/ At(t, "quiet") /\ thread'[t].pc = "erase"
              \/ At(t, "erase") /\ thread'[t].pc = "resume"
              \/ At(t, "resume") /\ thread'[t].pc = IF t = Main THEN "reap" ELSE "gone"
           /\ ~At(t, "erase") => list' = list /\ Registered(t) = Registered(t)'
<1>1. /\ \/ At(t, "unregister") /\ Goto(t, "quiet")
         \/ At(t, "quiet") /\ Goto(t, "erase")
         \/ At(t, "erase") /\ Goto(t, "resume")
         \/ At(t, "resume") /\ Goto(t, IF t = Main THEN "reap" ELSE "gone")
      /\ UNCHANGED <<queue, tasks, active, started, waitFor, shouldStop>>
      /\ ~At(t, "erase") => list' = list
  BY DEF UnregisterStep, Unregister, SeeQuiet, GiveUp, Erase, Resume, At, control, work
<1>2. {"quiet", "erase", "resume", "reap", "gone"} \subseteq Steps /\ TypeInv
  BY DEF Steps, Core
<1>3. /\ thread' \in [Threads -> ThreadStates] /\ Moves(t)
      /\ \/ At(t, "unregister") /\ thread'[t].pc = "quiet"
         \/ At(t, "quiet") /\ thread'[t].pc = "erase"
         \/ At(t, "erase") /\ thread'[t].pc = "resume"
         \/ At(t, "resume") /\ thread'[t].pc = IF t = Main THEN "reap" ELSE "gone"
  BY <1>1, <1>2, GotoMoves
<1>4. thread[t].pc \in Quitting /\ ~Counted(t)
  BY <1>1 DEF Quitting, At, Counted, Busy
<1>5. shouldStop
  BY <1>4 DEF Core, ThreadsInv, Fine, Leaving
<1> QED
  BY <1>1, <1>3, <1>4, <1>5 DEF Registered

LEMMA SeeQuietKeeps ==
    ASSUME Core, NEW t \in Threads, SeeQuiet(t) \/ GiveUp(t)
    PROVE  Core'
<1>1. UnregisterStep(t) /\ At(t, "quiet") /\ list' = list
  BY DEF UnregisterStep, SeeQuiet, GiveUp, control
<1>2. /\ thread' \in [Threads -> ThreadStates] /\ Moves(t) /\ shouldStop /\ shouldStop' = shouldStop
      /\ UNCHANGED <<queue, tasks, active, started>> /\ ~Counted(t) /\ thread'[t].pc = "erase"
  BY <1>1, QuitMoves DEF At
<1>3. gaveUp' \in BOOLEAN /\ (gaveUp => gaveUp') /\ (active = 0 \/ gaveUp')
  BY DEF Core, TypeInv, SeeQuiet, GiveUp, AllPaused, control
<1>4. TypeInv'
  BY <1>1, <1>2, <1>3, TypeStays DEF Core
<1>5. Registered(t)'
  BY <1>1 DEF Core, ThreadsInv, Fine, Absent, At, Registered
<1>6. Fine(t)' /\ ~Counted(t)'
  BY <1>2, <1>5, GoneIsFine
<1>7. ThreadsInv'
  BY <1>1, <1>2, <1>3, <1>6, ThreadsStay DEF Core, Registered
<1>8. CountInv'
  BY <1>2, <1>6, CountStays DEF Core
<1>9. CalmInv'
  <2>1. CASE gaveUp'
    BY <2>1 DEF CalmInv
  <2>2. CASE active = 0
    <3>1. Counting = {}
      BY <2>2, CountingIsFinite, FS_EmptySet DEF Core, CountInv
    <3>2. \A w \in Workers : ~Counted(w)'
      BY <1>2, <1>6, <3>1 DEF Counting, Moves, Counted, Threads
    <3> QED
      BY <3>2 DEF CalmInv
  <2> QED
    BY <1>3, <2>1, <2>2
<1> QED
  BY <1>4, <1>7, <1>8, <1>9 DEF Core

\* Whoever is left on the list after t has been taken off was there before.
LEMMA TakenOff ==
    ASSUME list \in Seq(Threads), NEW i \in 1..Len(list), list' = RemoveAt(list, i)
    PROVE  /\ list' \in Seq(Threads)
           /\ \A u : u # list[i] /\ Registered(u) => Registered(u)'
<1>1. /\ Len(list) \in Nat
      /\ list' = SubSeq(list, 1, i - 1) \o SubSeq(list, i + 1, Len(list))
  BY DEF RemoveAt
<1>2. /\ SubSeq(list, 1, i - 1) \in Seq(Threads) /\ Len(SubSeq(list, 1, i - 1)) = i - 1
      /\ \A j \in 1..(i - 1) : SubSeq(list, 1, i - 1)[j] = list[j]
  BY <1>1
<1>3. /\ SubSeq(list, i + 1, Len(list)) \in Seq(Threads)
      /\ Len(SubSeq(list, i + 1, Len(list))) = Len(list) - i
      /\ \A j \in 1..(Len(list) - i) : SubSeq(list, i + 1, Len(list))[j] = list[j + i]
  BY <1>1
<1> DEFINE front == SubSeq(list, 1, i - 1)
           back == SubSeq(list, i + 1, Len(list))
<1> HIDE DEF front, back
<1> DEFINE n == Len(list)
<1>4. n \in Int /\ i \in Int /\ 1 <= i /\ i <= n
  BY <1>1
<1>5. /\ front \in Seq(Threads) /\ Len(front) = i - 1
      /\ back \in Seq(Threads) /\ Len(back) = n - i /\ list' = front \o back
      /\ \A j \in 1..(i - 1) : front[j] = list[j]
      /\ \A j \in 1..(n - i) : back[j] = list[j + i]
  BY <1>1, <1>2, <1>3 DEF front, back
<1>6. /\ list' \in Seq(Threads) /\ Len(list') = (i - 1) + (n - i)
      /\ \A j \in 1..((i - 1) + (n - i)) :
            list'[j] = IF j <= i - 1 THEN front[j] ELSE back[j - (i - 1)]
  <2>1. /\ front \o back \in Seq(Threads) /\ Len(front \o back) = Len(front) + Len(back)
        /\ \A j \in 1..(Len(front) + Len(back)) :
              (front \o back)[j] = IF j <= Len(front) THEN front[j] ELSE back[j - Len(front)]
    BY <1>5, ConcatProperties
  <2> HIDE DEF n
  <2> QED
    BY <1>5, <2>1
<1> HIDE DEF n
<1>7. ASSUME NEW u, u # list[i], Registered(u)
      PROVE  Registered(u)'
  <2>1. PICK j \in 1..n : list[j] = u
    BY <1>7 DEF Registered, n
  <2>2. j \in Int /\ 1 <= j /\ j <= n
    BY <1>4
  <2>3. CASE j < i
    <3>1. j \in 1..(i - 1) /\ j \in 1..((i - 1) + (n - i)) /\ j <= i - 1
      BY <1>4, <2>2, <2>3
    <3>2. list'[j] = u
      BY <1>5, <1>6, <2>1, <3>1
    <3> QED
      BY <1>6, <3>1, <3>2 DEF Registered
  <2>4. CASE j > i
    <3> DEFINE k == j - 1
    <3>1. /\ k \in 1..((i - 1) + (n - i)) /\ ~(k <= i - 1)
          /\ k - (i - 1) \in 1..(n - i) /\ (k - (i - 1)) + i = j
      BY <1>4, <2>2, <2>4
    <3>2. list'[k] = u
      BY <1>5, <1>6, <2>1, <3>1
    <3> QED
      BY <1>6, <3>1, <3>2 DEF Registered
  <2>5. j # i
    BY <1>7, <2>1
  <2> QED
    BY <1>4, <2>2, <2>3, <2>4, <2>5
<1> QED
  BY <1>6, <1>7

LEMMA EraseKeeps ==
    ASSUME Core, NEW t \in Threads, Erase(t)
    PROVE  Core'
<1>1. UnregisterStep(t) /\ At(t, "erase") /\ gaveUp' = gaveUp
  BY DEF UnregisterStep, Erase
<1>2. /\ thread' \in [Threads -> ThreadStates] /\ Moves(t) /\ shouldStop /\ shouldStop' = shouldStop
      /\ UNCHANGED <<queue, tasks, active, started>> /\ ~Counted(t) /\ thread'[t].pc = "resume"
  BY <1>1, QuitMoves DEF At
<1>3. Fine(t)' /\ ~Counted(t)'
  BY <1>2, GoneIsFine
<1>4. PICK i \in 1..Len(list) : list[i] = t /\ list' = RemoveAt(list, i)
  BY DEF Erase
<1>5. list' \in Seq(Threads) /\ \A u : u # t /\ Registered(u) => Registered(u)'
  BY <1>4, TakenOff DEF Core, TypeInv
<1>6. TypeInv'
  BY <1>1, <1>2, <1>5 DEF Core, TypeInv
<1>7. ASSUME NEW u \in Threads, u # t, thread[u].pc \in {"swap", "share"}, ~gaveUp
      PROVE  Registered(thread[u].victim)'
  <2>1. Fine(u) /\ Registered(thread[u].victim)
    BY <1>7 DEF Core, ThreadsInv, Fine
  <2>2. thread[u].pc \in Busy
    BY <1>7 DEF Busy
  <2>3. thread[u].stage = "drain"
    <3>1. CASE u = Main
      BY <1>2, <2>1, <2>2, <3>1, <1>7 DEF Fine, Leaving, Draining, Quitting
    <3>2. CASE u \in Workers
      <4>1. Counted(u) => thread[u].pc \in {"top", "leave"}
        BY <1>1, <1>7, <3>2 DEF Core, CalmInv, Past, At
      <4> QED
        BY <1>7, <2>2, <4>1 DEF Counted
    <3> QED
      BY <3>1, <3>2 DEF Threads
  <2>4. thread[u].victim # t
    BY <1>7, <2>1, <2>3 DEF Fine
  <2>5. thread'[u] = thread[u]
    BY <1>2, <1>7 DEF Moves
  <2> QED
    BY <1>5, <2>1, <2>4, <2>5
<1>8. ThreadsInv'
  <2> SUFFICES ASSUME NEW u \in Threads, u # t PROVE Fine(u)'
    BY <1>3 DEF ThreadsInv
  <2>1. thread'[u] = thread[u] /\ Fine(u)
    BY <1>2 DEF Moves, Core, ThreadsInv
  <2>2. HoldsTask(u)'
    BY <1>2, <2>1 DEF HoldsTask, Fine, At
  <2>3. Registered(u) => Registered(u)'
    BY <1>5
  <2>4. thread[u].pc \in {"swap", "share"} /\ ~gaveUp => Registered(thread[u].victim)'
    BY <1>7
  <2>5. thread'[u].pc \in {"swap", "share"} /\ ~gaveUp' => Registered(thread[u].victim)'
    BY <1>1, <2>1, <2>4
  <2> HIDE DEF Registered
  <2> QED
    BY <1>1, <1>2, <2>1, <2>2, <2>3, <2>5 DEF Fine, Leaving, Draining, Absent
<1>9. CountInv'
  BY <1>2, <1>3, CountStays DEF Core
<1>10. CalmInv'
  BY <1>1, <1>2, <1>3, <1>8, CalmStays DEF Core, Past, At
<1> QED
  BY <1>6, <1>8, <1>9, <1>10 DEF Core

LEMMA UnregisterKeeps ==
    ASSUME Core, NEW t \in Threads, UnregisterStep(t)
    PROVE  Core' /\ ~At(t, "start")'
<1>1. ~At(t, "start")'
  BY QuitMoves DEF At
<1>2. CASE SeeQuiet(t) \/ GiveUp(t)
  BY <1>1, <1>2, SeeQuietKeeps
<1>3. CASE Erase(t)
  BY <1>1, <1>3, EraseKeeps
<1>4. CASE Unregister(t) \/ Resume(t)
  <2>1. (At(t, "unregister") \/ At(t, "resume")) /\ gaveUp' = gaveUp
    BY <1>4 DEF Unregister, Resume
  <2>2. /\ thread' \in [Threads -> ThreadStates] /\ Moves(t)
        /\ shouldStop /\ shouldStop' = shouldStop
        /\ UNCHANGED <<queue, tasks, list, active, started>> /\ ~Counted(t)
        /\ \/ At(t, "unregister") /\ thread'[t].pc = "quiet"
           \/ At(t, "resume") /\ thread'[t].pc = IF t = Main THEN "reap" ELSE "gone"
    BY <2>1, QuitMoves DEF At
  <2>3. At(t, "unregister") => Registered(t)'
    BY <2>1, <2>2 DEF Core, ThreadsInv, Fine, Absent, At, Registered
  <2>4. Fine(t)' /\ ~Counted(t)'
    BY <2>2, <2>3, GoneIsFine
  <2>5. TypeInv'
    BY <2>1, <2>2, TypeStays DEF Core, TypeInv
  <2>6. Past(t)' => Past(t)
    BY <2>2 DEF Past, At
  <2> QED
    BY <1>1, <2>1, <2>2, <2>4, <2>5, <2>6, OnlyMoves
<1> QED
  BY <1>2, <1>3, <1>4 DEF UnregisterStep

-----------------------------------------------------------------------------
(* The steps of the main thread.                                           *)

LEMMA StartLoopMoves ==
    ASSUME Core, NEW l \in Loops, StartLoop(l)
    PROVE  /\ thread' \in [Threads -> ThreadStates] /\ Moves(Main) /\ At(Main, "user")
           /\ thread'[Main].pc = "push" /\ thread'[Main].stage = thread[Main].stage
           /\ thread'[Main].task = NoTask /\ thread[Main].stage # "drain"
           /\ thread'[Main].todo = <<WholeRange(l, Len(list))>>
           /\ UNCHANGED <<queue, tasks, list, active, shouldStop, gaveUp, waitFor>>
           /\ l \notin started /\ started' = started \cup {l}
<1>1. /\ thread \in [Threads -> ThreadStates] /\ Main \in Threads /\ Fine(Main)
      /\ At(Main, "user") /\ l \notin started /\ started' = started \cup {l}
      /\ UNCHANGED <<queue, tasks, list, active, shouldStop, gaveUp, waitFor>>
      /\ list \in Seq(Threads)
  BY DEF Core, TypeInv, ThreadsInv, Threads, StartLoop, control
<1>2. Len(list) \in Nat /\ Len(list) >= 1
  BY <1>1 DEF Fine, Absent, At, Registered
<1>3. WholeRange(l, Len(list)) \in Ranges
  <2>1. LoopSize[l] \in Nat
    BY LoopSizeAssumption
  <2>2. ASSUME NEW a \in Nat, NEW n \in Nat, n >= 1, ~(a < n)
        PROVE  a \div n \in Nat /\ a \div n >= 1
    BY <2>2, Z3T(30)
  <2>3. GrainOf(l, Len(list)) \in Nat \ {0}
    BY <1>2, <2>1, <2>2 DEF GrainOf
  <2> QED
    BY <2>1, <2>3 DEF WholeRange, Ranges
<1> DEFINE todo == <<WholeRange(l, Len(list))>>
<1>4. todo \in Seq(Ranges) /\ "push" \in Steps
  BY <1>3 DEF Steps
<1>5. thread' = [thread EXCEPT ![Main] = [thread[Main] EXCEPT !.pc = "push", !.todo = todo]]
  BY <1>1 DEF StartLoop
<1> HIDE DEF todo
<1>6. thread' \in [Threads -> ThreadStates] /\ Moves(Main) /\ thread'[Main].pc = "push"
      /\ thread'[Main].stage = thread[Main].stage /\ thread'[Main].task = thread[Main].task
      /\ thread'[Main].todo = todo
  BY <1>1, <1>4, <1>5 DEF ThreadStates, Moves
<1>7. thread[Main].task = NoTask /\ thread[Main].stage # "drain"
  BY <1>1 DEF Fine, HoldsTask
<1> QED
  BY <1>1, <1>6, <1>7 DEF todo

LEMMA StartLoopKeeps ==
    ASSUME Core, NEW l \in Loops, StartLoop(l)
    PROVE  Core'
<1>1. Main \in Threads /\ Main \notin Workers
  BY ThreadsAssumption DEF Threads
<1>2. TypeInv'
  BY StartLoopMoves DEF Core, TypeInv
<1>3. HoldsTask(Main)'
  <2>1. thread'[Main].todo # <<>> /\ thread'[Main].pc = "push" /\ thread'[Main].task = NoTask
    <3>1. \A x : <<x>> # <<>>
      OBVIOUS
    <3>2. thread'[Main].todo = <<WholeRange(l, Len(list))>>
      BY StartLoopMoves
    <3>3. thread'[Main].todo # <<>>
      BY <3>1, <3>2
    <3> QED
      BY <3>3, StartLoopMoves
  <2>2. thread'[Main].stage # "drain"
    BY StartLoopMoves
  <2> QED
    BY <2>1, <2>2 DEF HoldsTask, At
<1>4. Registered(Main)'
  BY <1>1, StartLoopMoves DEF Core, ThreadsInv, Fine, Absent, At, Registered
<1>5. ~shouldStop
  BY <1>1, StartLoopMoves DEF Core, ThreadsInv, Fine, Leaving, Draining, Busy, Quitting, At
<1>6. Fine(Main)' /\ ~Past(Main)'
  BY <1>3, <1>4, <1>5, StartLoopMoves
     DEF Fine, StepsOf, Busy, Leaving, Draining, Quitting, Past
<1> QED
  BY <1>1, <1>2, <1>6, StartLoopMoves, OnlyMoves

\* The main thread only moves, outside of tasks.
LEMMA MainMoves ==
    ASSUME Core, thread' \in [Threads -> ThreadStates], Moves(Main),
           UNCHANGED <<queue, tasks, list, active, shouldStop, started>>,
           gaveUp' \in BOOLEAN, gaveUp => gaveUp',
           \/ At(Main, "user") /\ thread'[Main].pc = "wait"
           \/ At(Main, "wait") /\ thread'[Main].pc = "look" /\ thread'[Main].stage = "own"
           \/ /\ At(Main, "wait") /\ thread'[Main].pc = "user"
              /\ thread'[Main].task = NoTask /\ thread'[Main].stage = "own"
           \/ At(Main, "alarm") /\ thread'[Main].pc = "look" /\ thread'[Main].stage = "drain"
           \/ At(Main, "reap") /\ thread'[Main].pc = "done"
    PROVE  Core'
<1>1. Main \in Threads /\ Main \notin Workers /\ Fine(Main)
  BY ThreadsAssumption DEF Threads, Core, ThreadsInv
<1>2. TypeInv'
  BY TypeStays DEF Core
<1>3. ~At(Main, "reap") => Registered(Main)'
  BY <1>1 DEF Fine, Absent, At, Registered
<1>4. HoldsTask(Main)' /\ thread'[Main].pc \in StepsOf(Main)
  BY DEF HoldsTask, At, StepsOf, Busy
<1>5. /\ Leaving(Main)' => shouldStop'
      /\ shouldStop' => Leaving(Main)'
  BY <1>1 DEF Fine, Leaving, Draining, Busy, Quitting, At
<1>6. Fine(Main)' /\ (Past(Main)' => Past(Main))
  BY <1>3, <1>4, <1>5 DEF Fine, Absent, Past, At, StepsOf
<1> QED
  BY <1>1, <1>2, <1>6, OnlyMoves

LEMMA DestroyKeeps ==
    ASSUME Core, Destroy
    PROVE  Core'
<1>1. /\ Main \in Threads /\ Main \notin Workers /\ Fine(Main) /\ TypeInv
      /\ "alarm" \in Steps
  BY ThreadsAssumption DEF Threads, Core, ThreadsInv, Steps
<1>2. /\ thread' \in [Threads -> ThreadStates] /\ Moves(Main) /\ thread'[Main].pc = "alarm"
      /\ At(Main, "user") /\ shouldStop'
      /\ UNCHANGED <<queue, tasks, list, active, started, gaveUp>>
  BY <1>1, GotoMoves DEF Destroy, work
<1>3. TypeInv'
  BY <1>1, <1>2 DEF TypeInv, Destroy
<1>4. Fine(Main)'
  <2>1. Registered(Main)'
    BY <1>1, <1>2 DEF Fine, Absent, At, Registered
  <2> QED
    BY <1>2, <2>1 DEF Fine, StepsOf, HoldsTask, Leaving, At
<1>5. ThreadsInv'
  <2> SUFFICES ASSUME NEW u \in Threads, u # Main PROVE Fine(u)'
    BY <1>4 DEF ThreadsInv
  <2>1. thread'[u] = thread[u] /\ Fine(u)
    BY <1>2 DEF Moves, Core, ThreadsInv
  <2>2. HoldsTask(u)'
    BY <1>2, <2>1 DEF HoldsTask, Fine, At
  <2> QED
    BY <1>2, <2>1, <2>2 DEF Fine, Leaving, Draining, Absent, Registered
<1>6. CountInv'
  BY <1>1, <1>2, CountStays DEF Core
<1>7. CalmInv'
  <2>1. ~shouldStop
    BY <1>1, <1>2 DEF Fine, Leaving, Draining, Busy, Quitting, At
  <2>2. \A u \in Threads : ~Past(u)
    BY <2>1 DEF Core, ThreadsInv, Fine, Leaving, Past, Quitting
  <2>3. \A u \in Threads : ~Past(u)'
    BY <1>2, <2>2 DEF Past, Moves
  <2> QED
    BY <2>3 DEF CalmInv
<1> QED
  BY <1>3, <1>5, <1>6, <1>7 DEF Core

LEMMA SameThreadsKeep ==
    ASSUME Core, UNCHANGED <<thread, queue, tasks, list, active, shouldStop, started, gaveUp>>
    PROVE  Core'
  BY DEF Core, TypeInv, ThreadsInv, CountInv, CalmInv, Fine, HoldsTask, Leaving, Draining,
         Absent, Registered, Past, Counted, Counting, At

LEMMA MainsStepKeeps ==
    ASSUME Core, MainCall \/ MainStep
    PROVE  Core'
<1>1. /\ Main \in Threads /\ TypeInv /\ {"wait", "user", "done"} \subseteq Steps
      /\ gaveUp \in BOOLEAN /\ {"own", "drain"} \subseteq {"own", "first", "steal", "drain"}
  BY DEF Threads, Core, Steps, TypeInv
<1> DEFINE Same == UNCHANGED <<queue, tasks, list, active, shouldStop, started>>
<1>2. ASSUME NEW l \in Loops, StartLoop(l) PROVE Core'
  BY <1>2, StartLoopKeeps
<1>3. ASSUME NEW l \in Loops, BeginWait(l) PROVE Core'
  <2>1. At(Main, "user") /\ Goto(Main, "wait") /\ Same /\ gaveUp' = gaveUp
    BY <1>3 DEF BeginWait, work, control
  <2> QED
    BY <1>1, <2>1, GotoMoves, MainMoves
<1>4. CASE WaitTurn
  <2>1. At(Main, "wait") /\ Seek(Main, "own") /\ Same /\ gaveUp' = gaveUp
    BY <1>4 DEF WaitTurn, work, control
  <2> QED
    BY <1>1, <2>1, SeekMoves, MainMoves
<1>5. CASE WaitDone
  <2>1. At(Main, "wait") /\ Goto(Main, "user") /\ Same /\ gaveUp' = gaveUp
    BY <1>5 DEF WaitDone, work, control
  <2> QED
    BY <1>1, <2>1, GotoMoves, MainMoves
<1>6. CASE \E b \in BOOLEAN : Pause(b)
  BY <1>6, SameThreadsKeep DEF Pause, work
<1>7. CASE Destroy
  BY <1>7, DestroyKeeps
<1>8. CASE Alarm
  <2>1. CASE alarms > 0
    BY <1>8, <2>1, SameThreadsKeep DEF Alarm, work
  <2>2. CASE ~(alarms > 0)
    <3>1. At(Main, "alarm") /\ Seek(Main, "drain") /\ Same /\ gaveUp' = gaveUp
      BY <1>8, <2>2 DEF Alarm, work
    <3> QED
      BY <1>1, <3>1, SeekMoves, MainMoves
  <2> QED
    BY <2>1, <2>2
<1>9. CASE Reap
  BY <1>9, SameThreadsKeep DEF Reap, work, control
<1>10. CASE Join \/ Abandon
  <2>1. /\ At(Main, "reap") /\ Goto(Main, "done") /\ Same
        /\ gaveUp' \in BOOLEAN /\ (gaveUp => gaveUp')
    BY <1>1, <1>10 DEF Join, Abandon, work, control
  <2> QED
    BY <1>1, <2>1, GotoMoves, MainMoves
<1> QED
  BY <1>2, <1>3, <1>4, <1>5, <1>6, <1>7, <1>8, <1>9, <1>10 DEF MainCall, MainStep

-----------------------------------------------------------------------------
(* The main thread before a worker has registered.                         *)

\* Nothing changes for the tasks.
LEMMA TasksStay ==
    ASSUME AloneTasks, UNCHANGED <<queue, tasks, started>>, ~At(Main, "push"),
           MainRuns' <=> MainRuns, MainRuns => thread'[Main].task = thread[Main].task
    PROVE  AloneTasks'
  BY DEF AloneTasks

\* The main thread is not about to do anything with a task.
LEMMA IdleAlone ==
    ASSUME AloneTasks, AloneMain, UNCHANGED <<queue, tasks, started>>,
           thread[Main].pc \notin {"push", "run", "finish"},
           thread'[Main].pc \notin Busy \cup {"wait"},
           Absent(Main)' \/ (~Absent(Main) /\ list' = list)
    PROVE  AloneTasks' /\ AloneMain'
<1>1. ~MainRuns /\ ~MainRuns' /\ ~At(Main, "push")
  BY DEF MainRuns, At, Busy
<1> QED
  BY <1>1, TasksStay DEF AloneMain, At, Busy

LEMMA StartLoopAlone ==
    ASSUME Core, AloneTasks, AloneMain, NEW l \in Loops, StartLoop(l)
    PROVE  AloneTasks' /\ AloneMain'
<1> DEFINE w == WholeRange(l, Len(list))
<1>1. /\ At(Main, "user") /\ thread'[Main].pc = "push" /\ thread'[Main].task = NoTask
      /\ thread'[Main].todo = <<w>> /\ UNCHANGED <<queue, tasks, list, waitFor>>
      /\ l \notin started /\ started' = started \cup {l}
  BY StartLoopMoves
<1>2. Len(list) = 1 /\ list = <<Main>>
  BY <1>1 DEF AloneMain, Absent, At
<1>3. w.loop = l /\ ~IsSplittable(w)
  <2>1. LoopSize[l] \in Nat /\ w = WholeRange(l, 1)
    BY <1>2, LoopSizeAssumption
  <2>2. \A n \in Nat : n \div 1 = n
    BY Z3T(30)
  <2> QED
    BY <2>1, <2>2 DEF WholeRange, GrainOf, IsSplittable, SizeOf
<1> HIDE DEF w
<1>4. <<w>>[1] = w /\ Len(<<w>>) = 1
  OBVIOUS
<1>5. AloneTasks'
  BY <1>1, <1>3, <1>4 DEF AloneTasks, MainRuns, At
<1>6. \A r \in DOMAIN tasks : r.loop # l
  BY <1>1 DEF AloneTasks
<1>7. AloneMain'
  BY <1>1, <1>2, <1>3, <1>4, <1>6 DEF AloneMain, At
<1> QED
  BY <1>5, <1>7

LEMMA WaitTurnAlone ==
    ASSUME Core, AloneTasks, AloneMain, WaitTurn
    PROVE  AloneTasks' /\ AloneMain'
<1>1. /\ Main \in Threads /\ At(Main, "wait") /\ ~IsFinished(waitFor)
      /\ UNCHANGED <<queue, tasks, list, started, waitFor>>
      /\ thread'[Main].pc = "look" /\ thread'[Main].stage = "own"
  BY SeekMoves DEF WaitTurn, work, control, Threads, Core
<1>2. waitFor \in started /\ ~Absent(Main)
  BY <1>1 DEF AloneMain, Absent, At
<1>3. \E r \in DOMAIN tasks : r.loop = waitFor /\ tasks[r].parent = NoTask
  BY <1>1, <1>2 DEF AloneTasks, At
<1>4. RootOf(waitFor) \in DOMAIN tasks /\ tasks[RootOf(waitFor)].jobs # 0
  BY <1>1, <1>3 DEF RootOf, IsFinished
<1>5. queue[Main] # <<>>
  <2>1. PICK i \in DOMAIN queue[Main] : TRUE
    BY <1>1, <1>4 DEF AloneTasks, MainRuns, At
  <2> QED
    BY <2>1
<1>6. AloneTasks'
  BY <1>1, TasksStay DEF MainRuns, At
<1>7. AloneMain'
  BY <1>1, <1>2, <1>5 DEF AloneMain, Absent, At
<1> QED
  BY <1>6, <1>7

LEMMA MainsStepAlone ==
    ASSUME Core, AloneTasks, AloneMain, MainCall \/ MainStep
    PROVE  AloneTasks' /\ AloneMain'
<1>1. /\ Main \in Threads /\ TypeInv /\ {"wait", "user", "alarm", "done"} \subseteq Steps
      /\ {"own", "drain"} \subseteq {"own", "first", "steal", "drain"}
  BY DEF Threads, Core, Steps
<1> DEFINE Same == UNCHANGED <<queue, tasks, list, started>>
<1>2. ASSUME NEW l \in Loops, StartLoop(l) PROVE AloneTasks' /\ AloneMain'
  BY <1>2, StartLoopAlone
<1>3. ASSUME NEW l \in Loops, BeginWait(l) PROVE AloneTasks' /\ AloneMain'
  <2>1. At(Main, "user") /\ Goto(Main, "wait") /\ Same /\ waitFor' = l /\ l \in started
    BY <1>3 DEF BeginWait, work, control
  <2>2. thread'[Main].pc = "wait"
    BY <1>1, <2>1, GotoMoves
  <2>3. AloneTasks'
    BY <2>1, <2>2, TasksStay DEF MainRuns, At
  <2> QED
    BY <2>1, <2>2, <2>3 DEF AloneMain, Absent, At
<1>4. CASE WaitTurn
  BY <1>4, WaitTurnAlone
<1>5. CASE WaitDone \/ Destroy
  <2>1. /\ thread[Main].pc \in {"user", "wait"} /\ Same
        /\ Goto(Main, "user") \/ Goto(Main, "alarm")
    BY <1>5 DEF WaitDone, Destroy, work, control, At
  <2>2. thread'[Main].pc \in {"user", "alarm"}
    BY <1>1, <2>1, GotoMoves
  <2> QED
    BY <2>1, <2>2, IdleAlone DEF Absent, Busy
<1>6. CASE (\E b \in BOOLEAN : Pause(b)) \/ Reap
  <2>1. UNCHANGED <<thread, queue, tasks, list, started, waitFor>>
    BY <1>6 DEF Pause, Reap, work, control
  <2> QED
    BY <2>1 DEF AloneTasks, AloneMain, MainRuns, Absent, At
<1>7. CASE Alarm
  <2>1. CASE alarms > 0
    <3>1. UNCHANGED <<thread, queue, tasks, list, started, waitFor>>
      BY <1>7, <2>1 DEF Alarm, work
    <3> QED
      BY <3>1 DEF AloneTasks, AloneMain, MainRuns, Absent, At
  <2>2. CASE ~(alarms > 0)
    <3>1. At(Main, "alarm") /\ Seek(Main, "drain") /\ Same
      BY <1>7, <2>2 DEF Alarm, work
    <3>2. thread'[Main].pc = "look" /\ thread'[Main].stage = "drain"
      BY <1>1, <3>1, SeekMoves
    <3>3. AloneTasks'
      BY <3>1, <3>2, TasksStay DEF MainRuns, At
    <3> QED
      BY <3>1, <3>2, <3>3 DEF AloneMain, Absent, At
  <2> QED
    BY <2>1, <2>2
<1>8. CASE Join \/ Abandon
  <2>1. At(Main, "reap") /\ Goto(Main, "done") /\ UNCHANGED <<queue, tasks, started>>
    BY <1>8 DEF Join, Abandon, work
  <2>2. thread'[Main].pc = "done"
    BY <1>1, <2>1, GotoMoves
  <2> QED
    BY <2>1, <2>2, IdleAlone DEF Absent, Busy, At
<1> QED
  BY <1>2, <1>3, <1>4, <1>5, <1>6, <1>7, <1>8 DEF MainCall, MainStep

LEMMA PushTaskAlone ==
    ASSUME Core, AloneTasks, AloneMain, PushTask(Main)
    PROVE  AloneTasks' /\ AloneMain'
<1> DEFINE new == thread[Main].todo[1]
           q == queue[Main]
           n == Len(q) + 1
<1>1. /\ Main \in Threads /\ At(Main, "push") /\ thread'[Main].pc = "notify"
      /\ thread'[Main].task = NoTask /\ thread[Main].task = NoTask
      /\ thread'[Main].todo = Tail(thread[Main].todo)
      /\ thread[Main].todo \in Seq(Ranges) /\ Len(thread[Main].todo) = 1
      /\ thread[Main].todo # <<>>
      /\ UNCHANGED <<list, started, waitFor>>
  BY PushTaskMoves DEF Threads, AloneMain, PushTask, control
<1>2. /\ Head(thread[Main].todo) = new /\ thread'[Main].todo = <<>> /\ new \in Ranges
  <2>1. ASSUME NEW s \in Seq(Ranges), Len(s) = 1
        PROVE  Head(s) = s[1] /\ s[1] \in Ranges /\ Tail(s) = <<>>
    <3>1. Head(s) = s[1] /\ s[1] \in Ranges /\ Tail(s) \in Seq(Ranges) /\ Len(Tail(s)) = 0
      BY <2>1
    <3> QED
      BY <3>1, EmptySeq
  <2> QED
    BY <1>1, <2>1
<1>3. /\ q \in Seq(Ranges) /\ queue \in [Threads -> Seq(Ranges)]
      /\ \A i \in DOMAIN q : q[i] \in DOMAIN tasks
  BY <1>1 DEF Core, TypeInv
<1>4. /\ ~IsSplittable(new) /\ new.loop \in started /\ new \notin DOMAIN tasks
      /\ list = <<Main>>
  BY <1>1 DEF AloneMain, Absent, At
<1>5. /\ DOMAIN tasks' = DOMAIN tasks \cup {new}
      /\ tasks'[new].jobs = 1 /\ tasks'[new].parent = NoTask
      /\ \A r \in DOMAIN tasks : tasks'[r] = tasks[r]
  <2>1. tasks' = [r \in DOMAIN tasks \cup {new} |->
                    IF r = new THEN [jobs |-> 1, parent |-> NoTask] ELSE tasks[r]]
    BY <1>1, <1>2 DEF PushTask, Adopted
  <2> QED
    BY <1>4, <2>1
<1>6. queue'[Main] = Append(q, new)
  BY <1>1, <1>2, <1>3 DEF PushTask
<1>7. /\ n \in Nat /\ n >= 1 /\ DOMAIN queue'[Main] = 1..n /\ DOMAIN q = 1..(n - 1)
      /\ queue'[Main][n] = new /\ \A i \in 1..(n - 1) : queue'[Main][i] = q[i]
  BY <1>2, <1>3, <1>6
<1> HIDE DEF new, q, n
<1>8. ~MainRuns /\ ~MainRuns' /\ ~At(Main, "push")'
  BY <1>1 DEF MainRuns, At
<1>9. ASSUME NEW r \in DOMAIN tasks'
      PROVE  /\ ~IsSplittable(r) /\ tasks'[r].parent = NoTask /\ r.loop \in started'
             /\ tasks'[r].jobs # 0 => \E i \in DOMAIN queue'[Main] : queue'[Main][i] = r
  <2>1. CASE r = new
    BY <1>1, <1>4, <1>5, <1>7, <2>1
  <2>2. CASE r # new
    <3>1. r \in DOMAIN tasks /\ tasks'[r] = tasks[r]
      BY <1>5, <1>9, <2>2
    <3>2. tasks[r].jobs # 0 => \E i \in 1..(n - 1) : q[i] = r
      BY <1>7, <1>8, <3>1 DEF AloneTasks, q
    <3>3. ASSUME NEW i \in 1..(n - 1), q[i] = r
          PROVE  i \in 1..n /\ queue'[Main][i] = r
      <4>1. i \in 1..n
        BY <1>7, <3>3
      <4>2. queue'[Main][i] = r
        BY <1>7, <3>3
      <4> QED
        BY <4>1, <4>2
    <3>4. tasks[r].jobs # 0 => \E i \in 1..n : queue'[Main][i] = r
      BY <3>2, <3>3
    <3> QED
      BY <1>1, <1>7, <3>1, <3>4 DEF AloneTasks
  <2> QED
    BY <2>1, <2>2
<1>10. ASSUME NEW i \in DOMAIN queue'[Main]
       PROVE  /\ tasks'[queue'[Main][i]].jobs = 1
              /\ \A j \in DOMAIN queue'[Main] : i # j => queue'[Main][i] # queue'[Main][j]
  <2>1. \A k \in 1..(n - 1) : q[k] \in DOMAIN tasks /\ q[k] # new /\ tasks[q[k]].jobs = 1
    BY <1>3, <1>4, <1>7 DEF AloneTasks, q
  <2>2. \A k \in 1..(n - 1), j \in 1..(n - 1) : k # j => q[k] # q[j]
    BY <1>7 DEF AloneTasks, q
  <2>3. \A k \in 1..n : k = n \/ k \in 1..(n - 1)
    BY <1>7
  <2> QED
    BY <1>5, <1>7, <1>10, <2>1, <2>2, <2>3
<1>11. \A l \in started' : \E r \in DOMAIN tasks' : r.loop = l
  BY <1>1, <1>5 DEF AloneTasks, new
<1>12. AloneTasks'
  BY <1>8, <1>9, <1>10, <1>11 DEF AloneTasks
<1>13. AloneMain'
  BY <1>1, <1>2, <1>4 DEF AloneMain, At
<1> QED
  BY <1>12, <1>13

LEMMA FinishAlone ==
    ASSUME Core, AloneTasks, AloneMain, Finish(Main)
    PROVE  AloneTasks' /\ AloneMain'
<1> DEFINE r == thread[Main].task
<1>1. /\ Main \in Threads /\ At(Main, "finish") /\ r \in DOMAIN tasks
      /\ UNCHANGED <<queue, list, started, waitFor>>
      /\ tasks' = [tasks EXCEPT ![r].jobs = tasks[r].jobs - 1]
  BY FinishMoves DEF Threads, Finish, control
<1>2. tasks[r].parent = NoTask /\ tasks[r].jobs = 1 /\ MainRuns
  BY <1>1 DEF AloneTasks, MainRuns, At
<1>3. \/ thread[Main].stage = "drain" /\ thread'[Main].pc = "look" /\ thread'[Main].stage = "drain"
      \/ thread[Main].stage # "drain" /\ thread'[Main].pc = "wait"
  BY <1>1, <1>2, FinishMoves
<1>4. /\ DOMAIN tasks' = DOMAIN tasks /\ tasks'[r].jobs = 0 /\ tasks'[r].parent = NoTask
      /\ \A u \in DOMAIN tasks : u # r => tasks'[u] = tasks[u]
  <2>1. tasks[r] \in [jobs : Int, parent : DOMAIN tasks \cup {NoTask}]
    BY <1>1 DEF Core, TypeInv
  <2> QED
    BY <1>1, <1>2, <2>1
<1>5. ~MainRuns' /\ ~At(Main, "push") /\ ~At(Main, "push")'
  BY <1>1, <1>3 DEF MainRuns, At
<1>6. \A i \in DOMAIN queue[Main] : queue[Main][i] # r /\ queue[Main][i] \in DOMAIN tasks
  BY <1>1, <1>2 DEF AloneTasks, Core, TypeInv
<1> HIDE DEF r
<1>7. AloneTasks'
  <2>1. \A u \in DOMAIN tasks' :
           /\ ~IsSplittable(u) /\ tasks'[u].parent = NoTask /\ u.loop \in started'
           /\ tasks'[u].jobs # 0 => \E i \in DOMAIN queue'[Main] : queue'[Main][i] = u
    <3> SUFFICES ASSUME NEW u \in DOMAIN tasks
                 PROVE  /\ ~IsSplittable(u) /\ tasks'[u].parent = NoTask /\ u.loop \in started'
                        /\ tasks'[u].jobs # 0 =>
                              \E i \in DOMAIN queue'[Main] : queue'[Main][i] = u
      BY <1>4
    <3>1. /\ ~IsSplittable(u) /\ tasks[u].parent = NoTask /\ u.loop \in started
          /\ tasks[u].jobs # 0 => u = r \/ \E i \in DOMAIN queue[Main] : queue[Main][i] = u
      BY DEF AloneTasks, r
    <3>2. CASE u = r
      BY <1>1, <1>4, <3>1, <3>2
    <3>3. CASE u # r
      <4>1. tasks'[u] = tasks[u]
        BY <1>4, <3>3
      <4> QED
        BY <1>1, <3>1, <3>3, <4>1
    <3> QED
      BY <3>2, <3>3
  <2>2. \A i \in DOMAIN queue'[Main] :
           /\ tasks'[queue'[Main][i]].jobs = 1
           /\ \A j \in DOMAIN queue'[Main] : i # j => queue'[Main][i] # queue'[Main][j]
    BY <1>1, <1>4, <1>6 DEF AloneTasks
  <2>3. \A l \in started' : \E u \in DOMAIN tasks' : u.loop = l
    BY <1>1, <1>4, <1>5 DEF AloneTasks
  <2> QED
    BY <1>5, <2>1, <2>2, <2>3 DEF AloneTasks
<1>8. AloneMain'
  BY <1>1, <1>3 DEF AloneMain, Absent, At
<1> QED
  BY <1>7, <1>8

LEMMA LookAtAlone ==
    ASSUME Core, AloneTasks, AloneMain, NEW v \in Threads, LookAt(Main, v)
    PROVE  AloneTasks' /\ AloneMain'
<1>1. /\ Main \in Threads /\ TypeInv /\ At(Main, "look") /\ v \in Victims(Main)
      /\ UNCHANGED <<queue, tasks, list, started, waitFor>>
      /\ (queue[v] = <<>> /\ Missed(Main)) \/ FoundAt(Main, v)
  BY LookAtMoves DEF Threads, Core
<1>2. /\ thread[Main].stage \in {"own", "drain"} /\ v = Main
      /\ thread[Main].stage = "own" => queue[Main] # <<>>
      /\ thread[Main].stage = "own" => waitFor \in started
  BY <1>1 DEF AloneMain, Victims, At
<1>3. CASE queue[v] = <<>> /\ Missed(Main)
  <2>1. thread'[Main].pc = "unregister"
    BY <1>1, <1>2, <1>3, MissedMoves DEF MissedOne
  <2> QED
    BY <1>1, <2>1, IdleAlone DEF Absent, Busy, At
<1>4. CASE FoundAt(Main, v)
  <2>1. /\ thread'[Main].pc = "swap" /\ thread'[Main].stage = thread[Main].stage
        /\ thread'[Main].victim = Main /\ queue[Main] # <<>>
        /\ thread'[Main].task = queue[Main][1]
    BY <1>2, <1>4 DEF FoundAt
  <2>2. AloneTasks'
    BY <1>1, <2>1, TasksStay DEF MainRuns, At
  <2>3. AloneMain'
    BY <1>1, <1>2, <2>1 DEF AloneMain, Absent, At
  <2> QED
    BY <2>2, <2>3
<1> QED
  BY <1>1, <1>3, <1>4

LEMMA TakeAlone ==
    ASSUME Core, AloneTasks, AloneMain, Take(Main)
    PROVE  AloneTasks' /\ AloneMain'
<1> DEFINE q == queue[Main]
           r == thread[Main].task
<1>1. /\ Main \in Threads /\ At(Main, "swap") /\ UNCHANGED <<tasks, list, started, waitFor>>
      /\ thread[Main].stage \in {"own", "drain"} /\ thread'[Main].pc = "run"
      /\ thread'[Main].stage = thread[Main].stage /\ thread'[Main].task = r
      /\ q # <<>> /\ q[1] = r
      /\ queue' = [queue EXCEPT ![Main] = Tail(q)]
  <2>1. Main \in Threads
    BY DEF Threads
  <2>2. At(Main, "swap") /\ thread[Main].stage \in {"own", "drain"} /\ thread[Main].victim = Main
        /\ q # <<>> /\ q[1] = r
    BY <2>1, TakeMoves DEF AloneMain
  <2> QED
    BY <2>1, <2>2, TakeMoves
<1>2. /\ q \in Seq(Ranges) /\ queue \in [Threads -> Seq(Ranges)]
      /\ \A i \in DOMAIN q : q[i] \in DOMAIN tasks
  BY <1>1 DEF Core, TypeInv
<1>3. /\ Len(q) \in Nat /\ Len(q) >= 1 /\ DOMAIN q = 1..Len(q)
      /\ queue'[Main] = Tail(q) /\ DOMAIN queue'[Main] = 1..(Len(q) - 1)
      /\ \A i \in 1..(Len(q) - 1) : queue'[Main][i] = q[i + 1]
  BY <1>1, <1>2
<1>4. ~MainRuns /\ MainRuns' /\ ~At(Main, "push") /\ ~At(Main, "push")'
  BY <1>1 DEF MainRuns, At
<1>5. /\ \A i \in 1..Len(q) : tasks[q[i]].jobs = 1
      /\ \A i \in 1..Len(q), j \in 1..Len(q) : i # j => q[i] # q[j]
      /\ \A u \in DOMAIN tasks : tasks[u].jobs # 0 => \E i \in 1..Len(q) : q[i] = u
  BY <1>3, <1>4 DEF AloneTasks
<1> HIDE DEF q, r
<1>6. \A i \in 1..(Len(q) - 1) : i + 1 \in 1..Len(q) /\ i + 1 # 1
  BY <1>3
<1>7. ASSUME NEW i \in DOMAIN queue'[Main]
      PROVE  /\ tasks'[queue'[Main][i]].jobs = 1
             /\ \A j \in DOMAIN queue'[Main] : i # j => queue'[Main][i] # queue'[Main][j]
             /\ queue'[Main][i] # r
  <2>1. /\ i \in 1..(Len(q) - 1) /\ i + 1 \in 1..Len(q) /\ 1 \in 1..Len(q)
        /\ queue'[Main][i] = q[i + 1]
    BY <1>3, <1>6, <1>7
  <2>2. tasks'[queue'[Main][i]].jobs = 1 /\ queue'[Main][i] # r
    BY <1>1, <1>5, <1>6, <2>1 DEF q
  <2>3. ASSUME NEW j \in DOMAIN queue'[Main], i # j
        PROVE  queue'[Main][i] # queue'[Main][j]
    <3>1. j \in 1..(Len(q) - 1) /\ queue'[Main][j] = q[j + 1] /\ j + 1 \in 1..Len(q)
      BY <1>3, <1>6, <2>3
    <3>2. i + 1 # j + 1
      BY <1>3, <2>1, <2>3, <3>1
    <3> QED
      BY <1>5, <2>1, <3>1, <3>2
  <2> QED
    BY <2>2, <2>3
<1>8. ASSUME NEW u \in DOMAIN tasks, tasks[u].jobs # 0
      PROVE  u = r \/ \E i \in DOMAIN queue'[Main] : queue'[Main][i] = u
  <2>1. PICK i \in 1..Len(q) : q[i] = u
    BY <1>5, <1>8
  <2>2. CASE i = 1
    BY <1>1, <2>1, <2>2 DEF q
  <2>3. CASE i # 1
    <3>1. i - 1 \in 1..(Len(q) - 1) /\ (i - 1) + 1 = i
      BY <1>3, <2>3
    <3> QED
      BY <1>3, <2>1, <3>1
  <2> QED
    BY <2>2, <2>3
<1>9. tasks'[r].jobs = 1
  BY <1>1, <1>3, <1>5 DEF q
<1>10. AloneTasks'
  BY <1>1, <1>4, <1>7, <1>8, <1>9 DEF AloneTasks, r
<1>11. AloneMain'
  BY <1>1 DEF AloneMain, Absent, At
<1> QED
  BY <1>10, <1>11

LEMMA MainsTaskAlone ==
    ASSUME Core, AloneTasks, AloneMain, TaskStep(Main) \/ RunBody(Main)
    PROVE  AloneTasks' /\ AloneMain'
<1>0. Main \in Threads
  BY DEF Threads
<1>1. CASE PushTask(Main)
  BY <1>1, PushTaskAlone
<1>2. CASE Notify(Main)
  <2>1. /\ At(Main, "notify") /\ thread[Main].task = NoTask /\ thread[Main].todo = <<>>
        /\ UNCHANGED <<queue, tasks, list, started>>
    BY <1>2 DEF Notify, AloneMain, work, control
  <2>2. thread'[Main].pc = "user"
    BY <1>0, <1>2, <2>1, NotifyMoves
  <2> QED
    BY <2>1, <2>2, IdleAlone DEF Absent, Busy, At
<1>3. CASE Finish(Main)
  BY <1>3, FinishAlone
<1>4. ASSUME NEW v \in Threads, LookAt(Main, v)
      PROVE  AloneTasks' /\ AloneMain'
  BY <1>4, LookAtAlone
<1>5. CASE Take(Main)
  BY <1>5, TakeAlone
<1>6. ~LoseRace(Main)
  <2>1. ASSUME At(Main, "swap") PROVE StillThere(Main)
    <3>1. /\ thread[Main].victim = Main /\ queue[Main] # <<>>
          /\ queue[Main][1] = thread[Main].task /\ queue[Main] \in Seq(Ranges)
      BY <1>0, <2>1 DEF AloneMain, Core, TypeInv
    <3>2. Head(queue[Main]) = queue[Main][1]
      BY <3>1
    <3> QED
      BY <3>1, <3>2 DEF StillThere
  <2> QED
    BY <2>1 DEF LoseRace
<1>7. ~Share(Main)
  BY DEF AloneMain, Share
<1>8. ~RunSplit(Main)
  <2>1. ASSUME At(Main, "run") PROVE ~IsSplittable(thread[Main].task)
    BY <1>0, <2>1 DEF AloneTasks, Core, ThreadsInv, Fine, HoldsTask, At
  <2> QED
    BY <2>1 DEF RunSplit
<1>9. CASE RunFunction(Main)
  <2>1. /\ At(Main, "run") /\ thread'[Main].pc = "finish"
        /\ thread'[Main].stage = thread[Main].stage /\ thread'[Main].task = thread[Main].task
        /\ UNCHANGED <<queue, tasks, list, started, waitFor>>
    BY <1>0, <1>9, RunFunctionMoves
  <2>2. AloneTasks'
    BY <2>1, TasksStay DEF MainRuns, At
  <2> QED
    BY <2>1, <2>2 DEF AloneMain, Absent, At
<1> QED
  BY <1>1, <1>2, <1>3, <1>4, <1>5, <1>6, <1>7, <1>8, <1>9 DEF TaskStep, RunBody

LEMMA MainsQuitAlone ==
    ASSUME Core, AloneTasks, AloneMain, UnregisterStep(Main)
    PROVE  AloneTasks' /\ AloneMain'
<1>1. Main \in Threads
  BY DEF Threads
<1>2. /\ UNCHANGED <<queue, tasks, started>> /\ thread[Main].pc \in Quitting
      /\ \/ At(Main, "unregister") /\ thread'[Main].pc = "quiet"
         \/ At(Main, "quiet") /\ thread'[Main].pc = "erase"
         \/ At(Main, "erase") /\ thread'[Main].pc = "resume"
         \/ At(Main, "resume") /\ thread'[Main].pc = "reap"
      /\ ~At(Main, "erase") => list' = list
  BY <1>1, QuitMoves
<1> QED
  BY <1>2, IdleAlone DEF Absent, Busy, Quitting, At

\* A step of the main thread leaves the workers where they are.
LEMMA MainOnly ==
    ASSUME Core, MainCall \/ MainStep \/ TaskStep(Main) \/ RunBody(Main) \/ UnregisterStep(Main),
           NEW w \in Workers
    PROVE  thread'[w] = thread[w]
<1>1. w # Main /\ w \in Threads /\ Main \in Threads /\ thread = [t \in Threads |-> thread[t]]
  BY ThreadsAssumption DEF Threads, Core, TypeInv
<1>2. ASSUME NEW p, Goto(Main, p) PROVE thread'[w] = thread[w]
  BY <1>1, <1>2 DEF Goto
<1>3. ASSUME NEW s, Seek(Main, s) PROVE thread'[w] = thread[w]
  BY <1>1, <1>3 DEF Seek
<1>4. ASSUME Missed(Main) PROVE thread'[w] = thread[w]
  <2>1. thread[Main].stage \in {"own", "first", "steal", "drain"}
    BY <1>1 DEF Core, TypeInv, ThreadStates
  <2> QED
    BY <1>2, <1>3, <1>4, <2>1 DEF Missed
<1>5. ASSUME AfterTask(Main) PROVE thread'[w] = thread[w]
  BY <1>2, <1>3, <1>5 DEF AfterTask
<1>6. CASE MainCall
  <2>1. ASSUME NEW l \in Loops, StartLoop(l) PROVE thread'[w] = thread[w]
    BY <1>1, <2>1 DEF StartLoop
  <2> QED
    BY <1>2, <1>6, <2>1 DEF MainCall, BeginWait, Pause, Destroy
<1>7. CASE MainStep
  BY <1>2, <1>3, <1>7 DEF MainStep, WaitTurn, WaitDone, Alarm, Reap, Join, Abandon
<1>8. CASE TaskStep(Main)
  <2>1. CASE PushTask(Main)
    BY <1>1, <2>1 DEF PushTask
  <2>2. CASE Notify(Main)
    BY <1>1, <2>2 DEF Notify
  <2>3. CASE Finish(Main)
    BY <1>1, <1>5, <2>3 DEF Finish
  <2>4. ASSUME NEW v \in Threads, LookAt(Main, v) PROVE thread'[w] = thread[w]
    BY <1>1, <1>4, <2>4 DEF LookAt
  <2>5. CASE Take(Main)
    BY <1>1, <2>5 DEF Take
  <2>6. CASE LoseRace(Main)
    BY <1>4, <2>6 DEF LoseRace
  <2>7. CASE Share(Main)
    BY <1>1, <2>7 DEF Share
  <2> QED
    BY <1>8, <2>1, <2>2, <2>3, <2>4, <2>5, <2>6, <2>7 DEF TaskStep
<1>9. CASE RunBody(Main)
  BY <1>1, <1>9 DEF RunBody, RunSplit, RunFunction
<1>10. CASE UnregisterStep(Main)
  BY <1>2, <1>10 DEF UnregisterStep, Unregister, SeeQuiet, GiveUp, Erase, Resume
<1> QED
  BY <1>6, <1>7, <1>8, <1>9, <1>10

-----------------------------------------------------------------------------
(* The theorems.                                                           *)

LEMMA InitIInv == Init => IInv
<1> SUFFICES ASSUME Init PROVE IInv
  OBVIOUS
<1>1. /\ Main \in Threads /\ {"user", "start"} \subseteq Steps /\ <<>> \in Seq(Ranges)
      /\ <<Main>> \in Seq(Threads)
  BY DEF Threads, Steps
<1>2. /\ thread \in [Threads -> ThreadStates]
      /\ \A t \in Threads : /\ thread[t].pc = IF t = Main THEN "user" ELSE "start"
                            /\ thread[t].stage = "own" /\ thread[t].task = NoTask
  <2>1. \A t \in Threads : thread[t] = Resting(IF t = Main THEN "user" ELSE "start")
    BY DEF Init
  <2>2. \A t \in Threads : thread[t] \in ThreadStates
    BY <1>1, <2>1, RestingIsState
  <2>3. thread \in [Threads -> ThreadStates]
    BY <2>2 DEF Init
  <2> QED
    BY <2>1, <2>3 DEF Resting
<1>3. TypeInv
  <2>1. DOMAIN tasks = {} /\ tasks = [r \in DOMAIN tasks |-> tasks[r]]
    BY DEF Init
  <2>2. queue \in [Threads -> Seq(Ranges)] /\ \A t \in Threads : DOMAIN queue[t] = {}
    BY <1>1 DEF Init
  <2>3. tasks = [r \in DOMAIN tasks |-> tasks[r]] /\ DOMAIN tasks \subseteq Ranges
        /\ \A r \in DOMAIN tasks : tasks[r] \in [jobs : Int, parent : DOMAIN tasks \cup {NoTask}]
    BY <2>1
  <2>4. \A t \in Threads : \A i \in DOMAIN queue[t] : queue[t][i] \in DOMAIN tasks
    BY <2>2
  <2>5. list \in Seq(Threads) /\ active \in Int /\ shouldStop \in BOOLEAN /\ gaveUp \in BOOLEAN
        /\ started \subseteq Loops
    <3>1. list = <<Main>> /\ active = 0 /\ ~shouldStop /\ ~gaveUp /\ started = {}
          /\ shouldStop \in BOOLEAN /\ gaveUp \in BOOLEAN
      BY DEF Init
    <3> QED
      BY <1>1, <3>1
  <2> QED
    BY <1>2, <2>2, <2>3, <2>4, <2>5 DEF TypeInv
<1>4. ThreadsInv
  <2>1. Registered(Main)
    BY DEF Init, Registered
  <2> QED
    BY <1>2, <2>1 DEF Init, ThreadsInv, Fine, StepsOf, Busy, Quitting, HoldsTask, Leaving,
                      Draining, Absent, At
<1>5. CountInv
  <2>1. Counting = {}
    BY <1>2, ThreadsAssumption DEF Counting, Counted, Busy, Threads
  <2> QED
    BY <2>1, FS_EmptySet DEF CountInv, Init
<1>6. CalmInv
  BY <1>2 DEF CalmInv, Past
<1>7. AloneTasks
  <2>1. DOMAIN tasks = {} /\ DOMAIN queue[Main] = {} /\ started = {} /\ ~MainRuns
    BY <1>1, <1>2 DEF Init, MainRuns
  <2> QED
    BY <2>1 DEF AloneTasks
<1>8. AloneMain
  BY <1>1, <1>2 DEF AloneMain, Init, At
<1> QED
  BY <1>3, <1>4, <1>5, <1>6, <1>7, <1>8 DEF IInv, AloneInv

LEMMA NextIInv == IInv /\ [Next]_vars => IInv'
<1> SUFFICES ASSUME IInv, [Next]_vars PROVE IInv'
  OBVIOUS
<1>1. Core /\ IInv' = (Core' /\ AloneInv')
  BY DEF IInv, Core
<1>2. ASSUME NEW w \in Workers, TaskStep(w) \/ RunBody(w) \/ UnregisterStep(w) \/ WorkerStep(w)
      PROVE  Core' /\ AloneInv'
  <2>1. w \in Threads
    BY DEF Threads
  <2>2. CASE TaskStep(w) \/ RunBody(w)
    BY <1>1, <2>1, <2>2, TasksKeep, RegisteredEndsAlone
  <2>3. CASE UnregisterStep(w)
    BY <1>1, <2>1, <2>3, UnregisterKeeps, RegisteredEndsAlone
  <2>4. CASE WorkerStep(w)
    BY <1>1, <2>4, WorkersStep
  <2> QED
    BY <1>2, <2>2, <2>3, <2>4
<1>3. ASSUME MainCall \/ MainStep \/ TaskStep(Main) \/ RunBody(Main) \/ UnregisterStep(Main)
      PROVE  Core' /\ AloneInv'
  <2>1. Main \in Threads
    BY DEF Threads
  <2>2. Core'
    BY <1>1, <1>3, <2>1, MainsStepKeeps, TasksKeep, UnregisterKeeps
  <2>3. ASSUME Alone' PROVE Alone
    BY <1>1, <1>3, <2>3, MainOnly DEF Alone, At
  <2>4. ASSUME AloneTasks, AloneMain PROVE AloneTasks' /\ AloneMain'
    BY <1>1, <1>3, <2>4, MainsStepAlone, MainsTaskAlone, MainsQuitAlone
  <2> QED
    BY <2>2, <2>3, <2>4 DEF IInv, AloneInv
<1>4. CASE UNCHANGED vars
  <2>1. Core'
    BY <1>1, <1>4, SameThreadsKeep DEF vars, work, control
  <2>2. AloneInv'
    BY <1>4 DEF IInv, AloneInv, Alone, AloneTasks, AloneMain, MainRuns, Absent, At,
                vars, work, control
  <2> QED
    BY <1>1, <2>1, <2>2
<1> QED
  BY <1>1, <1>2, <1>3, <1>4 DEF Next, Ended, Threads

\* What each thread, the count of active workers, the flag to stop and the list
\* of workers say of each other, for any workers, loops and pauses.
THEOREM SchedulerInvariant == Spec => []IInv
  BY InitIInv, NextIInv, PTL DEF Spec

\* VictimsAreThere: whoever reads the list or pops another thread's queue (the
\* loops of ExecuteOneTask and TryToSteal) does so while that thread is there.
THEOREM ThievesFindVictims == Spec => []VictimsAreThere
<1>1. ASSUME IInv, ~gaveUp, NEW t \in Threads
      PROVE  /\ At(t, "look") /\ thread[t].stage \in {"first", "steal"} =>
                    \A u \in Threads \ {t} : ~At(u, "erase")
             /\ At(t, "look") /\ thread[t].stage = "steal" => Others(t) # {}
             /\ thread[t].pc \in {"swap", "share"} => Registered(thread[t].victim)
  <2>1. Fine(t) /\ Fine(Main) /\ Main \in Threads /\ list \in Seq(Threads)
    BY <1>1 DEF IInv, TypeInv, ThreadsInv, Threads
  <2>2. ASSUME At(t, "look"), thread[t].stage \in {"first", "steal"}, NEW u \in Threads, Past(u)
        PROVE  FALSE
    <3>1. shouldStop
      BY <1>1, <2>2 DEF IInv, ThreadsInv, Fine, Leaving, Past, Quitting
    <3>2. CASE t = Main
      BY <2>1, <2>2, <3>1, <3>2 DEF Fine, Leaving, Draining, Quitting, At
    <3>3. CASE t \in Workers
      BY <1>1, <2>2, <3>3 DEF IInv, CalmInv, Counted, Busy, At
    <3> QED
      BY <3>2, <3>3 DEF Threads
  <2>3. ASSUME At(t, "look"), thread[t].stage = "steal"
        PROVE  Others(t) # {}
    <3>1. CASE t # Main
      <4>1. Registered(Main)
        BY <2>1, <2>2, <2>3 DEF Fine, Absent, Past, At, StepsOf, Busy, Quitting
      <4> QED
        BY <3>1, <4>1 DEF Registered, Others
    <3>2. CASE t = Main
      <4>1. ~Alone
        BY <1>1, <2>3, <3>2 DEF IInv, AloneInv, AloneMain
      <4>2. PICK w \in Workers : ~At(w, "start")
        BY <4>1 DEF Alone
      <4>3. w \in Threads /\ w # Main /\ Fine(w) /\ ~Past(w)
        BY <1>1, <2>2, <2>3, <4>2, ThreadsAssumption DEF Threads, IInv, ThreadsInv
      <4>4. Registered(w)
        BY <4>2, <4>3 DEF Fine, Absent, Past, At
      <4> QED
        BY <3>2, <4>3, <4>4 DEF Registered, Others
    <3> QED
      BY <3>1, <3>2
  <2> QED
    BY <1>1, <2>1, <2>2, <2>3 DEF Fine, Past, At
<1>2. IInv => VictimsAreThere
  BY <1>1 DEF VictimsAreThere
<1> QED
  BY <1>2, SchedulerInvariant, PTL

-----------------------------------------------------------------------------
(* The jobs of tasks, the pieces of loops: the inductive invariant, on     *)
(* top of Core.                                                            *)

\* Where a range may be: in a slot of a queue, among the tasks that a body has
\* still to add, in the hands of a thread that runs it, or split by a body that
\* has not returned.
Places == {"queue", "todo", "hand", "split"} \X Threads \X Nat
Filled(p) ==
    \/ p[1] = "queue" /\ p[3] \in 1..Len(queue[p[2]])
    \/ p[1] = "todo" /\ p[3] \in 1..Len(thread[p[2]].todo)
    \/ p[1] = "hand" /\ p[3] = 0 /\ thread[p[2]].pc \in {"share", "run"}
    \/ /\ p[1] = "split" /\ p[3] = 0 /\ thread[p[2]].pc \in {"push", "notify"}
       /\ thread[p[2]].task # NoTask
Piece(p) ==
    IF p[1] = "queue" THEN queue[p[2]][p[3]]
    ELSE IF p[1] = "todo" THEN thread[p[2]].todo[p[3]]
    ELSE thread[p[2]].task

Within(r, s) == r.loop = s.loop /\ s.first <= r.first /\ r.last <= s.last
Apart(r, s) == r.loop = s.loop => r.last <= s.first \/ s.last <= r.first

\* A piece lies in a loop that was started; until it is added there is no task
\* for it, and until it is split there is none for a part of it.
Placed(p) ==
    LET r == Piece(p)
    IN  /\ r.loop \in started
        /\ r.first <= r.last /\ r.last <= LoopSize[r.loop]
        /\ r.first = r.last => LoopSize[r.loop] = 0
        /\ p[1] = "todo" => r \notin DOMAIN tasks
        /\ p[1] # "split" => \A s \in DOMAIN tasks : Within(s, r) => s = r
PlacesInv == \A p \in Places : Filled(p) => Placed(p)

\* No range is at two places, and what is not split does not overlap.
ApartInv ==
    \A p \in Places, q \in Places : Filled(p) /\ Filled(q) /\ p # q =>
        /\ Piece(p) # Piece(q)
        /\ p[1] # "split" /\ q[1] # "split" => Apart(Piece(p), Piece(q))

\* What a body has still to add are parts of its task, or the task of a loop
\* that has none yet.
Adding(t) ==
    /\ thread[t].pc \in {"push", "notify"}
    /\ \/ /\ thread[t].task = NoTask
          /\ Len(thread[t].todo) = 1
          /\ \A s \in DOMAIN tasks : s.loop # thread[t].todo[1].loop
       \/ /\ thread[t].task \in DOMAIN tasks
          /\ \A i \in 1..Len(thread[t].todo) :
                /\ Within(thread[t].todo[i], thread[t].task)
                /\ SizeOf(thread[t].todo[i]) < SizeOf(thread[t].task)
AddingInv == \A t \in Threads : thread[t].todo # <<>> => Adding(t)

\* The tasks of a loop are a tree of ranges that become smaller.
TasksInv ==
    /\ IsFiniteSet(DOMAIN tasks)
    /\ \A r \in DOMAIN tasks :
          /\ r.loop \in started
          /\ r.first <= r.last /\ r.last <= LoopSize[r.loop]
          /\ tasks[r].parent # NoTask =>
                tasks[r].parent.loop = r.loop /\ SizeOf(r) < SizeOf(tasks[r].parent)
    /\ \A r \in DOMAIN tasks, s \in DOMAIN tasks :
          r.loop = s.loop /\ tasks[r].parent = NoTask /\ tasks[s].parent = NoTask => r = s

\* An index has been run exactly if no piece still holds it.
Open(l, i) == l \notin started \/ \E r \in Pieces(l) : i \in Indices(r)
RunsInv ==
    runs = [l \in Loops |-> [i \in 0..(LoopSize[l] - 1) |-> IF Open(l, i) THEN 0 ELSE 1]]

\* Who is about to move the head of a queue knows whose it is.
VictimInv == \A t \in Threads : At(t, "swap") => thread[t].victim \in Threads

JobsInv ==
    /\ PlacesInv /\ ApartInv /\ AddingInv /\ TasksInv /\ RunsInv
    /\ VictimInv /\ JobsCountUnfinished

-----------------------------------------------------------------------------
(* Places.                                                                 *)

LEMMA KindsOfPlaces ==
    \A t \in Threads, i \in Nat :
        /\ <<"queue", t, i>> \in Places
        /\ Filled(<<"queue", t, i>>) <=> i \in 1..Len(queue[t])
        /\ Piece(<<"queue", t, i>>) = queue[t][i]
        /\ <<"todo", t, i>> \in Places
        /\ Filled(<<"todo", t, i>>) <=> i \in 1..Len(thread[t].todo)
        /\ Piece(<<"todo", t, i>>) = thread[t].todo[i]
        /\ <<"hand", t, 0>> \in Places
        /\ Filled(<<"hand", t, 0>>) <=> thread[t].pc \in {"share", "run"}
        /\ Piece(<<"hand", t, 0>>) = thread[t].task
        /\ <<"split", t, 0>> \in Places
        /\ Filled(<<"split", t, 0>>) <=>
               thread[t].pc \in {"push", "notify"} /\ thread[t].task # NoTask
        /\ Piece(<<"split", t, 0>>) = thread[t].task
  BY DEF Places, Filled, Piece

LEMMA PlaceIs ==
    ASSUME NEW p \in Places
    PROVE  /\ p[1] \in {"queue", "todo", "hand", "split"} /\ p[2] \in Threads /\ p[3] \in Nat
           /\ p = <<p[1], p[2], p[3]>>
  BY DEF Places

LEMMA PieceIsRange ==
    ASSUME Core, NEW p \in Places, Filled(p)
    PROVE  Piece(p) \in Ranges /\ (p[1] # "todo" => Piece(p) \in DOMAIN tasks)
<1>1. /\ p[2] \in Threads /\ p[3] \in Nat /\ p[1] \in {"queue", "todo", "hand", "split"}
      /\ queue[p[2]] \in Seq(Ranges) /\ thread[p[2]].todo \in Seq(Ranges)
      /\ \A i \in DOMAIN queue[p[2]] : queue[p[2]][i] \in DOMAIN tasks
      /\ DOMAIN tasks \subseteq Ranges /\ HoldsTask(p[2])
  BY PlaceIs DEF Core, TypeInv, ThreadStates, ThreadsInv, Fine
<1>2. CASE p[1] = "queue"
  BY <1>1, <1>2 DEF Filled, Piece
<1>3. CASE p[1] = "todo"
  BY <1>1, <1>3 DEF Filled, Piece
<1>4. CASE p[1] \in {"hand", "split"}
  BY <1>1, <1>4 DEF Filled, Piece, HoldsTask
<1> QED
  BY <1>1, <1>2, <1>3, <1>4

\* Where a piece of a loop lies, and where a task that has not been run.
Lies(r) == \E p \in Places : Filled(p) /\ p[1] # "split" /\ Piece(p) = r
Alive(r) == \E t \in Threads : r \in Range(queue[t]) \cup Held(t)

LEMMA PiecesLie ==
    ASSUME Core, NEW l \in Loops, NEW r
    PROVE  r \in Pieces(l) <=> Lies(r) /\ r.loop = l
<1>1. ASSUME NEW t \in Threads
      PROVE  /\ queue[t] \in Seq(Ranges) /\ thread[t].todo \in Seq(Ranges)
             /\ DOMAIN queue[t] = 1..Len(queue[t])
             /\ DOMAIN thread[t].todo = 1..Len(thread[t].todo)
             /\ 1..Len(queue[t]) \subseteq Nat /\ 1..Len(thread[t].todo) \subseteq Nat
  <2>1. queue[t] \in Seq(Ranges) /\ thread[t].todo \in Seq(Ranges)
    BY DEF Core, TypeInv, ThreadStates
  <2> QED
    BY <2>1
<1> DEFINE Has(t) == Range(queue[t]) \cup Range(thread[t].todo)
                        \cup (IF thread[t].pc \in {"share", "run"} THEN {thread[t].task} ELSE {})
<1>2. Lies(r) <=> \E t \in Threads : r \in Has(t)
  <2>1. ASSUME NEW t \in Threads, r \in Has(t) PROVE Lies(r)
    <3>1. CASE r \in Range(queue[t])
      <4>1. PICK i \in 1..Len(queue[t]) : queue[t][i] = r
        BY <1>1, <3>1 DEF Range
      <4>2. i \in Nat /\ <<"queue", t, i>>[1] # "split"
        BY <1>1
      <4>3. /\ Filled(<<"queue", t, i>>) /\ Piece(<<"queue", t, i>>) = r
            /\ <<"queue", t, i>> \in Places
        BY <4>1, <4>2, KindsOfPlaces
      <4> QED
        BY <4>2, <4>3 DEF Lies
    <3>2. CASE r \in Range(thread[t].todo)
      <4>1. PICK i \in 1..Len(thread[t].todo) : thread[t].todo[i] = r
        BY <1>1, <3>2 DEF Range
      <4>2. i \in Nat /\ <<"todo", t, i>>[1] # "split"
        BY <1>1
      <4>3. Filled(<<"todo", t, i>>) /\ Piece(<<"todo", t, i>>) = r /\ <<"todo", t, i>> \in Places
        BY <4>1, <4>2, KindsOfPlaces
      <4> QED
        BY <4>2, <4>3 DEF Lies
    <3>3. CASE thread[t].pc \in {"share", "run"} /\ r = thread[t].task
      BY <3>3, KindsOfPlaces DEF Lies
    <3> QED
      BY <2>1, <3>1, <3>2, <3>3
  <2>2. ASSUME NEW p \in Places, Filled(p), p[1] # "split", Piece(p) = r
        PROVE  r \in Has(p[2])
    <3>1. p[2] \in Threads /\ p[1] \in {"queue", "todo", "hand"}
      BY <2>2, PlaceIs
    <3> QED
      BY <1>1, <2>2, <3>1 DEF Filled, Piece, Range
  <2> QED
    BY <2>1, <2>2, PlaceIs DEF Lies
<1> QED
  BY <1>2 DEF Pieces

LEMMA AliveIsPlaced ==
    ASSUME Core, NEW r \in Ranges
    PROVE  Alive(r) <=> \E p \in Places : Filled(p) /\ p[1] # "todo" /\ Piece(p) = r
<1>1. ASSUME NEW t \in Threads
      PROVE  DOMAIN queue[t] = 1..Len(queue[t]) /\ 1..Len(queue[t]) \subseteq Nat
  <2>1. queue[t] \in Seq(Ranges)
    BY DEF Core, TypeInv
  <2> QED
    BY <2>1
<1>2. ASSUME NEW t \in Threads, r \in Range(queue[t]) \cup Held(t)
      PROVE  \E p \in Places : Filled(p) /\ p[1] # "todo" /\ Piece(p) = r
  <2>1. CASE r \in Range(queue[t])
    <3>1. PICK i \in 1..Len(queue[t]) : queue[t][i] = r
      BY <1>1, <2>1 DEF Range
    <3> QED
      BY <1>1, <3>1, KindsOfPlaces
  <2>2. CASE r \in Held(t)
    <3>1. r # NoTask /\ r = thread[t].task /\ thread[t].pc \in {"share", "run", "push", "notify"}
      BY <2>2, NoTaskAssumption DEF Held
    <3>2. CASE thread[t].pc \in {"share", "run"}
      BY <3>1, <3>2, KindsOfPlaces
    <3>3. CASE thread[t].pc \in {"push", "notify"}
      BY <3>1, <3>3, KindsOfPlaces
    <3> QED
      BY <3>1, <3>2, <3>3
  <2> QED
    BY <1>2, <2>1, <2>2
<1>3. ASSUME NEW p \in Places, Filled(p), p[1] # "todo", Piece(p) = r
      PROVE  p[2] \in Threads /\ r \in Range(queue[p[2]]) \cup Held(p[2])
  BY <1>1, <1>3, PlaceIs DEF Filled, Piece, Range, Held
<1> QED
  BY <1>2, <1>3 DEF Alive

Children(r) == {c \in DOMAIN tasks : tasks[c].parent = r /\ tasks[c].jobs > 0}
Finishing(r) == {t \in Threads : At(t, "finish") /\ thread[t].task = r}

LEMMA JobsAre ==
    JobsCountUnfinished <=>
        \A r \in DOMAIN tasks :
            tasks[r].jobs = (IF Alive(r) THEN 1 ELSE 0)
                            + Cardinality(Children(r)) + Cardinality(Finishing(r))
  BY DEF JobsCountUnfinished, Alive, Children, Finishing

-----------------------------------------------------------------------------
(* What a step leaves alone.                                               *)

\* No place is filled anew.
FewerPlaces == \A p \in Places : Filled(p)' => Filled(p) /\ Piece(p)' = Piece(p)

LEMMA FewerKeep ==
    ASSUME PlacesInv, ApartInv, FewerPlaces, DOMAIN tasks' = DOMAIN tasks, started' = started
    PROVE  PlacesInv' /\ ApartInv'
<1>1. ASSUME NEW p \in Places, Filled(p)' PROVE Placed(p)'
  <2>1. Filled(p) /\ Piece(p)' = Piece(p) /\ Placed(p)
    BY <1>1 DEF FewerPlaces, PlacesInv
  <2> QED
    BY <2>1 DEF Placed
<1>2. PlacesInv'
  BY <1>1 DEF PlacesInv
<1>3. ApartInv'
  BY DEF ApartInv, FewerPlaces
<1> QED
  BY <1>2, <1>3

\* The three views of places, of a state and of the next one.
RangesAre ==
    \A p \in Places : Filled(p) =>
        Piece(p) \in Ranges /\ (p[1] # "todo" => Piece(p) \in DOMAIN tasks)
PiecesAre == \A l \in Loops : \A r : r \in Pieces(l) <=> Lies(r) /\ r.loop = l
AliveAre ==
    \A r \in Ranges : Alive(r) <=> \E p \in Places : Filled(p) /\ p[1] # "todo" /\ Piece(p) = r
Views == RangesAre /\ PiecesAre /\ AliveAre

LEMMA CoreViews == Core => Views
  BY PieceIsRange, PiecesLie, AliveIsPlaced DEF Views, RangesAre, PiecesAre, AliveAre

LEMMA CoreViewsNext == Core' => Views'
  BY CoreViews, PTL

LEMMA SamePieces ==
    ASSUME Core, Core', \A r : Lies(r)' <=> Lies(r), NEW l \in Loops
    PROVE  Pieces(l)' = Pieces(l)
<1>1. \A r : r \in Pieces(l) <=> Lies(r) /\ r.loop = l
  BY CoreViews DEF Views, PiecesAre
<1>2. \A r : r \in Pieces(l)' <=> Lies(r)' /\ r.loop = l
  BY CoreViewsNext DEF Views, PiecesAre
<1> HIDE DEF Lies
<1> QED
  BY <1>1, <1>2 

\* A task is alive as long as its place only moves.

LEMMA AliveStays ==
    ASSUME Core, Core', NEW r \in DOMAIN tasks,
           \A p \in Places : Filled(p)' /\ p[1] # "todo" /\ Piece(p)' = r =>
               \E q \in Places : Filled(q) /\ q[1] # "todo" /\ Piece(q) = r,
           \A p \in Places : Filled(p) /\ p[1] # "todo" /\ Piece(p) = r =>
               \E q \in Places : Filled(q)' /\ q[1] # "todo" /\ Piece(q)' = r
    PROVE  Alive(r)' <=> Alive(r)
<1>1. r \in Ranges
  BY DEF Core, TypeInv
<1>2. Alive(r) <=> \E p \in Places : Filled(p) /\ p[1] # "todo" /\ Piece(p) = r
  BY <1>1, CoreViews DEF Views, AliveAre
<1>3. Alive(r)' <=> \E p \in Places : Filled(p)' /\ p[1] # "todo" /\ Piece(p)' = r
  BY <1>1, CoreViewsNext DEF Views, AliveAre
<1> HIDE DEF Alive, Filled, Piece
<1> QED
  BY <1>2, <1>3

\* What a step does to the pieces of each loop.
LoopsMove == \A l \in Loops : [Loop(l)!LoopNext]_(Loop(l)!loopVars)
LoopsStay == \A l \in Loops : Pieces(l)' = Pieces(l)

LEMMA RunsStay ==
    ASSUME RunsInv, LoopsStay, UNCHANGED <<runs, started>>
    PROVE  RunsInv' /\ LoopsMove
<1>1. \A l \in Loops : \A i : Open(l, i)' <=> Open(l, i)
  BY DEF LoopsStay, Open
<1>2. RunsInv'
  BY <1>1 DEF RunsInv
<1> QED
  BY <1>2 DEF LoopsMove, LoopsStay, Loop!loopVars

LEMMA TasksStayTree ==
    ASSUME TasksInv, DOMAIN tasks' = DOMAIN tasks, started' = started,
           \A r \in DOMAIN tasks : tasks'[r].parent = tasks[r].parent
    PROVE  TasksInv'
  BY DEF TasksInv

LEMMA AddingStays ==
    ASSUME AddingInv, NEW t \in Threads, Moves(t), DOMAIN tasks' = DOMAIN tasks,
           thread'[t].todo # <<>> => Adding(t)'
    PROVE  AddingInv'
<1> SUFFICES ASSUME NEW u \in Threads, u # t, thread'[u].todo # <<>> PROVE Adding(u)'
  BY DEF AddingInv
<1>1. thread'[u] = thread[u] /\ Adding(u)
  BY DEF Moves, AddingInv
<1> QED
  BY <1>1 DEF Adding

LEMMA VictimStays ==
    ASSUME VictimInv, NEW t \in Threads, Moves(t),
           At(t, "swap")' => thread'[t].victim \in Threads
    PROVE  VictimInv'
  BY DEF VictimInv, Moves, At

Holding == {"share", "run", "push", "notify", "finish"}

\* A thread that has no task to run, or only wakes another one.

LEMMA QuietKeeps ==
    ASSUME Core, Core', JobsInv, NEW t \in Threads, Moves(t),
           UNCHANGED <<queue, tasks, runs, started>>,
           thread'[t].todo \in {thread[t].todo, <<>>},
           At(t, "swap")' => thread'[t].victim \in Threads,
           \/ thread[t].pc \notin Holding /\ thread'[t].pc \notin Holding
           \/ /\ thread'[t].task = thread[t].task /\ thread'[t].todo = thread[t].todo
              /\ \/ thread[t].pc = "share" /\ thread'[t].pc = "run"
                 \/ thread[t].pc = "notify" /\ thread'[t].pc = "push"
                 \/ /\ thread[t].pc = "notify" /\ thread'[t].pc = "user"
                    /\ thread[t].task = NoTask /\ thread[t].todo = <<>>
    PROVE  JobsInv' /\ LoopsMove
<1>1. /\ thread'[t].todo = thread[t].todo
      /\ thread[t].pc \notin {"push", "notify"} => thread[t].todo = <<>>
  BY DEF JobsInv, AddingInv, Adding, Holding
<1>2. \A p \in Places : (Filled(p)' <=> Filled(p)) /\ (Filled(p) => Piece(p)' = Piece(p))
  <2> SUFFICES ASSUME NEW p \in Places
               PROVE  (Filled(p)' <=> Filled(p)) /\ (Filled(p) => Piece(p)' = Piece(p))
    OBVIOUS
  <2>1. p[1] \in {"queue", "todo", "hand", "split"} /\ p[2] \in Threads
    BY PlaceIs
  <2>2. CASE p[2] # t
    BY <2>1, <2>2 DEF Filled, Piece, Moves
  <2>3. CASE p[2] = t
    BY <1>1, <2>1, <2>3 DEF Filled, Piece, Holding
  <2> QED
    BY <2>2, <2>3
<1>3. PlacesInv' /\ ApartInv'
  BY <1>2, FewerKeep DEF JobsInv, FewerPlaces
<1>4. \A r : Lies(r)' <=> Lies(r)
  BY <1>2 DEF Lies
<1>5. RunsInv' /\ LoopsMove
  BY <1>4, SamePieces, RunsStay DEF JobsInv, LoopsStay
<1>6. AddingInv' /\ TasksInv'
  <2>1. thread'[t].todo # <<>> => Adding(t)'
    BY <1>1 DEF JobsInv, AddingInv, Adding, Holding
  <2> QED
    BY <2>1, AddingStays, TasksStayTree DEF JobsInv
<1>7. JobsCountUnfinished'
  <2>1. \A r \in DOMAIN tasks : Alive(r)' <=> Alive(r)
    BY <1>2, AliveStays
  <2>2. \A r : Children(r)' = Children(r) /\ Finishing(r)' = Finishing(r)
    BY DEF Children, Finishing, Moves, Holding, At
  <2>3. JobsCountUnfinished' <=>
          \A r \in DOMAIN tasks' :
            tasks'[r].jobs = (IF Alive(r)' THEN 1 ELSE 0)
                            + Cardinality(Children(r)') + Cardinality(Finishing(r)')
    BY DEF JobsCountUnfinished, Alive, Children, Finishing
  <2> QED
    BY <2>1, <2>2, <2>3, JobsAre DEF JobsInv
<1> QED
  BY <1>3, <1>5, <1>6, <1>7, VictimStays DEF JobsInv

LEMMA FinishingIsFinite == \A r : IsFiniteSet(Finishing(r))
<1>1. IsFiniteSet(Threads)
  BY ThreadsAssumption, FS_AddElement DEF Threads
<1> QED
  BY <1>1, FS_Subset DEF Finishing

LEMMA JobsAreNext ==
    JobsCountUnfinished' <=>
        \A r \in DOMAIN tasks' :
            tasks'[r].jobs = (IF Alive(r)' THEN 1 ELSE 0)
                            + Cardinality(Children(r)') + Cardinality(Finishing(r)')
  BY DEF JobsCountUnfinished, Alive, Children, Finishing

-----------------------------------------------------------------------------
(* A body returns: the function was run, or the last task was added.       *)

\* The task is no longer anywhere, and somebody is about to take off its job.

LEMMA ReturnCounts ==
    ASSUME Core, Core', JobsInv, NEW t \in Threads, Moves(t), UNCHANGED <<queue, tasks>>,
           thread[t].pc \in {"run", "notify"}, thread[t].task # NoTask, thread[t].todo = <<>>,
           thread'[t].pc = "finish", thread'[t].task = thread[t].task, thread'[t].todo = <<>>
    PROVE  /\ FewerPlaces /\ JobsCountUnfinished'
           /\ \A s : Lies(s)' <=> Lies(s) /\ ~(At(t, "run") /\ s = thread[t].task)
<1> DEFINE me == thread[t].task
<1>0. PICK mine \in Places : /\ mine[1] = (IF At(t, "run") THEN "hand" ELSE "split")
                             /\ mine = <<mine[1], t, 0>>
  <2>1. \A k \in {"hand", "split"} : <<k, t, 0>> \in Places /\ <<k, t, 0>>[1] = k
    BY DEF Places
  <2> QED
    BY <2>1
<1>1. /\ Filled(mine) /\ Piece(mine) = me /\ ~(Filled(mine)')
      /\ mine[1] \in {"hand", "split"} /\ mine[2] = t
  BY <1>0 DEF Filled, Piece, At
<1>2. \A p \in Places : Filled(p)' => Filled(p) /\ Piece(p)' = Piece(p)
  <2> SUFFICES ASSUME NEW p \in Places, Filled(p)'
               PROVE  Filled(p) /\ Piece(p)' = Piece(p)
    OBVIOUS
  <2>1. p[1] \in {"queue", "todo", "hand", "split"} /\ p[2] \in Threads
    BY PlaceIs
  <2>2. CASE p[2] # t
    BY <2>1, <2>2 DEF Filled, Piece, Moves
  <2>3. CASE p[2] = t
    BY <2>1, <2>3 DEF Filled, Piece
  <2> QED
    BY <2>2, <2>3
<1>3. \A p \in Places : Filled(p) /\ p # mine => Filled(p)' /\ Piece(p)' = Piece(p)
  <2> SUFFICES ASSUME NEW p \in Places, Filled(p), p # mine
               PROVE  Filled(p)' /\ Piece(p)' = Piece(p)
    OBVIOUS
  <2>1. p[1] \in {"queue", "todo", "hand", "split"} /\ p[2] \in Threads /\ p = <<p[1], p[2], p[3]>>
    BY PlaceIs
  <2>2. CASE p[2] # t
    BY <2>1, <2>2 DEF Filled, Piece, Moves
  <2>3. CASE p[2] = t
    BY <1>0, <2>1, <2>3 DEF Filled, Piece, At
  <2> QED
    BY <2>2, <2>3
<1>4. me \in DOMAIN tasks /\ DOMAIN tasks \subseteq Ranges
  BY DEF Core, TypeInv, ThreadsInv, Fine, HoldsTask
<1>5. ASSUME NEW r \in Ranges
      PROVE  /\ Alive(r) <=> \E p \in Places : Filled(p) /\ p[1] # "todo" /\ Piece(p) = r
             /\ Alive(r)' <=> \E p \in Places : Filled(p)' /\ p[1] # "todo" /\ Piece(p)' = r
  BY CoreViews, CoreViewsNext DEF Views, AliveAre
<1>6. Alive(me) /\ ~(Alive(me)')
  <2>1. \A p \in Places : Filled(p) /\ Piece(p) = me => p = mine
    BY <1>1 DEF JobsInv, ApartInv
  <2> HIDE DEF Alive, Filled, Piece
  <2>2. Alive(me)
    BY <1>1, <1>4, <1>5
  <2>3. ASSUME NEW p \in Places, Filled(p)', Piece(p)' = me PROVE FALSE
    BY <1>1, <1>2, <2>1, <2>3
  <2> QED
    BY <1>4, <1>5, <2>2, <2>3
<1>7. ASSUME NEW r \in DOMAIN tasks, r # me
      PROVE  Alive(r)' <=> Alive(r)
  <2>1. ASSUME NEW p \in Places, Filled(p), p[1] # "todo", Piece(p) = r
        PROVE  Filled(p)' /\ Piece(p)' = r
    BY <1>1, <1>3, <1>7, <2>1
  <2>2. ASSUME NEW p \in Places, Filled(p)', Piece(p)' = r
        PROVE  Filled(p) /\ Piece(p) = r
    BY <1>2, <2>2
  <2> HIDE DEF Alive, Filled, Piece
  <2> QED
    BY <1>4, <1>5, <2>1, <2>2
<1>8. /\ \A r : r # me => Finishing(r)' = Finishing(r)
      /\ Finishing(me)' = Finishing(me) \cup {t} /\ t \notin Finishing(me)
      /\ \A r : Children(r)' = Children(r)
  BY DEF Children, Finishing, Moves, At
<1>9. Cardinality(Finishing(me)') = Cardinality(Finishing(me)) + 1
  BY <1>8, FinishingIsFinite, FS_AddElement
<1>10. ASSUME NEW r \in DOMAIN tasks
       PROVE  tasks[r].jobs = (IF Alive(r)' THEN 1 ELSE 0)
                            + Cardinality(Children(r)') + Cardinality(Finishing(r)')
  <2>1. tasks[r].jobs = (IF Alive(r) THEN 1 ELSE 0)
                            + Cardinality(Children(r)) + Cardinality(Finishing(r))
    BY JobsAre DEF JobsInv
  <2>2. Cardinality(Finishing(r)) \in Nat /\ tasks[r].jobs \in Int
    BY FinishingIsFinite, FS_CardinalityType DEF Core, TypeInv
  <2>3. CASE r # me
    BY <1>7, <1>8, <2>1, <2>3
  <2>4. CASE r = me
    <3> DEFINE kids == Cardinality(Children(me))
               old == Cardinality(Finishing(me))
    <3>1. kids \in Int
      <4>1. IsFiniteSet(Children(me))
        BY FS_Subset DEF JobsInv, TasksInv, Children
      <4> QED
        BY <4>1, FS_CardinalityType
    <3>2. tasks[r].jobs = 1 + kids + old
      BY <1>6, <2>1, <2>4
    <3>3. /\ Cardinality(Children(r)') = kids /\ Cardinality(Finishing(r)') = old + 1
          /\ ~(Alive(r)')
      BY <1>6, <1>8, <1>9, <2>4
    <3> HIDE DEF kids, old
    <3> QED
      BY <2>2, <2>4, <3>1, <3>2, <3>3 DEF old
  <2> QED
    BY <2>3, <2>4
<1>11. ASSUME NEW s PROVE Lies(s)' <=> Lies(s) /\ ~(At(t, "run") /\ s = me)
  <2>1. \A p \in Places : Filled(p) /\ Piece(p) = me => p = mine
    BY <1>1 DEF JobsInv, ApartInv
  <2>2. mine[1] # "split" <=> At(t, "run")
    BY <1>0
  <2> HIDE DEF Filled, Piece
  <2> QED
    BY <1>1, <1>2, <1>3, <2>1, <2>2 DEF Lies
<1> HIDE DEF me
<1> QED
  BY <1>2, <1>10, <1>11, JobsAreNext DEF FewerPlaces, me

LEMMA RunFunctionCounts ==
    ASSUME Core, Core', JobsInv, NEW t \in Threads, RunFunction(t)
    PROVE  JobsInv' /\ LoopsMove
<1>0. PICK me : me = thread[t].task
  OBVIOUS
<1>1. /\ Moves(t) /\ At(t, "run") /\ thread'[t].pc = "finish" /\ thread'[t].task = me
      /\ UNCHANGED <<queue, tasks, started>> /\ thread'[t].todo = thread[t].todo
      /\ me \in Ranges /\ me \in DOMAIN tasks /\ me # NoTask /\ ~IsSplittable(me)
      /\ runs' = [runs EXCEPT ![me.loop] =
                    [i \in DOMAIN @ |-> IF i \in Indices(me) THEN @[i] + 1 ELSE @[i]]]
  <2>1. /\ Moves(t) /\ At(t, "run") /\ thread'[t].pc = "finish" /\ thread'[t].task = me
        /\ UNCHANGED <<queue, tasks, started>> /\ thread \in [Threads -> ThreadStates]
    BY <1>0, RunFunctionMoves DEF Core, TypeInv
  <2>2. me \in DOMAIN tasks /\ me \in Ranges /\ me # NoTask
    BY <1>0, <2>1, NoTaskAssumption DEF Core, TypeInv, ThreadsInv, Fine, HoldsTask, At
  <2>3. thread'[t].todo = thread[t].todo
    BY <2>1 DEF RunFunction, ThreadStates
  <2> QED
    BY <1>0, <2>1, <2>2, <2>3 DEF RunFunction
<1>2. thread[t].todo = <<>>
  BY <1>1 DEF JobsInv, AddingInv, Adding, At
<1>3. /\ FewerPlaces /\ JobsCountUnfinished'
      /\ \A s : Lies(s)' <=> Lies(s) /\ s # me
  BY <1>0, <1>1, <1>2, ReturnCounts DEF At
<1>4. PlacesInv' /\ ApartInv' /\ AddingInv' /\ TasksInv' /\ VictimInv'
  BY <1>1, <1>2, <1>3, FewerKeep, AddingStays, TasksStayTree, VictimStays DEF JobsInv, At
<1>5. ASSUME NEW l \in Loops
      PROVE  Pieces(l)' = Pieces(l) \ {me} /\ (l # me.loop => Pieces(l)' = Pieces(l))
  <2>1. \A r : r \in Pieces(l) <=> Lies(r) /\ r.loop = l
    BY CoreViews DEF Views, PiecesAre
  <2>2. \A r : r \in Pieces(l)' <=> Lies(r)' /\ r.loop = l
    BY CoreViewsNext DEF Views, PiecesAre
  <2> HIDE DEF Lies
  <2> QED
    BY <1>3, <2>1, <2>2
<1>6. me.loop \in Loops /\ me \in Pieces(me.loop) /\ me.loop \in started
  <2>1. <<"hand", t, 0>> \in Places /\ <<"hand", t, 0>>[1] # "split"
    BY KindsOfPlaces
  <2>2. Filled(<<"hand", t, 0>>) /\ Piece(<<"hand", t, 0>>) = me
    BY <1>0, <1>1, KindsOfPlaces DEF At
  <2>3. Lies(me)
    BY <2>1, <2>2 DEF Lies
  <2>4. me.loop \in Loops /\ me.loop \in started
    BY <1>1 DEF Ranges, JobsInv, TasksInv
  <2> QED
    BY <2>3, <2>4, CoreViews DEF Views, PiecesAre
<1>7. ASSUME NEW s \in Pieces(me.loop)', NEW i \in Indices(me)
      PROVE  i \notin Indices(s)
  <2>1. PICK q \in Places : Filled(q) /\ q[1] # "split" /\ Piece(q) = s
    BY <1>5, <1>6, <1>7, CoreViews DEF Views, PiecesAre, Lies
  <2>2. s \in Ranges /\ s.loop = me.loop /\ s # me
    BY <1>5, <1>6, <1>7, <2>1, CoreViews DEF Views, PiecesAre, RangesAre
  <2>3. Apart(me, s)
    <3>1. PICK p \in Places : Filled(p) /\ p[1] # "split" /\ Piece(p) = me
      BY <1>6, CoreViews DEF Views, PiecesAre, Lies
    <3> QED
      BY <2>1, <2>2, <3>1 DEF JobsInv, ApartInv
  <2> QED
    BY <1>1, <2>2, <2>3 DEF Apart, Indices, Ranges
<1>8. RunsInv'
  <2> DEFINE bit(l, i) == IF Open(l, i) THEN 0 ELSE 1
             bitNext(l, i) == IF Open(l, i)' THEN 0 ELSE 1
  <2>1. runs = [l \in Loops |-> [i \in 0..(LoopSize[l] - 1) |-> bit(l, i)]]
    BY DEF JobsInv, RunsInv
  <2>2. ASSUME NEW l \in Loops, NEW i, l # me.loop \/ i \notin Indices(me)
        PROVE  Open(l, i)' <=> Open(l, i)
    BY <1>1, <1>5, <2>2 DEF Open
  <2>3. ASSUME NEW i \in Indices(me)
        PROVE  Open(me.loop, i) /\ ~(Open(me.loop, i)')
    BY <1>1, <1>6, <1>7, <2>3 DEF Open
  <2>4. ASSUME NEW l \in Loops
        PROVE  runs'[l] = [i \in 0..(LoopSize[l] - 1) |-> bitNext(l, i)]
    <3>1. CASE l # me.loop
      BY <1>1, <2>1, <2>2, <3>1
    <3>2. CASE l = me.loop
      <4>1. runs[l] = [i \in 0..(LoopSize[l] - 1) |-> bit(l, i)]
        BY <2>1
      <4>2. runs'[l] = [i \in 0..(LoopSize[l] - 1) |->
                          IF i \in Indices(me) THEN runs[l][i] + 1 ELSE runs[l][i]]
        BY <1>1, <2>1, <3>2, <4>1
      <4>3. ASSUME NEW i \in 0..(LoopSize[l] - 1)
            PROVE  (IF i \in Indices(me) THEN runs[l][i] + 1 ELSE runs[l][i]) = bitNext(l, i)
        <5>1. runs[l][i] = bit(l, i)
          BY <4>1
        <5>2. CASE i \in Indices(me)
          BY <2>3, <3>2, <5>1, <5>2
        <5>3. CASE i \notin Indices(me)
          BY <2>2, <3>2, <5>1, <5>3
        <5> QED
          BY <5>2, <5>3
      <4> QED
        BY <4>2, <4>3
    <3> QED
      BY <3>1, <3>2
  <2>5. runs' = [l \in Loops |-> runs'[l]]
    BY <1>1, <2>1
  <2> QED
    BY <2>4, <2>5 DEF RunsInv
<1>9. LoopsMove
  <2> SUFFICES ASSUME NEW l \in Loops PROVE [Loop(l)!LoopNext]_(Loop(l)!loopVars)
    BY DEF LoopsMove
  <2>1. CASE l # me.loop
    <3>1. runs'[l] = runs[l]
      BY <1>1, <2>1
    <3> QED
      BY <1>1, <1>5, <2>1, <3>1 DEF Loop!loopVars
  <2>2. CASE l = me.loop
    <3>1. runs[l] = [i \in 0..(LoopSize[l] - 1) |-> runs[l][i]] /\ DOMAIN runs = Loops
      BY <1>6, <2>2 DEF JobsInv, RunsInv
    <3>2. runs'[l] = [i \in 0..(LoopSize[l] - 1) |->
                        IF i \in Indices(me) THEN runs[l][i] + 1 ELSE runs[l][i]]
      BY <1>1, <1>6, <2>2, <3>1
    <3>3. Loop(l)!Run(me)
      BY <1>1, <1>5, <2>2, <3>2
         DEF Loop!Run, Loop!IsSplittable, Loop!SizeOf, Loop!Indices, Loop!LoopIndices,
             IsSplittable, SizeOf, Indices
    <3> QED
      BY <1>6, <2>2, <3>3 DEF Loop!LoopNext
  <2> QED
    BY <2>1, <2>2
<1> QED
  BY <1>3, <1>4, <1>8, <1>9 DEF JobsInv

LEMMA NotifyCounts ==
    ASSUME Core, Core', JobsInv, NEW t \in Threads, Notify(t)
    PROVE  JobsInv' /\ LoopsMove
<1>1. /\ Moves(t) /\ At(t, "notify") /\ UNCHANGED <<queue, tasks, runs, started>>
      /\ thread'[t].pc = (IF thread[t].todo # <<>> THEN "push"
                          ELSE IF thread[t].task = NoTask THEN "user" ELSE "finish")
      /\ thread'[t].task = thread[t].task /\ thread'[t].todo = thread[t].todo
  BY NotifyMoves DEF Notify, work
<1>2. CASE thread[t].todo # <<>> \/ thread[t].task = NoTask
  BY <1>1, <1>2, QuietKeeps DEF At
<1>3. CASE thread[t].todo = <<>> /\ thread[t].task # NoTask
  <2>1. /\ FewerPlaces /\ JobsCountUnfinished'
        /\ \A s : Lies(s)' <=> Lies(s)
    BY <1>1, <1>3, ReturnCounts DEF At
  <2>2. PlacesInv' /\ ApartInv' /\ AddingInv' /\ TasksInv' /\ VictimInv'
    BY <1>1, <1>3, <2>1, FewerKeep, AddingStays, TasksStayTree, VictimStays DEF JobsInv, At
  <2>3. RunsInv' /\ LoopsMove
    BY <1>1, <2>1, SamePieces, RunsStay DEF JobsInv, LoopsStay
  <2> QED
    BY <2>1, <2>2, <2>3 DEF JobsInv
<1> QED
  BY <1>2, <1>3

-----------------------------------------------------------------------------
(* A job is taken off a task, and the last one off its parent.             *)

\* No place is filled anew, and none is cleared.
SamePlaces ==
    \A p \in Places : (Filled(p)' <=> Filled(p)) /\ (Filled(p) => Piece(p)' = Piece(p))

LEMMA SamePlacesKeep ==
    ASSUME Core, Core', JobsInv, SamePlaces, UNCHANGED <<runs, started>>,
           DOMAIN tasks' = DOMAIN tasks
    PROVE  /\ PlacesInv' /\ ApartInv' /\ RunsInv' /\ LoopsMove
           /\ \A r \in DOMAIN tasks : Alive(r)' <=> Alive(r)
<1>1. PlacesInv' /\ ApartInv'
  BY FewerKeep DEF JobsInv, FewerPlaces, SamePlaces
<1>2. \A r : Lies(r)' <=> Lies(r)
  BY DEF Lies, SamePlaces
<1>3. RunsInv' /\ LoopsMove
  BY <1>2, SamePieces, RunsStay DEF JobsInv, LoopsStay
<1>4. ASSUME NEW r \in DOMAIN tasks PROVE Alive(r)' <=> Alive(r)
  BY AliveStays DEF SamePlaces
<1> QED
  BY <1>1, <1>3, <1>4

LEMMA ChildrenAreFinite == TasksInv => \A r : IsFiniteSet(Children(r))
  BY FS_Subset DEF TasksInv, Children

LEMMA FinishCounts ==
    ASSUME Core, Core', JobsInv, NEW t \in Threads, Finish(t)
    PROVE  JobsInv' /\ LoopsMove
<1>0. PICK me : me = thread[t].task
  OBVIOUS
<1>1. PICK left : left = tasks[me].jobs - 1
  OBVIOUS
<1>2. PICK p : p = tasks[me].parent
  OBVIOUS
<1>3. /\ At(t, "finish") /\ me \in DOMAIN tasks /\ UNCHANGED <<queue, runs, started>>
      /\ tasks' = [tasks EXCEPT ![me].jobs = left]
      /\ Moves(t) /\ thread'[t].pc \notin {"share", "run", "push", "notify"}
      /\ ~(At(t, "swap")')
      /\ IF left = 0 /\ p # NoTask
         THEN At(t, "finish")' /\ thread'[t].task = p
         ELSE ~(At(t, "finish")')
  <2>1. At(t, "finish") /\ me \in DOMAIN tasks /\ Moves(t)
    BY <1>0, FinishMoves
  <2>2. tasks' = [tasks EXCEPT ![me].jobs = left] /\ UNCHANGED <<queue, runs, started>>
    BY <1>0, <1>1 DEF Finish
  <2>3. CASE left = 0 /\ p # NoTask
    <3>1. thread' = [thread EXCEPT ![t].task = p]
      BY <1>0, <1>1, <1>2, <2>3 DEF Finish, ClosesTask
    <3>2. thread \in [Threads -> ThreadStates]
      BY DEF Core, TypeInv
    <3>3. thread'[t].task = p /\ thread'[t].pc = thread[t].pc
      BY <3>1, <3>2 DEF ThreadStates
    <3> QED
      BY <2>1, <2>2, <2>3, <3>3 DEF At
  <2>4. CASE ~(left = 0 /\ p # NoTask)
    <3>1. AfterTask(t)
      BY <1>0, <1>1, <1>2, <2>4 DEF Finish, ClosesTask
    <3>2. thread'[t].pc \in {"look", "wait", "top"}
      <4>1. /\ TypeInv /\ {"wait", "top"} \subseteq Steps
            /\ "drain" \in {"own", "first", "steal", "drain"}
        BY DEF Core, Steps
      <4> QED
        BY <3>1, <4>1, SeekMoves, GotoMoves DEF AfterTask
    <3> QED
      BY <2>1, <2>2, <2>4, <3>2 DEF At
  <2> QED
    BY <2>3, <2>4
<1>4. thread[t].todo = <<>> /\ thread'[t].todo = <<>>
  <2>1. thread[t].todo = <<>>
    BY <1>3 DEF JobsInv, AddingInv, Adding, At
  <2>2. thread'[t].todo \in {thread[t].todo, <<>>}
    <3>1. /\ TypeInv /\ {"wait", "top"} \subseteq Steps
          /\ "drain" \in {"own", "first", "steal", "drain"}
          /\ thread \in [Threads -> ThreadStates]
      BY DEF Core, TypeInv, Steps
    <3>2. CASE AfterTask(t)
      BY <3>1, <3>2, SeekMoves, GotoMoves DEF AfterTask
    <3>3. CASE thread' = [thread EXCEPT ![t].task = tasks[thread[t].task].parent]
      BY <3>1, <3>3 DEF ThreadStates
    <3> QED
      BY <3>2, <3>3 DEF Finish
  <2> QED
    BY <2>1, <2>2
<1>5. SamePlaces
  <2> SUFFICES ASSUME NEW q \in Places
               PROVE  (Filled(q)' <=> Filled(q)) /\ (Filled(q) => Piece(q)' = Piece(q))
    BY DEF SamePlaces
  <2>1. q[1] \in {"queue", "todo", "hand", "split"} /\ q[2] \in Threads
    BY PlaceIs
  <2>2. CASE q[2] # t
    BY <1>3, <2>1, <2>2 DEF Filled, Piece, Moves
  <2>3. CASE q[2] = t
    BY <1>3, <1>4, <2>1, <2>3 DEF Filled, Piece, At
  <2> QED
    BY <2>2, <2>3
<1>6. /\ DOMAIN tasks' = DOMAIN tasks
      /\ \A r \in DOMAIN tasks : tasks'[r].parent = tasks[r].parent
      /\ \A r \in DOMAIN tasks : r # me => tasks'[r] = tasks[r]
      /\ tasks'[me].jobs = left /\ tasks[me].jobs = left + 1 /\ left \in Int
      /\ NoTask \notin DOMAIN tasks /\ p \in DOMAIN tasks \cup {NoTask}
  <2>1. /\ tasks \in [DOMAIN tasks -> [jobs : Int, parent : DOMAIN tasks \cup {NoTask}]]
        /\ NoTask \notin DOMAIN tasks
    BY NoTaskAssumption DEF Core, TypeInv
  <2> QED
    BY <1>1, <1>2, <1>3, <2>1
<1>7. /\ PlacesInv' /\ ApartInv' /\ RunsInv' /\ LoopsMove /\ AddingInv' /\ TasksInv' /\ VictimInv'
      /\ \A r \in DOMAIN tasks : Alive(r)' <=> Alive(r)
  BY <1>3, <1>4, <1>5, <1>6, SamePlacesKeep, AddingStays, TasksStayTree, VictimStays
     DEF JobsInv
<1>8. /\ t \in Finishing(me) /\ Finishing(me) \ {t} \subseteq Finishing(me)'
      /\ \A r : r # me => t \notin Finishing(r)
  BY <1>0, <1>3 DEF Finishing, At, Moves
<1>9. p # me
  <2>1. p # NoTask => SizeOf(me) < SizeOf(p) /\ p \in Ranges
    BY <1>2, <1>3, <1>6 DEF JobsInv, TasksInv, Core, TypeInv
  <2>2. \A r \in Ranges : ~(SizeOf(r) < SizeOf(r))
    BY DEF Ranges, SizeOf
  <2> QED
    BY <1>3, <1>6, <2>1, <2>2
<1>10. /\ \A r : IsFiniteSet(Children(r)) /\ IsFiniteSet(Finishing(r))
       /\ \A r : Cardinality(Children(r)) \in Nat /\ Cardinality(Finishing(r)) \in Nat
  BY ChildrenAreFinite, FinishingIsFinite, FS_CardinalityType DEF JobsInv
<1>11. left >= 0
  <2>1. Cardinality(Finishing(me)) # 0
    BY <1>8, <1>10, FS_EmptySet
  <2>2. tasks[me].jobs = (IF Alive(me) THEN 1 ELSE 0)
                            + Cardinality(Children(me)) + Cardinality(Finishing(me))
    BY <1>3, JobsAre DEF JobsInv
  <2>3. \A c \in Nat, f \in Nat : f # 0 => (IF Alive(me) THEN 1 ELSE 0) + c + f >= 1
    OBVIOUS
  <2> QED
    BY <1>6, <1>10, <2>1, <2>2, <2>3
<1>12. Finishing(me)' = Finishing(me) \ {t}
  BY <1>0, <1>3, <1>9 DEF Finishing, At, Moves
<1>13. Cardinality(Finishing(me)') = Cardinality(Finishing(me)) - 1
  BY <1>8, <1>10, <1>12, FS_RemoveElement
<1>14. Children(me)' = Children(me)
  BY <1>2, <1>6, <1>9 DEF Children
<1>15. tasks'[me].jobs = (IF Alive(me)' THEN 1 ELSE 0)
                            + Cardinality(Children(me)') + Cardinality(Finishing(me)')
  <2>1. /\ Cardinality(Finishing(me)') = Cardinality(Finishing(me)) - 1
        /\ Cardinality(Children(me)') = Cardinality(Children(me))
        /\ Cardinality(Children(me)) \in Nat /\ Cardinality(Finishing(me)) \in Nat
        /\ tasks'[me].jobs = left /\ tasks[me].jobs = left + 1
    BY <1>6, <1>10, <1>13, <1>14
  <2> DEFINE one == IF Alive(me) THEN 1 ELSE 0
  <2>2. (IF Alive(me)' THEN 1 ELSE 0) = one /\ one \in Int
    BY <1>3, <1>7
  <2>3. left + 1 = one + Cardinality(Children(me)) + Cardinality(Finishing(me))
    BY <1>3, <2>1, JobsAre DEF JobsInv
  <2> DEFINE kids == Cardinality(Children(me))
             old == Cardinality(Finishing(me))
  <2>4. left \in Int /\ one \in Int /\ kids \in Int /\ old \in Int
    BY <1>6, <2>1, <2>2
  <2> HIDE DEF one, kids, old
  <2>5. left + 1 = one + kids + old
    BY <2>3 DEF kids, old
  <2>6. left = one + kids + (old - 1)
    BY <2>4, <2>5
  <2>7. /\ Cardinality(Children(me)') = kids /\ Cardinality(Finishing(me)') = old - 1
    BY <2>1 DEF kids, old
  <2> QED
    BY <2>1, <2>2, <2>6, <2>7
<1>16. CASE left = 0 /\ p # NoTask
  <2>1. Finishing(p)' = Finishing(p) \cup {t} /\ t \notin Finishing(p)
    BY <1>3, <1>8, <1>9, <1>16 DEF Finishing, At, Moves
  <2>2. Children(p)' = Children(p) \ {me} /\ me \in Children(p)
    BY <1>2, <1>3, <1>6, <1>16 DEF Children
  <2>3. /\ Cardinality(Finishing(p)') = Cardinality(Finishing(p)) + 1
        /\ Cardinality(Children(p)') = Cardinality(Children(p)) - 1
    <3>1. Cardinality(Finishing(p) \cup {t}) = Cardinality(Finishing(p)) + 1
      BY <1>10, <2>1, FS_AddElement
    <3>2. Cardinality(Children(p) \ {me}) = Cardinality(Children(p)) - 1
      BY <1>10, <2>2, FS_RemoveElement
    <3> QED
      BY <2>1, <2>2, <3>1, <3>2
  <2>4. \A r : r # me /\ r # p => Finishing(r)' = Finishing(r) /\ Children(r)' = Children(r)
    BY <1>0, <1>2, <1>3, <1>6 DEF Finishing, Children, At, Moves
  <2>5. ASSUME NEW r \in DOMAIN tasks
        PROVE  tasks'[r].jobs = (IF Alive(r)' THEN 1 ELSE 0)
                            + Cardinality(Children(r)') + Cardinality(Finishing(r)')
    <3>1. tasks[r].jobs = (IF Alive(r) THEN 1 ELSE 0)
                            + Cardinality(Children(r)) + Cardinality(Finishing(r))
      BY JobsAre DEF JobsInv
    <3>2. Alive(r)' <=> Alive(r)
      BY <1>7
    <3>3. CASE r = me
      BY <1>15, <3>3
    <3>4. CASE r = p
      BY <1>6, <1>9, <1>10, <2>3, <3>1, <3>2, <3>4
    <3>5. CASE r # me /\ r # p
      BY <1>6, <2>4, <3>1, <3>2, <3>5
    <3> QED
      BY <3>3, <3>4, <3>5
  <2> QED
    BY <1>6, <1>7, <2>5, JobsAreNext DEF JobsInv
<1>17. CASE ~(left = 0 /\ p # NoTask)
  <2>1. \A r \in DOMAIN tasks : r # me => Finishing(r)' = Finishing(r)
    BY <1>0, <1>3, <1>17 DEF Finishing, At, Moves
  <2>2. \A r \in DOMAIN tasks : r # me => Children(r)' = Children(r)
    BY <1>2, <1>3, <1>6, <1>11, <1>17 DEF Children
  <2>3. ASSUME NEW r \in DOMAIN tasks
        PROVE  tasks'[r].jobs = (IF Alive(r)' THEN 1 ELSE 0)
                            + Cardinality(Children(r)') + Cardinality(Finishing(r)')
    <3>1. tasks[r].jobs = (IF Alive(r) THEN 1 ELSE 0)
                            + Cardinality(Children(r)) + Cardinality(Finishing(r))
      BY JobsAre DEF JobsInv
    <3>2. Alive(r)' <=> Alive(r)
      BY <1>7
    <3>3. CASE r = me
      BY <1>15, <3>3
    <3>4. CASE r # me
      BY <1>6, <2>1, <2>2, <3>1, <3>2, <3>4
    <3> QED
      BY <3>3, <3>4
  <2> QED
    BY <1>6, <1>7, <2>3, JobsAreNext DEF JobsInv
<1> QED
  BY <1>16, <1>17

-----------------------------------------------------------------------------
(* A task is taken out of a queue.                                         *)

\* A step that moves what lies at f[p] to p keeps the pieces apart.

LEMMA ApartMoved ==
    ASSUME ApartInv, NEW f,
           \A p \in Places : Filled(p)' =>
               /\ f[p] \in Places /\ Filled(f[p]) /\ Piece(p)' = Piece(f[p])
               /\ p[1] # "split" => f[p][1] # "split",
           \A p \in Places, q \in Places : Filled(p)' /\ Filled(q)' /\ f[p] = f[q] => p = q
    PROVE  ApartInv'
<1> SUFFICES ASSUME NEW p \in Places, NEW q \in Places, Filled(p)', Filled(q)', p # q
             PROVE  /\ Piece(p)' # Piece(q)'
                    /\ p[1] # "split" /\ q[1] # "split" => Apart(Piece(p)', Piece(q)')
  BY DEF ApartInv, Apart
<1>1. f[p] # f[q]
  OBVIOUS
<1> QED
  BY <1>1 DEF ApartInv

LEMMA PlacesMoved ==
    ASSUME PlacesInv, DOMAIN tasks' = DOMAIN tasks, started' = started, NEW f,
           \A p \in Places : Filled(p)' =>
               /\ f[p] \in Places /\ Filled(f[p]) /\ Piece(p)' = Piece(f[p])
               /\ p[1] = "todo" => f[p][1] = "todo"
               /\ p[1] # "split" => f[p][1] # "split"
    PROVE  PlacesInv'
<1>1. ASSUME NEW p \in Places, Filled(p)' PROVE Placed(p)'
  <2>1. /\ Piece(p)' = Piece(f[p]) /\ Placed(f[p])
        /\ p[1] = "todo" => f[p][1] = "todo"
        /\ p[1] # "split" => f[p][1] # "split"
    BY <1>1 DEF PlacesInv
  <2> QED
    BY <2>1 DEF Placed
<1> QED
  BY <1>1 DEF PlacesInv

LEMMA TakeCounts ==
    ASSUME Core, Core', JobsInv, NEW t \in Threads, Take(t)
    PROVE  JobsInv' /\ LoopsMove
<1>0. PICK v : v = thread[t].victim
  OBVIOUS
<1>1. PICK me : me = thread[t].task
  OBVIOUS
<1> DEFINE q == queue[v]
           hand == <<"hand", t, 0>>
           first == <<"queue", v, 1>>
           next(i) == <<"queue", v, i>>
<1>2. /\ v \in Threads /\ At(t, "swap") /\ Moves(t)
      /\ thread'[t].pc \in {"share", "run"} /\ thread'[t].task = me
      /\ thread[t].todo = <<>> /\ thread'[t].todo = <<>>
      /\ queue' = [queue EXCEPT ![v] = Tail(q)] /\ q # <<>> /\ Head(q) = me
      /\ UNCHANGED <<tasks, started, runs>>
      /\ q \in Seq(Ranges) /\ queue \in [Threads -> Seq(Ranges)]
  <2>1. /\ At(t, "swap") /\ Moves(t) /\ thread'[t].pc \in {"share", "run"} /\ thread'[t].task = me
        /\ queue' = [queue EXCEPT ![v] = Tail(q)] /\ q # <<>>
        /\ UNCHANGED <<tasks, started>>
    BY <1>0, <1>1, TakeMoves
  <2>2. Head(q) = me /\ runs' = runs
    BY <1>0, <1>1 DEF Take, StillThere
  <2>3. v \in Threads
    BY <1>0, <2>1 DEF JobsInv, VictimInv
  <2>4. thread[t].todo = <<>>
    BY <2>1 DEF JobsInv, AddingInv, Adding, At
  <2>5. thread'[t].todo = thread[t].todo
    <3>1. thread \in [Threads -> ThreadStates]
      BY DEF Core, TypeInv
    <3> QED
      BY <3>1 DEF Take, ThreadStates
  <2>6. queue \in [Threads -> Seq(Ranges)]
    BY DEF Core, TypeInv
  <2> QED
    BY <2>1, <2>2, <2>3, <2>4, <2>5, <2>6
<1>3. /\ Len(q) \in Nat \ {0} /\ q[1] = me
      /\ queue'[v] = Tail(q) /\ Len(queue'[v]) = Len(q) - 1
      /\ \A i \in 1..(Len(q) - 1) : queue'[v][i] = q[i + 1]
      /\ \A u \in Threads \ {v} : queue'[u] = queue[u]
  BY <1>2
<1> DEFINE f == [p \in Places |-> IF p = hand THEN first
                                  ELSE IF p[1] = "queue" /\ p[2] = v THEN next(p[3] + 1)
                                  ELSE p]
           g == [p \in Places |-> IF p = first THEN hand
                                  ELSE IF p[1] = "queue" /\ p[2] = v THEN next(p[3] - 1)
                                  ELSE p]
<1>4. /\ hand \in Places /\ first \in Places /\ hand[1] = "hand" /\ first[1] = "queue"
      /\ \A i \in Nat : /\ next(i) \in Places /\ next(i)[1] = "queue"
                        /\ next(i)[2] = v /\ next(i)[3] = i
      /\ Filled(first) /\ Piece(first) = me /\ Filled(hand)' /\ Piece(hand)' = me
  BY <1>1, <1>2, <1>3 DEF Places, Filled, Piece
<1>5. ASSUME NEW p \in Places, Filled(p)'
      PROVE  /\ f[p] \in Places /\ Filled(f[p]) /\ Piece(p)' = Piece(f[p])
             /\ p[1] = "todo" <=> f[p][1] = "todo"
             /\ p[1] # "split" <=> f[p][1] # "split"
  <2>1. /\ p[1] \in {"queue", "todo", "hand", "split"} /\ p[2] \in Threads /\ p[3] \in Nat
        /\ p = <<p[1], p[2], p[3]>>
    BY PlaceIs
  <2>2. CASE p = hand
    BY <1>4, <2>2
  <2>3. CASE p # hand /\ p[1] = "queue" /\ p[2] = v
    <3>1. f[p] = next(p[3] + 1) /\ p[3] + 1 \in Nat
      BY <2>1, <2>3
    <3>2. p[3] \in 1..(Len(q) - 1)
      BY <1>3, <1>5, <2>3 DEF Filled
    <3>3. Filled(next(p[3] + 1)) /\ Piece(next(p[3] + 1)) = q[p[3] + 1]
      BY <1>3, <1>4, <3>2 DEF Filled, Piece
    <3>4. Piece(p)' = q[p[3] + 1]
      BY <1>3, <2>3, <3>2 DEF Piece
    <3> QED
      BY <1>4, <2>3, <3>1, <3>3, <3>4
  <2>4. CASE p # hand /\ ~(p[1] = "queue" /\ p[2] = v)
    <3>1. f[p] = p
      BY <2>4
    <3>2. Filled(p) /\ Piece(p)' = Piece(p)
      <4>1. CASE p[1] = "queue"
        BY <1>3, <1>5, <2>1, <2>4, <4>1 DEF Filled, Piece
      <4>2. CASE p[1] # "queue" /\ p[2] # t
        BY <1>2, <1>5, <2>1, <4>2 DEF Filled, Piece, Moves
      <4>3. CASE p[1] # "queue" /\ p[2] = t
        BY <1>2, <1>5, <2>1, <2>4, <4>3 DEF Filled, Piece
      <4> QED
        BY <4>1, <4>2, <4>3
    <3> QED
      BY <3>1, <3>2
  <2> QED
    BY <2>2, <2>3, <2>4
<1>6. ASSUME NEW p \in Places, Filled(p)
      PROVE  /\ g[p] \in Places /\ Filled(g[p])' /\ Piece(g[p])' = Piece(p)
             /\ p[1] = "todo" <=> g[p][1] = "todo"
             /\ p[1] # "split" <=> g[p][1] # "split"
  <2>1. /\ p[1] \in {"queue", "todo", "hand", "split"} /\ p[2] \in Threads /\ p[3] \in Nat
        /\ p = <<p[1], p[2], p[3]>>
    BY PlaceIs
  <2>2. CASE p = first
    BY <1>4, <2>2
  <2>3. CASE p # first /\ p[1] = "queue" /\ p[2] = v
    <3>1. p[3] \in 1..Len(q) /\ p[3] # 1
      BY <1>6, <2>1, <2>3 DEF Filled
    <3>2. g[p] = next(p[3] - 1) /\ p[3] - 1 \in Nat /\ p[3] - 1 \in 1..(Len(q) - 1)
      BY <1>3, <2>1, <2>3, <3>1
    <3>3. Filled(next(p[3] - 1))' /\ Piece(next(p[3] - 1))' = q[(p[3] - 1) + 1]
      BY <1>3, <1>4, <3>2 DEF Filled, Piece
    <3>4. (p[3] - 1) + 1 = p[3] /\ Piece(p) = q[p[3]]
      BY <2>1, <2>3 DEF Piece
    <3> QED
      BY <1>4, <2>3, <3>2, <3>3, <3>4
  <2>4. CASE p # first /\ ~(p[1] = "queue" /\ p[2] = v)
    <3>1. g[p] = p
      BY <2>4
    <3>2. Filled(p)' /\ Piece(p)' = Piece(p)
      <4>1. CASE p[1] = "queue"
        BY <1>3, <1>6, <2>1, <2>4, <4>1 DEF Filled, Piece
      <4>2. CASE p[1] # "queue" /\ p[2] # t
        BY <1>2, <1>6, <2>1, <4>2 DEF Filled, Piece, Moves
      <4>3. CASE p[1] # "queue" /\ p[2] = t
        BY <1>2, <1>6, <2>1, <2>4, <4>3 DEF Filled, Piece, At
      <4> QED
        BY <4>1, <4>2, <4>3
    <3> QED
      BY <3>1, <3>2
  <2> QED
    BY <2>2, <2>3, <2>4
<1>7. ASSUME NEW p \in Places, NEW r \in Places, Filled(p)', Filled(r)', f[p] = f[r]
      PROVE  p = r
  <2>1. /\ p[1] \in {"queue", "todo", "hand", "split"} /\ p[3] \in Nat /\ p = <<p[1], p[2], p[3]>>
        /\ r[1] \in {"queue", "todo", "hand", "split"} /\ r[3] \in Nat /\ r = <<r[1], r[2], r[3]>>
        /\ p[1] = "queue" => p[3] > 0
        /\ r[1] = "queue" => r[3] > 0
    BY <1>7, PlaceIs DEF Filled
  <2> DEFINE In(s) == s[1] = "queue" /\ s[2] = v
  <2>2. ASSUME NEW s \in Places, s # hand, In(s) PROVE f[s] = next(s[3] + 1)
    BY <2>2
  <2>3. ASSUME NEW s \in Places, s # hand, ~In(s) PROVE f[s] = s
    BY <2>3
  <2>4. f[hand] = first /\ ~In(hand) /\ In(first) /\ first[3] = 1
    BY <1>4
  <2>5. \A i \in Nat : In(next(i)) /\ next(i)[3] = i
    BY <1>4
  <2>6. ASSUME NEW s \in Places, NEW u \in Places, Filled(s)', In(s), ~In(u)
        PROVE  f[s] # f[u]
    <3>1. s # hand /\ s[3] \in Nat /\ s[3] > 0
      BY <2>4, <2>6, PlaceIs DEF Filled
    <3>2. f[s] = next(s[3] + 1) /\ next(s[3] + 1)[3] = s[3] + 1 /\ In(next(s[3] + 1))
      BY <2>2, <2>5, <2>6, <3>1
    <3>3. next(s[3] + 1)[3] # first[3]
      BY <2>4, <3>1, <3>2
    <3> HIDE DEF f, hand, first, next, In
    <3>4. f[u] = first \/ f[u] = u
      BY <2>3, <2>4, <2>6
    <3> QED
      BY <2>6, <3>2, <3>3, <3>4
  <2>7. CASE In(p) /\ In(r)
    <3>1. p[3] + 1 = r[3] + 1
      <4>1. f[p] = next(p[3] + 1) /\ f[r] = next(r[3] + 1)
        BY <2>2, <2>4, <2>7
      <4>2. next(p[3] + 1)[3] = p[3] + 1 /\ next(r[3] + 1)[3] = r[3] + 1
        BY <2>1, <2>5
      <4> HIDE DEF f, next
      <4> QED
        BY <1>7, <4>1, <4>2
    <3> QED
      BY <2>1, <2>7, <3>1
  <2>8. CASE ~In(p) /\ ~In(r)
    <3>1. p # hand => f[p] = p
      BY <2>3, <2>8
    <3>2. r # hand => f[r] = r
      BY <2>3, <2>8
    <3> HIDE DEF f, hand, first
    <3> QED
      BY <1>7, <2>4, <2>8, <3>1, <3>2
  <2> HIDE DEF f, In
  <2> QED
    BY <1>7, <2>6, <2>7, <2>8
<1> HIDE DEF f, g, hand, first, next
<1>8. PlacesInv' /\ ApartInv'
  <2>1. DOMAIN tasks' = DOMAIN tasks /\ started' = started /\ PlacesInv /\ ApartInv
    BY <1>2 DEF JobsInv
  <2>2. PlacesInv'
    BY <1>5, <2>1, PlacesMoved
  <2>3. ApartInv'
    BY <1>5, <1>7, <2>1, ApartMoved
  <2> QED
    BY <2>2, <2>3
<1>9. \A r : Lies(r)' <=> Lies(r)
  BY <1>5, <1>6 DEF Lies
<1>10. ASSUME NEW r \in DOMAIN tasks PROVE Alive(r)' <=> Alive(r)
  BY <1>5, <1>6, AliveStays
<1>11. RunsInv' /\ LoopsMove
  BY <1>2, <1>9, SamePieces, RunsStay DEF JobsInv, LoopsStay
<1>12. AddingInv' /\ TasksInv' /\ VictimInv'
  BY <1>2, AddingStays, TasksStayTree, VictimStays DEF JobsInv, At
<1>13. JobsCountUnfinished'
  <2>1. \A r : Children(r)' = Children(r) /\ Finishing(r)' = Finishing(r)
    BY <1>2 DEF Children, Finishing, Moves, At
  <2> QED
    BY <1>2, <1>10, <2>1, JobsAre, JobsAreNext DEF JobsInv
<1> QED
  BY <1>8, <1>11, <1>12, <1>13 DEF JobsInv

-----------------------------------------------------------------------------
(* A loop is started.                                                      *)

LEMMA StartLoopCounts ==
    ASSUME Core, Core', JobsInv, NEW l \in Loops, StartLoop(l)
    PROVE  JobsInv' /\ LoopsMove
<1>0. PICK n : n = Len(list)
  OBVIOUS
<1>1. PICK w : w = WholeRange(l, n)
  OBVIOUS
<1>2. /\ Main \in Threads /\ Moves(Main) /\ At(Main, "user")
      /\ thread'[Main].pc = "push" /\ thread'[Main].task = NoTask
      /\ thread[Main].todo = <<>> /\ thread'[Main].todo = <<w>>
      /\ UNCHANGED <<queue, tasks, runs>>
      /\ l \notin started /\ started' = started \cup {l}
  <2>1. Main \in Threads
    BY DEF Threads
  <2>2. thread[Main].todo = <<>>
    BY <2>1 DEF JobsInv, AddingInv, Adding, At, StartLoop
  <2> QED
    BY <1>0, <1>1, <2>1, <2>2, StartLoopMoves DEF StartLoop
<1>3. n \in Nat \ {0}
  <2>1. list \in Seq(Threads) /\ Fine(Main)
    BY <1>2 DEF Core, TypeInv, ThreadsInv
  <2> QED
    BY <1>0, <1>2, <2>1 DEF Fine, Absent, At, Registered
<1>4. LoopSize[l] \in Nat /\ GrainOf(l, n) \in Nat \ {0}
  <2>1. LoopSize[l] \in Nat
    BY LoopSizeAssumption
  <2>2. ASSUME NEW s \in Nat, s >= n PROVE s \div n \in Nat \ {0}
    BY <1>3, <2>2, Z3T(30)
  <2> QED
    BY <1>3, <2>1, <2>2 DEF GrainOf
<1>5. w \in Ranges /\ w.loop = l /\ w.first = 0 /\ w.last = LoopSize[l]
  BY <1>1, <1>4 DEF WholeRange, Ranges
<1>6. \A s \in DOMAIN tasks : s.loop # l
  BY <1>2 DEF JobsInv, TasksInv
<1> DEFINE fresh == <<"todo", Main, 1>>
<1>7. /\ fresh \in Places /\ fresh[1] = "todo" /\ Piece(fresh)' = w /\ Filled(fresh)'
      /\ ~Filled(fresh)
  BY <1>2 DEF Places, Filled, Piece
<1>8. ASSUME NEW p \in Places, p # fresh
      PROVE  (Filled(p)' <=> Filled(p)) /\ (Filled(p) => Piece(p)' = Piece(p))
  <2>1. /\ p[1] \in {"queue", "todo", "hand", "split"} /\ p[2] \in Threads /\ p[3] \in Nat
        /\ p = <<p[1], p[2], p[3]>>
    BY PlaceIs
  <2>2. CASE p[2] # Main
    BY <1>2, <2>1, <2>2 DEF Filled, Piece, Moves
  <2>3. CASE p[2] = Main
    BY <1>2, <1>8, <2>1, <2>3 DEF Filled, Piece, At
  <2> QED
    BY <2>2, <2>3
<1> HIDE DEF fresh
<1>9. ASSUME NEW p \in Places, Filled(p)
      PROVE  Piece(p).loop \in started /\ Piece(p).loop # l /\ Placed(p)
  BY <1>2, <1>9 DEF JobsInv, PlacesInv, Placed
<1>10. PlacesInv'
  <2> SUFFICES ASSUME NEW p \in Places, Filled(p)' PROVE Placed(p)'
    BY DEF PlacesInv
  <2>1. CASE p = fresh
    BY <1>2, <1>4, <1>5, <1>6, <1>7, <2>1 DEF Placed, Within
  <2>2. CASE p # fresh
    <3>1. Filled(p) /\ Piece(p)' = Piece(p) /\ Placed(p)
      BY <1>8, <1>9, <2>2
    <3> QED
      BY <1>2, <3>1 DEF Placed
  <2> QED
    BY <2>1, <2>2
<1>11. ApartInv'
  <2> SUFFICES ASSUME NEW p \in Places, NEW q \in Places, Filled(p)', Filled(q)', p # q
               PROVE  /\ Piece(p)' # Piece(q)'
                      /\ p[1] # "split" /\ q[1] # "split" => Apart(Piece(p)', Piece(q)')
    BY DEF ApartInv, Apart
  <2>1. CASE p = fresh
    BY <1>5, <1>7, <1>8, <1>9, <2>1 DEF Apart
  <2>2. CASE q = fresh
    BY <1>5, <1>7, <1>8, <1>9, <2>2 DEF Apart
  <2>3. CASE p # fresh /\ q # fresh
    BY <1>8, <2>3 DEF JobsInv, ApartInv
  <2> QED
    BY <2>1, <2>2, <2>3
<1>12. \A r : Lies(r)' <=> Lies(r) \/ r = w
  BY <1>7, <1>8 DEF Lies
<1>13. /\ \A k \in Loops : k # l => Pieces(k)' = Pieces(k)
       /\ Pieces(l) = {} /\ Pieces(l)' = {w}
  <2>1. \A k \in Loops : \A r :
            /\ r \in Pieces(k) <=> Lies(r) /\ r.loop = k
            /\ r \in Pieces(k)' <=> Lies(r)' /\ r.loop = k
    BY CoreViews, CoreViewsNext DEF Views, PiecesAre
  <2>2. \A r : Lies(r) => r.loop # l
    BY <1>9 DEF Lies
  <2> HIDE DEF Lies
  <2>3. ASSUME NEW k \in Loops, k # l PROVE Pieces(k)' = Pieces(k)
    BY <1>5, <1>12, <2>1, <2>3
  <2>4. Pieces(l) = {}
    BY <2>1, <2>2
  <2>5. Pieces(l)' = {w}
    BY <1>5, <1>12, <2>1, <2>2
  <2> QED
    BY <2>3, <2>4, <2>5
<1>14. RunsInv'
  <2>1. ASSUME NEW k \in Loops, NEW i \in 0..(LoopSize[k] - 1)
        PROVE  Open(k, i)' <=> Open(k, i)
    <3>1. CASE k # l
      BY <1>2, <1>13, <3>1 DEF Open
    <3>2. CASE k = l
      BY <1>2, <1>4, <1>5, <1>13, <3>2 DEF Open, Indices
    <3> QED
      BY <3>1, <3>2
  <2> QED
    BY <1>2, <2>1 DEF JobsInv, RunsInv
<1>15. LoopsMove
  <2> SUFFICES ASSUME NEW k \in Loops PROVE [Loop(k)!LoopNext]_(Loop(k)!loopVars)
    BY DEF LoopsMove
  <2>1. CASE k # l
    BY <1>2, <1>13, <2>1 DEF Loop!loopVars
  <2>2. CASE k = l
    <3> DEFINE m == IF LoopSize[l] < n THEN LoopSize[l] + 1 ELSE n
    <3>1. m \in 1..(LoopSize[l] + 1) /\ w = WholeRange(l, m)
      BY <1>1, <1>3, <1>4 DEF WholeRange, GrainOf
    <3>2. WholeRange(l, m) = Loop(l)!WholeRange(l, m)
      BY DEF WholeRange, GrainOf, Loop!WholeRange, Loop!GrainOf
    <3> HIDE DEF m
    <3>3. Loop(l)!Start
      BY <1>2, <1>13, <3>1, <3>2 DEF Loop!Start
    <3> QED
      BY <2>2, <3>3 DEF Loop!LoopNext
  <2> QED
    BY <2>1, <2>2
<1>16. AddingInv' /\ TasksInv' /\ VictimInv'
  <2>1. Adding(Main)'
    <3>1. Len(thread'[Main].todo) = 1 /\ thread'[Main].todo[1] = w
      BY <1>2
    <3> QED
      BY <1>2, <1>5, <1>6, <3>1 DEF Adding
  <2>2. TasksInv'
    BY <1>2 DEF JobsInv, TasksInv
  <2> QED
    BY <1>2, <2>1, <2>2, AddingStays, VictimStays DEF JobsInv, At
<1>17. JobsCountUnfinished'
  <2>1. ASSUME NEW r \in DOMAIN tasks PROVE Alive(r)' <=> Alive(r)
    BY <1>7, <1>8, AliveStays
  <2>2. \A r : Children(r)' = Children(r) /\ Finishing(r)' = Finishing(r)
    BY <1>2 DEF Children, Finishing, Moves, At
  <2> QED
    BY <1>2, <2>1, <2>2, JobsAre, JobsAreNext DEF JobsInv
<1> QED
  BY <1>10, <1>11, <1>14, <1>15, <1>16, <1>17 DEF JobsInv

-----------------------------------------------------------------------------
(* A task is added.                                                        *)

LEMMA PushTaskCounts ==
    ASSUME Core, Core', JobsInv, NEW t \in Threads, PushTask(t)
    PROVE  JobsInv' /\ LoopsMove
<1>0. PICK new : new = thread[t].todo[1]
  OBVIOUS
<1>1. PICK p : p = thread[t].task
  OBVIOUS
<1>2. PICK n : n = Len(queue[t]) + 1
  OBVIOUS
<1> DEFINE todo == thread[t].todo
<1>3. /\ At(t, "push") /\ Moves(t) /\ thread'[t].pc = "notify" /\ thread'[t].task = p
      /\ todo \in Seq(Ranges) /\ todo # <<>> /\ new = Head(todo) /\ new \in Ranges
      /\ thread'[t].todo = Tail(todo)
      /\ queue' = [queue EXCEPT ![t] = Append(queue[t], new)]
      /\ queue \in [Threads -> Seq(Ranges)]
      /\ UNCHANGED <<started, runs>>
      /\ DOMAIN tasks' = DOMAIN tasks \cup {new}
      /\ tasks' = [r \in DOMAIN tasks \cup {new} |->
                        IF r = new THEN [jobs |-> 1, parent |-> p] ELSE Adopted(p)[r]]
      /\ DOMAIN tasks \subseteq Ranges /\ NoTask \notin DOMAIN tasks
      /\ tasks \in [DOMAIN tasks -> [jobs : Int, parent : DOMAIN tasks \cup {NoTask}]]
      /\ p \in DOMAIN tasks \/ (p = NoTask /\ t = Main)
  <2>1. TypeInv /\ HoldsTask(t)
    BY DEF Core, ThreadsInv, Fine
  <2>2. /\ At(t, "push") /\ Moves(t) /\ thread'[t].pc = "notify" /\ thread'[t].task = p
        /\ todo \in Seq(Ranges) /\ todo # <<>> /\ thread'[t].todo = Tail(todo)
    BY <1>1, PushTaskMoves
  <2>3. new = Head(todo) /\ new \in Ranges
    BY <1>0, <2>2
  <2>4. p \in DOMAIN tasks \/ (p = NoTask /\ t = Main)
    BY <1>1, <2>1, <2>2 DEF HoldsTask, At
  <2>5. /\ DOMAIN tasks \subseteq Ranges /\ NoTask \notin DOMAIN tasks
        /\ queue \in [Threads -> Seq(Ranges)]
        /\ tasks \in [DOMAIN tasks -> [jobs : Int, parent : DOMAIN tasks \cup {NoTask}]]
    BY <2>1, NoTaskAssumption DEF TypeInv
  <2> QED
    BY <1>1, <2>2, <2>3, <2>4, <2>5 DEF PushTask
<1>4. /\ n \in Nat \ {0} /\ Len(queue'[t]) = n /\ queue'[t][n] = new
      /\ \A i \in 1..(n - 1) : queue'[t][i] = queue[t][i]
      /\ \A u \in Threads \ {t} : queue'[u] = queue[u]
      /\ Len(todo) \in Nat \ {0} /\ Len(thread'[t].todo) = Len(todo) - 1
      /\ \A i \in 1..(Len(todo) - 1) : thread'[t].todo[i] = todo[i + 1]
  <2>1. /\ Len(queue[t]) \in Nat /\ queue'[t] = Append(queue[t], new) /\ queue[t] \in Seq(Ranges)
        /\ \A u \in Threads \ {t} : queue'[u] = queue[u]
    BY <1>3
  <2>2. /\ Len(todo) \in Nat \ {0} /\ Len(thread'[t].todo) = Len(todo) - 1
        /\ \A i \in 1..(Len(todo) - 1) : thread'[t].todo[i] = todo[i + 1]
    BY <1>3
  <2> QED
    BY <1>2, <1>3, <2>1, <2>2
<1> DEFINE last == <<"queue", t, n>>
           fresh == <<"todo", t, 1>>
           rest(i) == <<"todo", t, i>>
           f == [q \in Places |-> IF q = last THEN fresh
                                  ELSE IF q[1] = "todo" /\ q[2] = t THEN rest(q[3] + 1)
                                  ELSE q]
           g == [q \in Places |-> IF q = fresh THEN last
                                  ELSE IF q[1] = "todo" /\ q[2] = t THEN rest(q[3] - 1)
                                  ELSE q]
<1>5. /\ last \in Places /\ fresh \in Places /\ last[1] = "queue" /\ fresh[1] = "todo"
      /\ \A i \in Nat : /\ rest(i) \in Places /\ rest(i)[1] = "todo"
                        /\ rest(i)[2] = t /\ rest(i)[3] = i
      /\ Filled(fresh) /\ Piece(fresh) = new /\ Filled(last)' /\ Piece(last)' = new
  BY <1>0, <1>3, <1>4 DEF Places, Filled, Piece
<1>6. ASSUME NEW q \in Places, Filled(q)'
      PROVE  /\ f[q] \in Places /\ Filled(f[q]) /\ Piece(q)' = Piece(f[q])
             /\ q # last => (q[1] = "todo" <=> f[q][1] = "todo")
             /\ q[1] # "split" <=> f[q][1] # "split"
  <2>1. /\ q[1] \in {"queue", "todo", "hand", "split"} /\ q[2] \in Threads /\ q[3] \in Nat
        /\ q = <<q[1], q[2], q[3]>>
    BY PlaceIs
  <2>2. CASE q = last
    BY <1>5, <2>2
  <2>3. CASE q # last /\ q[1] = "todo" /\ q[2] = t
    <3>1. f[q] = rest(q[3] + 1) /\ q[3] + 1 \in Nat
      BY <2>1, <2>3
    <3>2. q[3] \in 1..(Len(todo) - 1)
      BY <1>4, <1>6, <2>3 DEF Filled
    <3>3. Filled(rest(q[3] + 1)) /\ Piece(rest(q[3] + 1)) = todo[q[3] + 1]
      BY <1>4, <1>5, <3>2 DEF Filled, Piece
    <3>4. Piece(q)' = todo[q[3] + 1]
      BY <1>4, <2>3, <3>2 DEF Piece
    <3> QED
      BY <1>5, <2>3, <3>1, <3>3, <3>4
  <2>4. CASE q # last /\ ~(q[1] = "todo" /\ q[2] = t)
    <3>1. f[q] = q
      BY <2>4
    <3>2. Filled(q) /\ Piece(q)' = Piece(q)
      <4>1. CASE q[1] = "queue" /\ q[2] = t
        <5>1. q[3] \in 1..n /\ q[3] # n
          BY <1>4, <1>6, <2>1, <2>4, <4>1 DEF Filled
        <5>2. q[3] \in 1..(n - 1) /\ n - 1 = Len(queue[t])
          BY <1>2, <1>3, <1>4, <5>1
        <5> QED
          BY <1>4, <4>1, <5>2 DEF Filled, Piece
      <4>2. CASE q[2] # t
        BY <1>3, <1>4, <1>6, <2>1, <4>2 DEF Filled, Piece, Moves
      <4>3. CASE q[1] # "queue" /\ q[2] = t
        BY <1>1, <1>3, <1>6, <2>1, <2>4, <4>3 DEF Filled, Piece, At
      <4> QED
        BY <4>1, <4>2, <4>3
    <3> QED
      BY <3>1, <3>2
  <2> QED
    BY <2>2, <2>3, <2>4
<1>7. ASSUME NEW q \in Places, Filled(q)
      PROVE  /\ g[q] \in Places /\ Filled(g[q])' /\ Piece(g[q])' = Piece(q)
             /\ q[1] # "todo" => g[q][1] # "todo"
             /\ q[1] # "split" <=> g[q][1] # "split"
  <2>1. /\ q[1] \in {"queue", "todo", "hand", "split"} /\ q[2] \in Threads /\ q[3] \in Nat
        /\ q = <<q[1], q[2], q[3]>>
    BY PlaceIs
  <2>2. CASE q = fresh
    BY <1>5, <2>2
  <2>3. CASE q # fresh /\ q[1] = "todo" /\ q[2] = t
    <3>1. q[3] \in 1..Len(todo) /\ q[3] # 1
      BY <1>7, <2>1, <2>3 DEF Filled
    <3>2. g[q] = rest(q[3] - 1) /\ q[3] - 1 \in Nat /\ q[3] - 1 \in 1..(Len(todo) - 1)
      BY <1>4, <2>1, <2>3, <3>1
    <3>3. Filled(rest(q[3] - 1))' /\ Piece(rest(q[3] - 1))' = todo[(q[3] - 1) + 1]
      BY <1>4, <1>5, <3>2 DEF Filled, Piece
    <3>4. (q[3] - 1) + 1 = q[3] /\ Piece(q) = todo[q[3]]
      BY <2>1, <2>3 DEF Piece
    <3> QED
      BY <1>5, <2>3, <3>2, <3>3, <3>4
  <2>4. CASE q # fresh /\ ~(q[1] = "todo" /\ q[2] = t)
    <3>1. g[q] = q
      BY <2>4
    <3>2. Filled(q)' /\ Piece(q)' = Piece(q)
      <4>1. CASE q[1] = "queue" /\ q[2] = t
        <5>1. q[3] \in 1..(n - 1)
          BY <1>2, <1>4, <1>7, <4>1 DEF Filled
        <5> QED
          BY <1>4, <4>1, <5>1 DEF Filled, Piece
      <4>2. CASE q[2] # t
        BY <1>3, <1>4, <1>7, <2>1, <4>2 DEF Filled, Piece, Moves
      <4>3. CASE q[1] # "queue" /\ q[2] = t
        BY <1>1, <1>3, <1>7, <2>1, <2>4, <4>3 DEF Filled, Piece, At
      <4> QED
        BY <4>1, <4>2, <4>3
    <3> QED
      BY <3>1, <3>2
  <2> QED
    BY <2>2, <2>3, <2>4
<1>8. ASSUME NEW q \in Places, NEW r \in Places, Filled(q)', Filled(r)', f[q] = f[r]
      PROVE  q = r
  <2>1. /\ q[1] \in {"queue", "todo", "hand", "split"} /\ q[3] \in Nat /\ q = <<q[1], q[2], q[3]>>
        /\ r[1] \in {"queue", "todo", "hand", "split"} /\ r[3] \in Nat /\ r = <<r[1], r[2], r[3]>>
        /\ q[1] = "todo" => q[3] > 0
        /\ r[1] = "todo" => r[3] > 0
    BY <1>8, PlaceIs DEF Filled
  <2> DEFINE In(s) == s[1] = "todo" /\ s[2] = t
  <2>2. ASSUME NEW s \in Places, s # last, In(s) PROVE f[s] = rest(s[3] + 1)
    BY <2>2
  <2>3. ASSUME NEW s \in Places, s # last, ~In(s) PROVE f[s] = s
    BY <2>3
  <2>4. f[last] = fresh /\ ~In(last) /\ In(fresh) /\ fresh[3] = 1
    BY <1>5
  <2>5. \A i \in Nat : In(rest(i)) /\ rest(i)[3] = i
    BY <1>5
  <2>6. ASSUME NEW s \in Places, NEW u \in Places, Filled(s)', In(s), ~In(u)
        PROVE  f[s] # f[u]
    <3>1. s # last /\ s[3] \in Nat /\ s[3] > 0
      BY <2>4, <2>6, PlaceIs DEF Filled
    <3>2. f[s] = rest(s[3] + 1) /\ rest(s[3] + 1)[3] = s[3] + 1 /\ In(rest(s[3] + 1))
      BY <2>2, <2>5, <2>6, <3>1
    <3>3. rest(s[3] + 1)[3] # fresh[3]
      BY <2>4, <3>1, <3>2
    <3> HIDE DEF f, last, fresh, rest, In
    <3>4. f[u] = fresh \/ f[u] = u
      BY <2>3, <2>4, <2>6
    <3> QED
      BY <2>6, <3>2, <3>3, <3>4
  <2>7. CASE In(q) /\ In(r)
    <3>1. q[3] + 1 = r[3] + 1
      <4>1. f[q] = rest(q[3] + 1) /\ f[r] = rest(r[3] + 1)
        BY <2>2, <2>4, <2>7
      <4>2. rest(q[3] + 1)[3] = q[3] + 1 /\ rest(r[3] + 1)[3] = r[3] + 1
        BY <2>1, <2>5
      <4> HIDE DEF f, rest
      <4> QED
        BY <1>8, <4>1, <4>2
    <3> QED
      BY <2>1, <2>7, <3>1
  <2>8. CASE ~In(q) /\ ~In(r)
    <3>1. q # last => f[q] = q
      BY <2>3, <2>8
    <3>2. r # last => f[r] = r
      BY <2>3, <2>8
    <3> HIDE DEF f, last, fresh
    <3> QED
      BY <1>8, <2>4, <2>8, <3>1, <3>2
  <2> HIDE DEF f, In
  <2> QED
    BY <1>8, <2>6, <2>7, <2>8
<1>9. f[last] = fresh
  BY <1>5
<1> HIDE DEF f, g, last, fresh, rest
<1>10. new \notin DOMAIN tasks /\ Placed(fresh) /\ Adding(t)
  BY <1>3, <1>5 DEF JobsInv, PlacesInv, Placed, AddingInv
<1>11. /\ new.loop \in started /\ new.first <= new.last /\ new.last <= LoopSize[new.loop]
       /\ \A s \in DOMAIN tasks : Within(s, new) => s = new
       /\ LoopSize[new.loop] \in Nat /\ new.first \in Nat /\ new.last \in Nat
       /\ new.first = new.last => LoopSize[new.loop] = 0
  <2>1. LoopSize[new.loop] \in Nat /\ new.first \in Nat /\ new.last \in Nat
    BY <1>3, LoopSizeAssumption DEF Ranges
  <2>2. /\ new.loop \in started /\ new.first <= new.last /\ new.last <= LoopSize[new.loop]
        /\ \A s \in DOMAIN tasks : Within(s, new) => s = new
        /\ new.first = new.last => LoopSize[new.loop] = 0
    BY <1>5, <1>10 DEF Placed
  <2> QED
    BY <2>1, <2>2
<1>12. /\ p = NoTask => \A s \in DOMAIN tasks : s.loop # new.loop
       /\ p = NoTask => Len(todo) = 1
       /\ p # NoTask => p \in DOMAIN tasks /\ Within(new, p) /\ SizeOf(new) < SizeOf(p)
  <2>1. 1 \in 1..Len(todo)
    BY <1>4
  <2> QED
    BY <1>0, <1>1, <1>3, <1>10, <2>1 DEF Adding
\* A part of a task is not empty, and next to the task of a loop there is no other.
<1>13. ASSUME NEW q \in Places, Filled(q), q # fresh, q[1] # "split"
       PROVE  ~Within(new, Piece(q))
  <2>1. CASE p # NoTask
    <3>1. /\ p.loop = new.loop /\ p.last <= LoopSize[p.loop] /\ p.first \in Nat /\ p.last \in Nat
      BY <1>12, <2>1, <1>3 DEF Within, JobsInv, TasksInv, Ranges
    <3>2. new.first < new.last
      BY <1>11, <1>12, <2>1, <3>1 DEF SizeOf, Within
    <3>3. Apart(new, Piece(q))
      BY <1>5, <1>13 DEF JobsInv, ApartInv
    <3>4. Piece(q) \in Ranges
      BY <1>13, CoreViews DEF Views, RangesAre
    <3> QED
      BY <1>11, <3>2, <3>3, <3>4 DEF Apart, Within, Ranges
  <2>2. CASE p = NoTask
    <3> SUFFICES ASSUME Piece(q).loop = new.loop PROVE FALSE
      BY DEF Within
    <3>1. q[1] = "todo" /\ q[2] \in Threads
      BY <1>12, <1>13, <2>2, CoreViews, PlaceIs DEF Views, RangesAre
    <3>2. q[3] \in 1..Len(thread[q[2]].todo) /\ Piece(q) = thread[q[2]].todo[q[3]]
      BY <1>13, <3>1 DEF Filled, Piece
    <3>3. CASE q[2] = t
      <4>1. q[3] = 1 /\ q = <<q[1], q[2], q[3]>>
        BY <1>12, <2>2, <3>2, <3>3, PlaceIs
      <4> QED
        BY <1>13, <3>1, <3>3, <4>1 DEF fresh
    <3>4. CASE q[2] # t
      <4>1. thread[q[2]].todo # <<>> /\ HoldsTask(q[2])
        BY <3>1, <3>2 DEF Core, ThreadsInv, Fine
      <4>2. Adding(q[2])
        BY <3>1, <4>1 DEF JobsInv, AddingInv
      <4>3. thread[q[2]].task # NoTask
        BY <1>3, <2>2, <3>4, <4>1, <4>2 DEF Adding, HoldsTask
      <4>4. thread[q[2]].task \in DOMAIN tasks /\ Within(Piece(q), thread[q[2]].task)
        BY <3>2, <4>2, <4>3 DEF Adding
      <4> QED
        BY <1>12, <2>2, <4>4 DEF Within
    <3> QED
      BY <3>3, <3>4
  <2> QED
    BY <2>1, <2>2
<1>14. ApartInv'
  BY <1>6, <1>8, ApartMoved DEF JobsInv
<1>15. PlacesInv'
  <2> SUFFICES ASSUME NEW q \in Places, Filled(q)' PROVE Placed(q)'
    BY DEF PlacesInv
  <2>1. CASE q = last
    BY <1>3, <1>5, <1>11, <2>1 DEF Placed
  <2>2. CASE q # last
    <3>1. /\ f[q] \in Places /\ Filled(f[q]) /\ Piece(q)' = Piece(f[q]) /\ Placed(f[q])
          /\ q[1] = "todo" <=> f[q][1] = "todo"
          /\ q[1] # "split" <=> f[q][1] # "split"
      BY <1>6, <2>2 DEF JobsInv, PlacesInv
    <3>2. f[q] # fresh
      BY <1>5, <1>8, <1>9, <2>2
    <3>3. Piece(f[q]) # new
      BY <1>5, <3>1, <3>2 DEF JobsInv, ApartInv
    <3>4. q[1] # "split" => ~Within(new, Piece(f[q]))
      BY <1>13, <3>1, <3>2
    <3> QED
      BY <1>3, <3>1, <3>3, <3>4 DEF Placed
  <2> QED
    BY <2>1, <2>2
<1>16. \A r : Lies(r)' <=> Lies(r)
  BY <1>6, <1>7 DEF Lies
<1>17. RunsInv' /\ LoopsMove
  BY <1>3, <1>16, SamePieces, RunsStay DEF JobsInv, LoopsStay
<1>18. AddingInv'
  <2> SUFFICES ASSUME NEW u \in Threads, thread'[u].todo # <<>> PROVE Adding(u)'
    BY DEF AddingInv
  <2>1. CASE u = t
    <3>1. p # NoTask
      <4>1. /\ thread'[t].todo = Tail(todo) /\ thread'[t].todo # <<>>
            /\ todo \in Seq(Ranges) /\ todo # <<>>
        BY <1>3, <2>1
      <4>2. Len(todo) # 1
        <5>1. Tail(todo) \in Seq(Ranges) /\ Len(Tail(todo)) = Len(todo) - 1
          BY <4>1
        <5>2. \A s \in Seq(Ranges) : s # <<>> => Len(s) # 0
          OBVIOUS
        <5>3. Len(Tail(todo)) # 0 /\ Len(todo) \in Nat
          BY <1>4, <4>1, <5>1, <5>2
        <5> QED
          BY <5>1, <5>3
      <4> QED
        BY <1>12, <4>2
    <3>2. /\ p \in DOMAIN tasks
          /\ \A i \in 1..Len(todo) : Within(todo[i], p) /\ SizeOf(todo[i]) < SizeOf(p)
      BY <1>1, <1>10, <3>1 DEF Adding
    <3>3. ASSUME NEW i \in 1..Len(thread'[t].todo)
          PROVE  Within(thread'[t].todo[i], p) /\ SizeOf(thread'[t].todo[i]) < SizeOf(p)
      <4>1. i \in 1..(Len(todo) - 1) /\ i + 1 \in 1..Len(todo)
        BY <1>4
      <4>2. thread'[t].todo[i] = todo[i + 1]
        BY <1>4, <4>1
      <4> QED
        BY <3>2, <4>1, <4>2
    <3> QED
      BY <1>3, <2>1, <3>2, <3>3 DEF Adding
  <2>2. CASE u # t
    <3>1. thread'[u] = thread[u] /\ Adding(u) /\ HoldsTask(u)
      BY <1>3, <2>2 DEF Moves, JobsInv, AddingInv, Core, ThreadsInv, Fine
    <3>2. thread[u].task = NoTask => p \in DOMAIN tasks /\ new.loop = p.loop
      BY <1>3, <1>12, <2>2, <3>1 DEF Adding, HoldsTask, Within
    <3> QED
      BY <1>3, <3>1, <3>2 DEF Adding
  <2> QED
    BY <2>1, <2>2
<1>19. /\ tasks'[new] = [jobs |-> 1, parent |-> p]
       /\ \A r \in DOMAIN tasks : /\ tasks'[r].parent = tasks[r].parent
                                  /\ r # p => tasks'[r] = tasks[r]
       /\ p \in DOMAIN tasks => tasks'[p].jobs = tasks[p].jobs + 1
  BY <1>3, <1>10 DEF Adopted
<1>20. TasksInv'
  <2>1. IsFiniteSet(DOMAIN tasks')
    BY <1>3, FS_AddElement DEF JobsInv, TasksInv
  <2>2. ASSUME NEW r \in DOMAIN tasks'
        PROVE  /\ r.loop \in started'
               /\ r.first <= r.last /\ r.last <= LoopSize[r.loop]
               /\ tasks'[r].parent # NoTask =>
                     tasks'[r].parent.loop = r.loop /\ SizeOf(r) < SizeOf(tasks'[r].parent)
    <3>1. CASE r = new
      BY <1>3, <1>11, <1>12, <1>19, <3>1 DEF Within
    <3>2. CASE r # new
      BY <1>3, <1>19, <3>2 DEF JobsInv, TasksInv
    <3> QED
      BY <3>1, <3>2
  <2>3. ASSUME NEW r \in DOMAIN tasks', NEW s \in DOMAIN tasks', r.loop = s.loop,
               tasks'[r].parent = NoTask, tasks'[s].parent = NoTask
        PROVE  r = s
    BY <1>3, <1>12, <1>19, <2>3 DEF JobsInv, TasksInv
  <2> QED
    BY <2>1, <2>2, <2>3 DEF TasksInv
<1>21. VictimInv'
  BY <1>3, VictimStays DEF JobsInv, At
<1>22. \A r \in DOMAIN tasks : Alive(r)' <=> Alive(r)
  <2> SUFFICES ASSUME NEW r \in DOMAIN tasks PROVE Alive(r)' <=> Alive(r)
    OBVIOUS
  <2>1. ASSUME NEW q \in Places, Filled(q)', q[1] # "todo", Piece(q)' = r
        PROVE  Filled(f[q]) /\ f[q][1] # "todo" /\ Piece(f[q]) = r /\ f[q] \in Places
    <3>1. q # last
      BY <1>5, <1>10, <2>1
    <3> QED
      BY <1>6, <2>1, <3>1
  <2>2. ASSUME NEW q \in Places, Filled(q), q[1] # "todo", Piece(q) = r
        PROVE  Filled(g[q])' /\ g[q][1] # "todo" /\ Piece(g[q])' = r /\ g[q] \in Places
    BY <1>7, <2>2
  <2> QED
    BY <2>1, <2>2, AliveStays
<1>23. Alive(new)'
  <2>1. Alive(new)' <=> \E q \in Places : Filled(q)' /\ q[1] # "todo" /\ Piece(q)' = new
    BY <1>3, CoreViewsNext DEF Views, AliveAre
  <2> HIDE DEF Alive, Filled, Piece
  <2> QED
    BY <1>5, <2>1
<1>24. Children(new)' = {} /\ \A r : Finishing(r)' = Finishing(r)
  <2>1. \A c \in DOMAIN tasks : tasks[c].parent # new
    BY <1>3, <1>10, NoTaskAssumption
  <2>2. \A c \in DOMAIN tasks' : tasks'[c].parent # new
    BY <1>3, <1>10, <1>19, <2>1, NoTaskAssumption
  <2>3. \A r : Finishing(r)' = Finishing(r)
    BY <1>3 DEF Finishing, At, Moves
  <2> QED
    BY <2>2, <2>3 DEF Children
<1>25. Finishing(new) = {}
  BY <1>10 DEF Finishing, Core, ThreadsInv, Fine, HoldsTask, At
<1>26. /\ \A r : IsFiniteSet(Children(r)) /\ IsFiniteSet(Finishing(r))
       /\ \A r : Cardinality(Children(r)) \in Nat /\ Cardinality(Finishing(r)) \in Nat
  BY ChildrenAreFinite, FinishingIsFinite, FS_CardinalityType DEF JobsInv
\* The task whose body adds this one is not done.
<1>27. p \in DOMAIN tasks => tasks[p].jobs > 0
  <2> SUFFICES ASSUME p \in DOMAIN tasks PROVE tasks[p].jobs > 0
    OBVIOUS
  <2>1. Alive(p)
    BY <1>1, <1>3 DEF Alive, Held, At
  <2>2. tasks[p].jobs = (IF Alive(p) THEN 1 ELSE 0)
                            + Cardinality(Children(p)) + Cardinality(Finishing(p))
    BY JobsAre DEF JobsInv
  <2>3. tasks[p].jobs = 1 + Cardinality(Children(p)) + Cardinality(Finishing(p))
    BY <2>1, <2>2
  <2> QED
    BY <1>26, <2>3
<1>28. /\ p \in DOMAIN tasks =>
              Children(p)' = Children(p) \cup {new} /\ new \notin Children(p)
       /\ \A r \in DOMAIN tasks : r # p => Children(r)' = Children(r)
  <2>1. \A c \in DOMAIN tasks : /\ tasks'[c].parent = tasks[c].parent
                                /\ tasks'[c].jobs > 0 <=> tasks[c].jobs > 0
    BY <1>3, <1>19, <1>27
  <2>2. tasks'[new].parent = p /\ tasks'[new].jobs > 0
    BY <1>19
  <2> QED
    BY <1>3, <1>10, <2>1, <2>2 DEF Children
<1>29. p \in DOMAIN tasks => Cardinality(Children(p)') = Cardinality(Children(p)) + 1
  <2> SUFFICES ASSUME p \in DOMAIN tasks
               PROVE  Cardinality(Children(p)') = Cardinality(Children(p)) + 1
    OBVIOUS
  <2>1. Cardinality(Children(p) \cup {new}) = Cardinality(Children(p)) + 1
    BY <1>26, <1>28, FS_AddElement
  <2> QED
    BY <1>28, <2>1
<1>30. JobsCountUnfinished'
  <2> SUFFICES ASSUME NEW r \in DOMAIN tasks'
               PROVE  tasks'[r].jobs = (IF Alive(r)' THEN 1 ELSE 0)
                            + Cardinality(Children(r)') + Cardinality(Finishing(r)')
    BY JobsAreNext
  <2>1. CASE r = new
    <3>1. Children(r)' = {} /\ Finishing(r)' = {} /\ Alive(r)' /\ tasks'[r].jobs = 1
      BY <1>19, <1>23, <1>24, <1>25, <2>1
    <3>2. Cardinality(Children(r)') = 0 /\ Cardinality(Finishing(r)') = 0
      BY <3>1, FS_EmptySet
    <3> QED
      BY <3>1, <3>2
  <2>2. CASE r # new
    <3>1. r \in DOMAIN tasks /\ (Alive(r)' <=> Alive(r)) /\ Finishing(r)' = Finishing(r)
      BY <1>3, <1>22, <1>24, <2>2
    <3>2. tasks[r].jobs = (IF Alive(r) THEN 1 ELSE 0)
                            + Cardinality(Children(r)) + Cardinality(Finishing(r))
      BY <3>1, JobsAre DEF JobsInv
    <3>3. CASE r = p
      <4> DEFINE one == IF Alive(r) THEN 1 ELSE 0
      <4>1. (IF Alive(r)' THEN 1 ELSE 0) = one /\ one \in Int
        BY <3>1
      <4>2. tasks[r].jobs = one + Cardinality(Children(r)) + Cardinality(Finishing(r))
        BY <3>2
      <4>3. /\ tasks'[r].jobs = tasks[r].jobs + 1
            /\ Cardinality(Children(r)') = Cardinality(Children(r)) + 1
            /\ Cardinality(Finishing(r)') = Cardinality(Finishing(r))
            /\ Cardinality(Children(r)) \in Nat /\ Cardinality(Finishing(r)) \in Nat
        BY <1>19, <1>26, <1>29, <3>1, <3>3
      <4>4. tasks'[r].jobs = one + Cardinality(Children(r)') + Cardinality(Finishing(r)')
        <5> HIDE DEF one
        <5>1. \A i \in Int, j \in Nat, k \in Nat : (i + j + k) + 1 = i + (j + 1) + k
          OBVIOUS
        <5>2. (one + Cardinality(Children(r)) + Cardinality(Finishing(r))) + 1
                = one + (Cardinality(Children(r)) + 1) + Cardinality(Finishing(r))
          BY ONLY <4>1, <4>3, <5>1
        <5> QED
          BY ONLY <4>2, <4>3, <5>2
      <4> HIDE DEF one
      <4> QED
        BY <4>1, <4>4
    <3>4. CASE r # p
      BY <1>19, <1>28, <3>1, <3>2, <3>4
    <3> QED
      BY <3>3, <3>4
  <2> QED
    BY <2>1, <2>2
<1> QED
  BY <1>14, <1>15, <1>17, <1>18, <1>20, <1>21, <1>30 DEF JobsInv

-----------------------------------------------------------------------------
(* A task is split.                                                        *)

LEMMA HalvesAre ==
    ASSUME NEW r \in Ranges, IsSplittable(r)
    PROVE  \E m \in Nat, a \in Ranges, b \in Ranges :
              /\ r.first < m /\ m < r.last
              /\ a = LeftOf(r) /\ a.loop = r.loop /\ a.first = r.first /\ a.last = m
              /\ b = RightOf(r) /\ b.loop = r.loop /\ b.first = m /\ b.last = r.last
<1> DEFINE h == (r.last - r.first) \div 2
           m == Middle(r)
           a == LeftOf(r)
           b == RightOf(r)
<1>1. /\ r.first \in Nat /\ r.last \in Nat /\ r.grain \in Nat \ {0} /\ r.loop \in Loops
      /\ r = [loop |-> r.loop, first |-> r.first, last |-> r.last, grain |-> r.grain]
      /\ 1 < r.last - r.first
  BY DEF Ranges, IsSplittable, SizeOf
<1>2. m = r.first + h
  BY DEF Middle, SizeOf
<1>3. h \in Int /\ 2 * h <= r.last - r.first /\ r.last - r.first <= 2 * h + 1
  BY <1>1
<1> HIDE DEF h
<1>4. m \in Nat /\ r.first < m /\ m < r.last
  BY <1>1, <1>2, <1>3
<1> HIDE DEF m
<1>5. /\ a = [loop |-> r.loop, first |-> r.first, last |-> m, grain |-> r.grain]
      /\ b = [loop |-> r.loop, first |-> m, last |-> r.last, grain |-> r.grain]
  BY <1>1 DEF LeftOf, RightOf, m
<1>6. a \in Ranges /\ b \in Ranges
  BY <1>1, <1>4, <1>5 DEF Ranges
<1> QED
  BY <1>4, <1>5, <1>6

LEMMA RunSplitCounts ==
    ASSUME Core, Core', JobsInv, NEW t \in Threads, RunSplit(t)
    PROVE  JobsInv' /\ LoopsMove
<1>0. PICK me : me = thread[t].task
  OBVIOUS
<1>1. /\ At(t, "run") /\ Moves(t) /\ thread'[t].pc = "push" /\ thread'[t].task = me
      /\ thread[t].todo = <<>> /\ thread'[t].todo = <<LeftOf(me), RightOf(me)>>
      /\ UNCHANGED <<queue, tasks, runs, started>>
      /\ me \in DOMAIN tasks /\ me \in Ranges /\ me # NoTask /\ IsSplittable(me)
  <2>1. /\ At(t, "run") /\ Moves(t) /\ thread'[t].pc = "push" /\ thread'[t].task = me
        /\ IsSplittable(me)
    BY <1>0, RunSplitMoves
  <2>2. thread[t].todo = <<>>
    BY <2>1 DEF JobsInv, AddingInv, Adding, At
  <2>3. thread'[t].todo = <<LeftOf(me), RightOf(me)>>
    <3>1. thread \in [Threads -> ThreadStates]
      BY DEF Core, TypeInv
    <3> QED
      BY <1>0, <3>1 DEF RunSplit, ThreadStates, Halves
  <2>4. me \in DOMAIN tasks /\ me \in Ranges /\ me # NoTask
    BY <1>0, <2>1, NoTaskAssumption DEF Core, TypeInv, ThreadsInv, Fine, HoldsTask, At
  <2> QED
    BY <2>1, <2>2, <2>3, <2>4 DEF RunSplit, work
<1>2. PICK m \in Nat, a \in Ranges, b \in Ranges :
              /\ me.first < m /\ m < me.last
              /\ a = LeftOf(me) /\ a.loop = me.loop /\ a.first = me.first /\ a.last = m
              /\ b = RightOf(me) /\ b.loop = me.loop /\ b.first = m /\ b.last = me.last
  BY <1>1, HalvesAre
<1>3. thread'[t].todo = <<a, b>> /\ me.first \in Nat /\ me.last \in Nat /\ me.loop \in Loops
  BY <1>1, <1>2 DEF Ranges
<1> DEFINE was == <<"hand", t, 0>>
           mine == <<"split", t, 0>>
           left == <<"todo", t, 1>>
           right == <<"todo", t, 2>>
<1>4. /\ was \in Places /\ was[1] = "hand" /\ Filled(was) /\ Piece(was) = me /\ ~(Filled(was)')
      /\ mine \in Places /\ mine[1] = "split" /\ Filled(mine)' /\ Piece(mine)' = me
      /\ left \in Places /\ left[1] = "todo" /\ Filled(left)' /\ Piece(left)' = a
      /\ right \in Places /\ right[1] = "todo" /\ Filled(right)' /\ Piece(right)' = b
      /\ left # right
  <2>1. was \in Places /\ mine \in Places /\ left \in Places /\ right \in Places
    BY DEF Places
  <2>2. Filled(was) /\ Piece(was) = me /\ ~(Filled(was)')
    BY <1>0, <1>1 DEF Filled, Piece, At
  <2>3. Filled(mine)' /\ Piece(mine)' = me
    BY <1>1 DEF Filled, Piece
  <2>4. Len(thread'[t].todo) = 2 /\ thread'[t].todo[1] = a /\ thread'[t].todo[2] = b
    BY <1>3
  <2>5. Filled(left)' /\ Piece(left)' = a /\ Filled(right)' /\ Piece(right)' = b
    BY <2>4 DEF Filled, Piece
  <2> QED
    BY <2>1, <2>2, <2>3, <2>5
<1>5. ASSUME NEW q \in Places, q \notin {was, mine, left, right}
      PROVE  (Filled(q)' <=> Filled(q)) /\ (Filled(q) => Piece(q)' = Piece(q))
  <2>1. /\ q[1] \in {"queue", "todo", "hand", "split"} /\ q[2] \in Threads /\ q[3] \in Nat
        /\ q = <<q[1], q[2], q[3]>>
    BY PlaceIs
  <2>2. CASE q[2] # t
    BY <1>1, <2>1, <2>2 DEF Filled, Piece, Moves
  <2>3. CASE q[2] = t
    <3>1. q[1] = "todo" => ~Filled(q) /\ ~(Filled(q)')
      <4>1. Len(thread[t].todo) = 0 /\ Len(thread'[t].todo) = 2
        BY <1>1
      <4>2. q[1] = "todo" => q[3] \notin 1..2
        BY <1>5, <2>1, <2>3
      <4> QED
        BY <2>3, <4>1, <4>2 DEF Filled
    <3>2. q[1] = "hand" => q[3] # 0
      BY <1>5, <2>1, <2>3
    <3>3. q[1] = "split" => q[3] # 0
      BY <1>5, <2>1, <2>3
    <3> QED
      BY <1>1, <2>1, <2>3, <3>1, <3>2, <3>3 DEF Filled, Piece
  <2> QED
    BY <2>2, <2>3
<1>6. ~Filled(mine) /\ ~Filled(left) /\ ~Filled(right)
  BY <1>1 DEF Filled, At
<1> HIDE DEF was, mine, left, right
<1>7. /\ me.loop \in started /\ me.last <= LoopSize[me.loop]
      /\ \A s \in DOMAIN tasks : Within(s, me) => s = me
  BY <1>4 DEF JobsInv, PlacesInv, Placed
\* A half is smaller, and there is no task for it nor for a part of it.
<1>8. ASSUME NEW r \in {a, b}
      PROVE  /\ r.loop = me.loop /\ r.first < r.last /\ r.last <= me.last /\ r \in Ranges
             /\ Within(r, me) /\ SizeOf(r) < SizeOf(me) /\ r # me
             /\ r \notin DOMAIN tasks
             /\ \A s \in DOMAIN tasks : ~Within(s, r)
  <2>1. /\ r.loop = me.loop /\ r.first < r.last /\ r.last <= me.last /\ r \in Ranges
        /\ Within(r, me) /\ SizeOf(r) < SizeOf(me) /\ r # me /\ ~Within(me, r)
    BY <1>2, <1>3 DEF Within, SizeOf
  <2>2. ASSUME NEW s \in DOMAIN tasks PROVE ~Within(s, r)
    <3>1. s \in Ranges
      BY DEF Core, TypeInv
    <3>2. Within(s, r) => Within(s, me)
      BY <1>3, <2>1, <3>1 DEF Within, Ranges
    <3> QED
      BY <1>7, <2>1, <3>2
  <2>3. Within(r, r)
    BY <2>1 DEF Within, Ranges
  <2> QED
    BY <2>1, <2>2, <2>3
<1>9. ASSUME NEW q \in Places, Filled(q), q # was
      PROVE  /\ Piece(q) \in Ranges /\ Piece(q) # me /\ Piece(q) # a /\ Piece(q) # b
             /\ q[1] # "split" => Apart(me, Piece(q)) /\ Apart(a, Piece(q)) /\ Apart(b, Piece(q))
  <2>1. /\ Piece(q) \in Ranges /\ Piece(q) # me
        /\ q[1] # "split" => Apart(me, Piece(q))
        /\ q[1] = "split" => Piece(q) \in DOMAIN tasks
    BY <1>4, <1>9, CoreViews DEF Views, RangesAre, JobsInv, ApartInv
  <2>2. CASE q[1] = "split"
    BY <1>8, <2>1, <2>2
  <2>3. CASE q[1] # "split"
    <3>1. ~Apart(me, a) /\ ~Apart(me, b)
      BY <1>2, <1>3 DEF Apart
    <3>2. Piece(q).first \in Nat /\ Piece(q).last \in Nat
      BY <2>1 DEF Ranges
    <3>3. Apart(a, Piece(q)) /\ Apart(b, Piece(q))
      BY <1>2, <1>3, <2>1, <2>3, <3>2 DEF Apart
    <3> QED
      BY <2>1, <2>3, <3>1, <3>3
  <2> QED
    BY <2>2, <2>3
<1>10. ASSUME NEW q \in Places, Filled(q)'
       PROVE  \/ q = left /\ Piece(q)' = a
              \/ q = right /\ Piece(q)' = b
              \/ q = mine /\ Piece(q)' = me
              \/ q # was /\ Filled(q) /\ Piece(q)' = Piece(q)
  BY <1>4, <1>5, <1>10
<1>11. PlacesInv'
  <2> SUFFICES ASSUME NEW q \in Places, Filled(q)' PROVE Placed(q)'
    BY DEF PlacesInv
  <2>1. CASE q = left \/ q = right
    <3>1. Piece(q)' \in {a, b} /\ q[1] = "todo"
      BY <1>4, <2>1
    <3>2. LoopSize[me.loop] \in Nat
      BY <1>3, LoopSizeAssumption
    <3>3. ASSUME NEW r \in {a, b}
          PROVE  /\ r.loop \in started /\ r.first <= r.last /\ r.last <= LoopSize[r.loop]
                 /\ r.first # r.last /\ r \notin DOMAIN tasks
                 /\ \A s \in DOMAIN tasks : ~Within(s, r)
      BY <1>3, <1>7, <1>8, <3>2 DEF Ranges
    <3> QED
      BY <1>1, <3>1, <3>3 DEF Placed
  <2>2. CASE q = mine
    BY <1>1, <1>2, <1>3, <1>4, <1>7, <2>2 DEF Placed
  <2>3. CASE Filled(q) /\ Piece(q)' = Piece(q)
    BY <1>1, <2>3 DEF JobsInv, PlacesInv, Placed
  <2> QED
    BY <1>10, <2>1, <2>2, <2>3
<1>12. ApartInv'
  <2> DEFINE Good(p, q) == /\ Piece(p)' # Piece(q)'
                           /\ p[1] # "split" /\ q[1] # "split" => Apart(Piece(p)', Piece(q)')
  <2> SUFFICES ASSUME NEW p \in Places, NEW q \in Places, Filled(p)', Filled(q)', p # q
               PROVE  Good(p, q)
    BY DEF ApartInv, Apart
  <2>1. a # b /\ Apart(a, b) /\ Apart(b, a)
    BY <1>2 DEF Apart
  <2>2. me # a /\ me # b
    BY <1>8
  <2>3. ASSUME NEW r \in Places, Filled(r), r # was, Piece(r)' = Piece(r),
               NEW s \in {left, right, mine}, Filled(s)'
        PROVE  Good(r, s) /\ Good(s, r)
    BY <1>4, <1>9, <2>3 DEF Apart
  <2>4. CASE p \in {left, right, mine} /\ q \in {left, right, mine}
    BY <1>4, <2>1, <2>2, <2>4
  <2>5. CASE p \in {left, right, mine} /\ q \notin {left, right, mine}
    BY <1>10, <2>3, <2>5
  <2>6. CASE p \notin {left, right, mine} /\ q \in {left, right, mine}
    BY <1>10, <2>3, <2>6
  <2>7. CASE p \notin {left, right, mine} /\ q \notin {left, right, mine}
    <3>1. /\ Filled(p) /\ Piece(p)' = Piece(p)
          /\ Filled(q) /\ Piece(q)' = Piece(q)
      BY <1>10, <2>7
    <3> QED
      BY <3>1 DEF JobsInv, ApartInv
  <2> QED
    BY <2>4, <2>5, <2>6, <2>7
<1>13. /\ \A r : Lies(r)' <=> (Lies(r) /\ r # me) \/ r \in {a, b}
       /\ Lies(me)
  <2>1. ASSUME NEW r PROVE Lies(r)' <=> (Lies(r) /\ r # me) \/ r \in {a, b}
    <3>1. ASSUME NEW q \in Places, Filled(q)', q[1] # "split", Piece(q)' = r
          PROVE  (Lies(r) /\ r # me) \/ r \in {a, b}
      BY <1>4, <1>9, <1>10, <3>1 DEF Lies
    <3>2. ASSUME NEW q \in Places, Filled(q), q[1] # "split", Piece(q) = r, r # me
          PROVE  Filled(q)' /\ Piece(q)' = r
      BY <1>4, <1>5, <1>6, <3>2
    <3>3. Lies(a)' /\ Lies(b)'
      BY <1>4 DEF Lies
    <3> HIDE DEF Filled, Piece
    <3>4. Lies(r) /\ r # me => Lies(r)'
      BY <3>2 DEF Lies
    <3>5. Lies(r)' => (Lies(r) /\ r # me) \/ r \in {a, b}
      BY <3>1 DEF Lies
    <3> QED
      BY <3>3, <3>4, <3>5
  <2>2. Lies(me)
    BY <1>4 DEF Lies
  <2> QED
    BY <2>1, <2>2
<1>14. /\ \A l \in Loops : l # me.loop => Pieces(l)' = Pieces(l)
       /\ me \in Pieces(me.loop)
       /\ Pieces(me.loop)' = (Pieces(me.loop) \ {me}) \cup {a, b}
  <2>1. \A l \in Loops : \A r :
            /\ r \in Pieces(l) <=> Lies(r) /\ r.loop = l
            /\ r \in Pieces(l)' <=> Lies(r)' /\ r.loop = l
    BY CoreViews, CoreViewsNext DEF Views, PiecesAre
  <2> HIDE DEF Lies
  <2>2. ASSUME NEW l \in Loops, l # me.loop PROVE Pieces(l)' = Pieces(l)
    BY <1>2, <1>13, <2>1, <2>2
  <2>3. me \in Pieces(me.loop)
    BY <1>3, <1>13, <2>1
  <2>4. Pieces(me.loop)' = (Pieces(me.loop) \ {me}) \cup {a, b}
    BY <1>2, <1>3, <1>13, <2>1
  <2> QED
    BY <2>2, <2>3, <2>4
<1>15. RunsInv'
  <2>1. \A i \in Int : i \in Indices(me) <=> i \in Indices(a) \/ i \in Indices(b)
    BY <1>2, <1>3 DEF Indices
  <2>2. ASSUME NEW l \in Loops, NEW i \in 0..(LoopSize[l] - 1)
        PROVE  Open(l, i)' <=> Open(l, i)
    <3>1. CASE l # me.loop
      BY <1>1, <1>14, <3>1 DEF Open
    <3>2. CASE l = me.loop
      <4>1. (\E r \in Pieces(l)' : i \in Indices(r)) <=> \E r \in Pieces(l) : i \in Indices(r)
        <5>1. i \in Int
          OBVIOUS
        <5> QED
          BY <1>14, <2>1, <3>2, <5>1
      <4> QED
        BY <1>1, <4>1 DEF Open
    <3> QED
      BY <3>1, <3>2
  <2> QED
    BY <1>1, <2>2 DEF JobsInv, RunsInv
<1>16. LoopsMove
  <2> SUFFICES ASSUME NEW l \in Loops PROVE [Loop(l)!LoopNext]_(Loop(l)!loopVars)
    BY DEF LoopsMove
  <2>1. CASE l # me.loop
    BY <1>1, <1>14, <2>1 DEF Loop!loopVars
  <2>2. CASE l = me.loop
    <3>1. LeftOf(me) = Loop(l)!LeftOf(me) /\ RightOf(me) = Loop(l)!RightOf(me)
      BY DEF LeftOf, RightOf, Middle, SizeOf,
             Loop!LeftOf, Loop!RightOf, Loop!Middle, Loop!SizeOf
    <3>2. Loop(l)!IsSplittable(me)
      BY <1>1 DEF IsSplittable, SizeOf, Loop!IsSplittable, Loop!SizeOf
    <3>3. Loop(l)!Split(me)
      BY <1>1, <1>2, <1>14, <2>2, <3>1, <3>2 DEF Loop!Split
    <3> QED
      BY <1>14, <2>2, <3>3 DEF Loop!LoopNext
  <2> QED
    BY <2>1, <2>2
<1>17. AddingInv' /\ TasksInv' /\ VictimInv'
  <2>1. Adding(t)'
    <3>1. \A i \in 1..Len(thread'[t].todo) : thread'[t].todo[i] \in {a, b}
      BY <1>3
    <3> QED
      BY <1>1, <1>8, <3>1 DEF Adding
  <2> QED
    BY <1>1, <2>1, AddingStays, TasksStayTree, VictimStays DEF JobsInv, At
<1>18. JobsCountUnfinished'
  <2>1. ASSUME NEW r \in DOMAIN tasks PROVE Alive(r)' <=> Alive(r)
    <3>1. ASSUME NEW q \in Places, Filled(q)', q[1] # "todo", Piece(q)' = r
          PROVE  \E s \in Places : Filled(s) /\ s[1] # "todo" /\ Piece(s) = r
      BY <1>4, <1>10, <3>1
    <3>2. ASSUME NEW q \in Places, Filled(q), q[1] # "todo", Piece(q) = r
          PROVE  \E s \in Places : Filled(s)' /\ s[1] # "todo" /\ Piece(s)' = r
      BY <1>4, <1>5, <1>6, <3>2
    <3> QED
      BY <3>1, <3>2, AliveStays
  <2>2. \A r : Children(r)' = Children(r) /\ Finishing(r)' = Finishing(r)
    BY <1>1 DEF Children, Finishing, Moves, At
  <2> QED
    BY <1>1, <2>1, <2>2, JobsAre, JobsAreNext DEF JobsInv
<1> QED
  BY <1>11, <1>12, <1>15, <1>16, <1>17, <1>18 DEF JobsInv

-----------------------------------------------------------------------------
(* The steps that leave the pieces of loops alone.                         *)

LEMMA GoesQuietly ==
    ASSUME Core, Core', JobsInv, NEW t \in Threads, thread[t].pc \notin Holding,
           UNCHANGED <<queue, tasks, runs, started>>,
           \/ \E p \in Steps \ (Holding \cup {"swap"}) : Goto(t, p)
           \/ \E s \in {"own", "first", "steal", "drain"} : Seek(t, s)
    PROVE  JobsInv' /\ LoopsMove
<1>1. Moves(t) /\ thread'[t].todo = <<>> /\ thread'[t].pc \notin Holding \cup {"swap"}
  BY GotoMoves, SeekMoves DEF Core, Holding
<1> QED
  BY <1>1, QuietKeeps DEF At

LEMMA StandsStill ==
    ASSUME Core, Core', JobsInv, UNCHANGED <<thread, queue, tasks, runs, started>>
    PROVE  JobsInv' /\ LoopsMove
<1>1. SamePlaces
  BY DEF SamePlaces, Filled, Piece
<1>2. /\ PlacesInv' /\ ApartInv' /\ RunsInv' /\ LoopsMove
      /\ \A r \in DOMAIN tasks : Alive(r)' <=> Alive(r)
  BY <1>1, SamePlacesKeep
<1>3. AddingInv' /\ TasksInv' /\ VictimInv'
  BY DEF JobsInv, AddingInv, Adding, TasksInv, VictimInv, At
<1>4. JobsCountUnfinished'
  <2>1. \A r : Children(r)' = Children(r) /\ Finishing(r)' = Finishing(r)
    BY DEF Children, Finishing, At
  <2> QED
    BY <1>2, <2>1, JobsAre, JobsAreNext DEF JobsInv
<1> QED
  BY <1>2, <1>3, <1>4 DEF JobsInv

\* A thread that has not found a task, or was slower than another one.

LEMMA MissedCounts ==
    ASSUME Core, Core', JobsInv, NEW t \in Threads, thread[t].pc \in {"look", "swap"}, Missed(t),
           UNCHANGED <<queue, tasks, runs, started>>
    PROVE  JobsInv' /\ LoopsMove
<1>1. thread[t].stage \in {"own", "first", "steal", "drain"}
  BY DEF Core, TypeInv, ThreadStates
<1>2. {"wait", "idle", "unregister"} \subseteq Steps \ (Holding \cup {"swap"})
  BY DEF Steps, Holding
<1>3. \/ \E p \in Steps \ (Holding \cup {"swap"}) : Goto(t, p)
      \/ \E s \in {"own", "first", "steal", "drain"} : Seek(t, s)
  BY <1>1, <1>2 DEF Missed
<1> QED
  BY <1>3, GoesQuietly DEF Holding

LEMMA LookAtCounts ==
    ASSUME Core, Core', JobsInv, NEW t \in Threads, NEW v \in Threads, LookAt(t, v)
    PROVE  JobsInv' /\ LoopsMove
<1>1. At(t, "look") /\ UNCHANGED <<queue, tasks, runs, started>>
  BY DEF LookAt, work
<1>2. CASE queue[v] = <<>>
  BY <1>1, <1>2, MissedCounts DEF LookAt, At
<1>3. CASE queue[v] # <<>>
  <2>1. /\ Moves(t) /\ thread'[t].pc = "swap" /\ thread'[t].victim \in Threads
    BY <1>3, LookAtMoves DEF FoundAt
  <2>2. thread'[t].todo = thread[t].todo
    <3>1. thread \in [Threads -> ThreadStates]
      BY DEF Core, TypeInv
    <3> QED
      BY <1>3, <3>1 DEF LookAt, ThreadStates
  <2> QED
    BY <1>1, <2>1, <2>2, QuietKeeps DEF At, Holding
<1> QED
  BY <1>2, <1>3

LEMMA ShareCounts ==
    ASSUME Core, Core', JobsInv, NEW t \in Threads, Share(t)
    PROVE  JobsInv' /\ LoopsMove
<1>1. /\ Moves(t) /\ At(t, "share") /\ thread'[t].pc = "run" /\ thread'[t].task = thread[t].task
      /\ UNCHANGED <<queue, tasks, runs, started>>
  BY ShareMoves DEF Share, work
<1>2. thread'[t].todo = thread[t].todo
  <2>1. thread \in [Threads -> ThreadStates]
    BY DEF Core, TypeInv
  <2> QED
    BY <2>1 DEF Share, ThreadStates
<1> QED
  BY <1>1, <1>2, QuietKeeps DEF At

LEMMA TaskStepCounts ==
    ASSUME Core, Core', JobsInv, NEW t \in Threads, TaskStep(t) \/ RunBody(t)
    PROVE  JobsInv' /\ LoopsMove
<1>1. ASSUME NEW v \in Threads, LookAt(t, v) PROVE JobsInv' /\ LoopsMove
  BY <1>1, LookAtCounts
<1>2. CASE LoseRace(t)
  <2>1. At(t, "swap") /\ Missed(t) /\ UNCHANGED <<queue, tasks, runs, started>>
    BY <1>2 DEF LoseRace, work
  <2> QED
    BY <2>1, MissedCounts DEF At
<1> QED
  BY <1>1, <1>2, PushTaskCounts, NotifyCounts, FinishCounts, TakeCounts, ShareCounts,
     RunSplitCounts, RunFunctionCounts
     DEF TaskStep, RunBody

LEMMA UnregisterCounts ==
    ASSUME Core, Core', JobsInv, NEW t \in Threads, UnregisterStep(t)
    PROVE  JobsInv' /\ LoopsMove
<1>1. /\ thread[t].pc \in {"unregister", "quiet", "erase", "resume"}
      /\ \E p \in {"quiet", "erase", "resume", "reap", "gone"} : Goto(t, p)
      /\ UNCHANGED <<queue, tasks, runs, started>>
  BY DEF UnregisterStep, Unregister, SeeQuiet, GiveUp, Erase, Resume, At, work
<1>2. {"quiet", "erase", "resume", "reap", "gone"} \subseteq Steps \ (Holding \cup {"swap"})
  BY DEF Steps, Holding
<1> QED
  BY <1>1, <1>2, GoesQuietly DEF Holding

LEMMA WorkerCounts ==
    ASSUME Core, Core', JobsInv, NEW w \in Workers, WorkerStep(w)
    PROVE  JobsInv' /\ LoopsMove
<1> DEFINE Ways == {"join", "top", "leave", "gate", "idle", "asleep", "woken"}
<1>1. /\ thread[w].pc \in {"start"} \cup Ways
      /\ (\E p \in Ways : Goto(w, p)) \/ \E s \in {"own", "drain"} : Seek(w, s)
      /\ UNCHANGED <<queue, tasks, runs, started>>
  BY DEF WorkerStep, Register, Activate, CheckStop, CheckPause, Deactivate, Wake, CheckWoken,
         At, work
<1>2. Ways \subseteq Steps \ (Holding \cup {"swap"}) /\ w \in Threads
  BY DEF Steps, Holding, Threads
<1> QED
  BY <1>1, <1>2, GoesQuietly DEF Holding

LEMMA MainCounts ==
    ASSUME Core, Core', JobsInv, MainCall \/ MainStep
    PROVE  JobsInv' /\ LoopsMove
<1>1. CASE \E l \in Loops : StartLoop(l)
  BY <1>1, StartLoopCounts
<1>2. CASE (\E b \in BOOLEAN : Pause(b)) \/ Reap \/ (Alarm /\ alarms > 0)
  BY <1>2, StandsStill DEF Pause, Reap, Alarm, work
<1>3. CASE \/ \E l \in Loops : BeginWait(l)
           \/ WaitTurn \/ WaitDone \/ Destroy \/ (Alarm /\ ~(alarms > 0)) \/ Join \/ Abandon
  <2>1. /\ thread[Main].pc \in {"user", "wait", "alarm", "reap"}
        /\ \/ \E p \in {"wait", "user", "alarm", "done"} : Goto(Main, p)
           \/ \E s \in {"own", "drain"} : Seek(Main, s)
        /\ UNCHANGED <<queue, tasks, runs, started>>
    BY <1>3 DEF BeginWait, WaitTurn, WaitDone, Destroy, Alarm, Join, Abandon, At, work
  <2>2. {"wait", "user", "alarm", "done"} \subseteq Steps \ (Holding \cup {"swap"})
        /\ Main \in Threads
    BY DEF Steps, Holding, Threads
  <2> QED
    BY <2>1, <2>2, GoesQuietly DEF Holding
<1> QED
  BY <1>1, <1>2, <1>3 DEF MainCall, MainStep

-----------------------------------------------------------------------------
(* The invariant.                                                          *)

LEMMA InitJobsInv == Init => JobsInv /\ \A l \in Loops : Loop(l)!LoopInit
<1> SUFFICES ASSUME Init PROVE JobsInv /\ \A l \in Loops : Loop(l)!LoopInit
  OBVIOUS
<1>1. ASSUME NEW t \in Threads
      PROVE  /\ thread[t].pc \in {"user", "start"} /\ thread[t].todo = <<>>
             /\ queue[t] = <<>>
  BY DEF Init, Resting
<1>2. \A q \in Places : ~Filled(q)
  <2> SUFFICES ASSUME NEW q \in Places PROVE ~Filled(q)
    OBVIOUS
  <2>1. q[2] \in Threads
    BY PlaceIs
  <2>2. Len(queue[q[2]]) = 0 /\ Len(thread[q[2]].todo) = 0
    BY <1>1, <2>1
  <2> QED
    BY <1>1, <2>1, <2>2 DEF Filled
<1>3. PlacesInv /\ ApartInv
  BY <1>2 DEF PlacesInv, ApartInv
<1>4. AddingInv /\ VictimInv
  BY <1>1 DEF AddingInv, VictimInv, At
<1>5. DOMAIN tasks = {} /\ started = {}
  BY DEF Init
<1>6. TasksInv /\ JobsCountUnfinished
  BY <1>5, FS_EmptySet DEF TasksInv, JobsCountUnfinished
<1>7. runs = [l \in Loops |-> [i \in 0..(LoopSize[l] - 1) |-> 0]]
  BY DEF Init
<1>8. RunsInv
  BY <1>5, <1>7 DEF RunsInv, Open
<1>9. ASSUME NEW l \in Loops PROVE Loop(l)!LoopInit
  <2>1. Pieces(l) = {}
    <3>1. \A t \in Threads : /\ Range(queue[t]) = {} /\ Range(thread[t].todo) = {}
                             /\ thread[t].pc \notin {"share", "run"}
      <4>1. Range(<<>>) = {}
        BY DEF Range
      <4> QED
        BY <1>1, <4>1
    <3> QED
      BY <3>1 DEF Pieces
  <2> QED
    BY <1>5, <1>7, <2>1 DEF Loop!LoopInit, Loop!LoopIndices
<1> QED
  BY <1>3, <1>4, <1>6, <1>8, <1>9 DEF JobsInv

LEMMA NextJobsInv ==
    ASSUME IInv, IInv', JobsInv, [Next]_vars
    PROVE  JobsInv' /\ LoopsMove
<1>1. Core
  BY DEF IInv, Core
<1>2. Core'
  BY DEF IInv, Core
<1>3. ASSUME NEW t \in Threads, TaskStep(t) \/ RunBody(t) \/ UnregisterStep(t)
      PROVE  JobsInv' /\ LoopsMove
  BY <1>1, <1>2, <1>3, TaskStepCounts, UnregisterCounts
<1>4. ASSUME NEW w \in Workers, WorkerStep(w) PROVE JobsInv' /\ LoopsMove
  BY <1>1, <1>2, <1>4, WorkerCounts
<1>5. CASE MainCall \/ MainStep
  BY <1>1, <1>2, <1>5, MainCounts
<1>6. CASE UNCHANGED vars
  BY <1>1, <1>2, <1>6, StandsStill DEF vars, work
<1> QED
  BY <1>3, <1>4, <1>5, <1>6 DEF Next, Ended

\* Where the pieces of loops are, who adds them to what, and how many jobs each
\* task has, for any workers, loops and pauses.
THEOREM JobsInvariant == Spec => []JobsInv
<1>1. IInv /\ IInv' /\ JobsInv /\ [Next]_vars => JobsInv'
  BY NextJobsInv
<1> QED
  BY <1>1, InitJobsInv, SchedulerInvariant, PTL DEF Spec

\* JobsCountUnfinished: Data::jobs of a task (Task::Execute and the walk up the
\* parents) counts its own body, its unfinished children and who is on the way
\* to take them off; the assertion that it is never negative follows.
THEOREM JobsAreCounted == Spec => []JobsCountUnfinished
  BY JobsInvariant, PTL DEF JobsInv

\* What Task.hpp asserts (lines 205 and 151): who takes a job off a task finds
\* one there, and who adds a child finds the parent unfinished.
AssertionsOfTask ==
    \A t \in Threads :
        /\ At(t, "finish") => tasks[thread[t].task].jobs > 0
        /\ At(t, "push") /\ thread[t].task # NoTask => tasks[thread[t].task].jobs > 0

\* AssertionsOfTask: no task is executed two times, and none that has finished is
\* given a child, in whatever order threads run, steal and finish the pieces.
THEOREM TaskAssertionsHold == Spec => []AssertionsOfTask
<1>1. ASSUME IInv, JobsInv, NEW t \in Threads, NEW r, r = thread[t].task,
             \/ At(t, "finish")
             \/ At(t, "push") /\ r # NoTask
      PROVE  tasks[r].jobs > 0
  <2>1. r \in DOMAIN tasks
    BY <1>1 DEF IInv, ThreadsInv, Fine, HoldsTask, At
  <2>2. /\ tasks[r].jobs = (IF Alive(r) THEN 1 ELSE 0)
                            + Cardinality(Children(r)) + Cardinality(Finishing(r))
        /\ Cardinality(Children(r)) \in Nat /\ Cardinality(Finishing(r)) \in Nat
    <3>1. IsFiniteSet(Children(r))
      BY <1>1, ChildrenAreFinite DEF JobsInv
    <3> QED
      BY <1>1, <2>1, <3>1, JobsAre, FinishingIsFinite, FS_CardinalityType DEF JobsInv
  <2>3. CASE At(t, "finish")
    <3>1. t \in Finishing(r)
      BY <1>1, <2>3 DEF Finishing
    <3>2. Cardinality(Finishing(r)) # 0
      BY <3>1, FinishingIsFinite, FS_EmptySet
    <3> QED
      BY <2>2, <3>2
  <2>4. CASE At(t, "push")
    <3>1. Alive(r)
      BY <1>1, <2>4 DEF Alive, Held, At
    <3> QED
      BY <2>2, <3>1
  <2> QED
    BY <1>1, <2>3, <2>4
<1>2. IInv /\ JobsInv => AssertionsOfTask
  BY <1>1 DEF AssertionsOfTask
<1> QED
  BY <1>2, SchedulerInvariant, JobsInvariant, PTL

\* RunsLoops: whatever the workers, the main thread and a pause do, each loop is
\* split and run as xr_parallel_for promises.
THEOREM LoopsAreRun == Spec => RunsLoops
<1>1. [](IInv /\ JobsInv) /\ [][Next]_vars => [][LoopsMove]_vars
  <2>1. IInv /\ IInv' /\ JobsInv /\ [Next]_vars => LoopsMove
    BY NextJobsInv
  <2> QED
    BY <2>1, PTL
<1>2. Init => \A l \in Loops : Loop(l)!LoopInit
  BY InitJobsInv
<1> QED
  BY <1>1, <1>2, SchedulerInvariant, JobsInvariant, PTL DEF Spec, RunsLoops, LoopsMove

-----------------------------------------------------------------------------
(* A loop that counts as finished is over.                                 *)

LEMMA LeastNumber ==
    ASSUME NEW S \in SUBSET Nat, S # {}
    PROVE  \E n \in S : \A m \in S : n <= m
<1> DEFINE R == {p \in Nat \X Nat : p[1] < p[2]}
<1>1. IsWellFoundedOn(OpToRel(<, Nat), Nat)
  BY NatLessThanWellFounded
<1>2. OpToRel(<, Nat) = R
  BY DEF OpToRel
<1>3. \E x \in S : \A y \in S : <<y, x>> \notin R
  <2>1. IsWellFoundedOn(R, Nat)
    BY <1>1, <1>2
  <2> HIDE DEF R
  <2>2. \E x \in S : \A y \in S : ~(<<y, x>> \in R)
    BY <2>1, WFMin
  <2> QED
    BY <2>2
<1>4. ASSUME NEW x \in S, NEW y \in S, <<y, x>> \notin R
      PROVE  x <= y
  <2>1. x \in Nat /\ y \in Nat
    OBVIOUS
  <2>2. ~(y < x)
    BY <1>4, <2>1
  <2> QED
    BY <2>1, <2>2
<1> QED
  BY <1>3, <1>4

\* A task that a body still has to return from, or a thread to take a job off,
\* or that has an unfinished child, is unfinished.

LEMMA Unfinished ==
    ASSUME Core, JobsInv, NEW r \in DOMAIN tasks,
           Alive(r) \/ Children(r) # {} \/ Finishing(r) # {}
    PROVE  tasks[r].jobs > 0
<1>1. /\ IsFiniteSet(Children(r)) /\ IsFiniteSet(Finishing(r))
      /\ Cardinality(Children(r)) \in Nat /\ Cardinality(Finishing(r)) \in Nat
      /\ Cardinality(Children(r)) = 0 <=> Children(r) = {}
      /\ Cardinality(Finishing(r)) = 0 <=> Finishing(r) = {}
  BY ChildrenAreFinite, FinishingIsFinite, FS_CardinalityType, FS_EmptySet DEF JobsInv
<1>2. tasks[r].jobs = (IF Alive(r) THEN 1 ELSE 0)
                            + Cardinality(Children(r)) + Cardinality(Finishing(r))
  BY JobsAre DEF JobsInv
<1>3. \A c \in Nat, f \in Nat :
         /\ 1 + c + f > 0
         /\ c # 0 \/ f # 0 => 0 + c + f > 0
  OBVIOUS
<1>4. CASE Alive(r)
  BY <1>1, <1>2, <1>3, <1>4
<1>5. CASE ~Alive(r)
  BY <1>1, <1>2, <1>3, <1>5
<1> QED
  BY <1>4, <1>5

\* The largest of some tasks of a loop.

LEMMA LargestTask ==
    ASSUME Core, TasksInv, NEW l, NEW S \in SUBSET DOMAIN tasks, S # {}, \A r \in S : r.loop = l
    PROVE  \E c \in S : \A d \in S : ~(SizeOf(c) < SizeOf(d))
<1> DEFINE Gap(c) == LoopSize[l] - SizeOf(c)
           Gaps == {Gap(c) : c \in S}
<1>1. ASSUME NEW c \in S
      PROVE  Gap(c) \in Nat /\ SizeOf(c) \in Nat /\ LoopSize[l] \in Nat
  <2>1. c \in Ranges
    BY DEF Core, TypeInv
  <2>2. /\ c.first \in Nat /\ c.last \in Nat /\ c.loop \in Loops /\ c.loop = l
        /\ c.first <= c.last /\ c.last <= LoopSize[l]
    BY <2>1 DEF Ranges, TasksInv
  <2> QED
    BY <2>1, <2>2, LoopSizeAssumption DEF SizeOf
<1>2. Gaps \in SUBSET Nat /\ Gaps # {}
  BY <1>1
<1> HIDE DEF Gap
<1>3. PICK n \in Gaps : \A k \in Gaps : n <= k
  BY <1>2, LeastNumber
<1>4. PICK c \in S : n = Gap(c)
  BY <1>3
<1>5. ASSUME NEW d \in S PROVE ~(SizeOf(c) < SizeOf(d))
  <2>1. Gap(c) <= Gap(d)
    BY <1>3, <1>4
  <2> QED
    BY <1>1, <2>1 DEF Gap
<1> QED
  BY <1>5

\* The largest unfinished task of a loop has no parent: its parent would be
\* larger, and unfinished.

LEMMA UnfinishedLoop ==
    ASSUME Core, JobsInv, NEW r \in DOMAIN tasks, tasks[r].jobs > 0
    PROVE  ~IsFinished(r.loop)
<1> DEFINE Bad == {c \in DOMAIN tasks : c.loop = r.loop /\ tasks[c].jobs > 0}
<1>1. PICK c \in Bad : \A d \in Bad : ~(SizeOf(c) < SizeOf(d))
  BY LargestTask DEF JobsInv
<1>2. tasks[c].parent = NoTask
  <2> SUFFICES ASSUME tasks[c].parent # NoTask PROVE FALSE
    OBVIOUS
  <2> DEFINE p == tasks[c].parent
  <2>1. p \in DOMAIN tasks
    BY DEF Core, TypeInv
  <2>2. p.loop = r.loop /\ SizeOf(c) < SizeOf(p)
    BY DEF JobsInv, TasksInv
  <2>3. Children(p) # {}
    BY DEF Children
  <2>4. p \in Bad
    BY <2>1, <2>2, <2>3, Unfinished
  <2> QED
    BY <1>1, <2>2, <2>4
<1>3. RootOf(r.loop) = c
  BY <1>2 DEF RootOf, JobsInv, TasksInv
<1> QED
  BY <1>3 DEF IsFinished

\* FinishedIsOver: when Task::IsFinished lets TaskManager::Wait return, so that
\* the function and what it captured go away, every index has been run and
\* nobody has a piece of the loop any more.
THEOREM FinishedLoopsAreOver == Spec => []FinishedIsOver
<1>1. IInv /\ JobsInv => FinishedIsOver
  <2> SUFFICES ASSUME IInv, JobsInv, NEW l \in Loops, IsFinished(l)
               PROVE  /\ \A i \in DOMAIN runs[l] : runs[l][i] = 1
                      /\ Pieces(l) = {}
                      /\ \A t \in Threads :
                            /\ thread[t].pc \in {"push", "notify", "finish"}
                            /\ thread[t].task # NoTask
                            => thread[t].task.loop # l
    BY DEF FinishedIsOver
  <2>1. Core
    BY DEF IInv, Core
  <2>2. ASSUME NEW r \in DOMAIN tasks, r.loop = l,
               Alive(r) \/ Children(r) # {} \/ Finishing(r) # {}
        PROVE  FALSE
    BY <2>1, <2>2, Unfinished, UnfinishedLoop
  <2>3. PICK root \in DOMAIN tasks : root.loop = l
    BY DEF IsFinished
  <2>4. ASSUME NEW t \in Threads, thread[t].pc \in {"push", "notify", "finish"},
               thread[t].task # NoTask
        PROVE  thread[t].task \in DOMAIN tasks /\ thread[t].task.loop # l
    <3>1. thread[t].task \in DOMAIN tasks
      BY <2>1, <2>4 DEF Core, ThreadsInv, Fine, HoldsTask
    <3>2. CASE thread[t].pc \in {"push", "notify"}
      <4>1. Alive(thread[t].task)
        BY <3>2 DEF Alive, Held
      <4> QED
        BY <2>2, <3>1, <4>1
    <3>3. CASE thread[t].pc = "finish"
      <4>1. t \in Finishing(thread[t].task)
        BY <3>3 DEF Finishing, At
      <4> QED
        BY <2>2, <3>1, <4>1
    <3> QED
      BY <2>4, <3>1, <3>2, <3>3
  <2>5. Pieces(l) = {}
    <3> SUFFICES ASSUME NEW r \in Pieces(l) PROVE FALSE
      OBVIOUS
    <3>1. PICK q \in Places : Filled(q) /\ q[1] # "split" /\ Piece(q) = r /\ r.loop = l
      BY <2>1, CoreViews DEF Views, PiecesAre, Lies
    <3>2. CASE q[1] # "todo"
      <4>1. r \in DOMAIN tasks /\ r \in Ranges
        BY <2>1, <3>1, <3>2, CoreViews DEF Views, RangesAre
      <4>2. Alive(r)
        BY <2>1, <3>1, <3>2, <4>1, CoreViews DEF Views, AliveAre
      <4> QED
        BY <2>2, <3>1, <4>1, <4>2
    <3>3. CASE q[1] = "todo"
      <4>0. PICK t \in Threads : \E i \in 1..Len(thread[t].todo) : thread[t].todo[i] = r
        BY <3>1, <3>3, PlaceIs DEF Filled, Piece
      <4>1. PICK i \in 1..Len(thread[t].todo) : thread[t].todo[i] = r
        BY <4>0
      <4>2. Adding(t)
        BY <4>1 DEF JobsInv, AddingInv
      <4>3. thread[t].task # NoTask
        <5> SUFFICES ASSUME thread[t].task = NoTask PROVE FALSE
          OBVIOUS
        <5>1. NoTask \notin DOMAIN tasks
          BY <2>1, NoTaskAssumption DEF Core, TypeInv
        <5>2. /\ Len(thread[t].todo) = 1
              /\ \A s \in DOMAIN tasks : s.loop # thread[t].todo[1].loop
          BY <4>2, <5>1 DEF Adding
        <5>3. i = 1
          BY <4>1, <5>2
        <5> QED
          BY <2>3, <3>1, <4>1, <5>2, <5>3
      <4>4. thread[t].pc \in {"push", "notify"} /\ thread[t].task.loop = l
        BY <3>1, <4>1, <4>2, <4>3 DEF Adding, Within
      <4> QED
        BY <2>4, <4>3, <4>4
    <3> QED
      BY <3>2, <3>3
  <2>6. \A i \in DOMAIN runs[l] : runs[l][i] = 1
    <3>1. l \in started
      BY <2>3 DEF JobsInv, TasksInv
    <3>2. \A i : ~Open(l, i)
      BY <2>5, <3>1 DEF Open
    <3> QED
      BY <3>2 DEF JobsInv, RunsInv
  <2> QED
    BY <2>4, <2>5, <2>6
<1> QED
  BY <1>1, SchedulerInvariant, JobsInvariant, PTL

-----------------------------------------------------------------------------
(* A loop that counts as finished does so from then on.                    *)

\* The largest task of a loop is that of the whole loop.

LEMMA LoopHasRoot ==
    ASSUME Core, TasksInv, NEW r \in DOMAIN tasks
    PROVE  \E c \in DOMAIN tasks : c.loop = r.loop /\ tasks[c].parent = NoTask
<1> DEFINE S == {c \in DOMAIN tasks : c.loop = r.loop}
<1>1. PICK c \in S : \A d \in S : ~(SizeOf(c) < SizeOf(d))
  BY LargestTask
<1>2. tasks[c].parent = NoTask
  <2> SUFFICES ASSUME tasks[c].parent # NoTask PROVE FALSE
    OBVIOUS
  <2>1. tasks[c].parent \in DOMAIN tasks
    BY DEF Core, TypeInv
  <2>2. tasks[c].parent.loop = r.loop /\ SizeOf(c) < SizeOf(tasks[c].parent)
    BY DEF TasksInv
  <2> QED
    BY <1>1, <2>1, <2>2
<1> QED
  BY <1>2

LEMMA RootIs ==
    ASSUME TasksInv, NEW c \in DOMAIN tasks, tasks[c].parent = NoTask
    PROVE  RootOf(c.loop) = c
  BY DEF RootOf, TasksInv

LEMMA RootIsNext ==
    ASSUME TasksInv', NEW c \in DOMAIN tasks', tasks'[c].parent = NoTask
    PROVE  RootOf(c.loop)' = c
  BY DEF RootOf, TasksInv

ThreadStep(t) ==
    TaskStep(t) \/ RunBody(t) \/ UnregisterStep(t) \/ (t \in Workers /\ WorkerStep(t))

\* A loop that counts as finished does so for ever, as far as workers go.

LEMMA SameTasksStayFinished ==
    ASSUME Core, TasksInv, TasksInv', NEW l, IsFinished(l),
           DOMAIN tasks \subseteq DOMAIN tasks',
           \A r \in DOMAIN tasks : r.loop = l => tasks'[r] = tasks[r]
    PROVE  IsFinished(l)'
<1>1. PICK r \in DOMAIN tasks : r.loop = l
  BY DEF IsFinished
<1>2. PICK c \in DOMAIN tasks : c.loop = l /\ tasks[c].parent = NoTask
  BY <1>1, LoopHasRoot
<1>3. c \in DOMAIN tasks' /\ tasks'[c] = tasks[c]
  BY <1>2
<1>4. RootOf(l) = c
  BY <1>2, RootIs
<1>5. RootOf(l)' = c
  BY <1>2, <1>3, RootIsNext
<1>6. tasks[c].jobs = 0
  BY <1>4 DEF IsFinished
<1> QED
  BY <1>2, <1>3, <1>5, <1>6 DEF IsFinished

LEMMA FinishedStays ==
    ASSUME Core, JobsInv, JobsInv', NEW w \in Workers, ThreadStep(w), NEW l, IsFinished(l)
    PROVE  IsFinished(l)'
<1>1. w \in Threads /\ w # Main /\ TasksInv /\ TasksInv' /\ Fine(w)
  BY ThreadsAssumption DEF Threads, JobsInv, Core, ThreadsInv
<1>2. CASE tasks' = tasks
  BY <1>2 DEF IsFinished, RootOf
<1>3. ASSUME NEW r \in DOMAIN tasks, Alive(r) \/ Finishing(r) # {} PROVE r.loop # l
  BY <1>3, Unfinished, UnfinishedLoop
<1>4. CASE Finish(w)
  <2> DEFINE r == thread[w].task
  <2>1. r \in DOMAIN tasks /\ w \in Finishing(r)
    BY <1>1, <1>4, FinishMoves DEF Finishing
  <2>2. r.loop # l
    BY <1>3, <2>1
  <2>3. DOMAIN tasks' = DOMAIN tasks /\ \A s \in DOMAIN tasks : s # r => tasks'[s] = tasks[s]
    BY <1>4 DEF Finish
  <2> HIDE DEF r
  <2>4. \A s \in DOMAIN tasks : s.loop = l => tasks'[s] = tasks[s]
    BY <2>2, <2>3
  <2> QED
    BY <1>1, <2>3, <2>4, SameTasksStayFinished
<1>5. CASE PushTask(w)
  <2> DEFINE r == thread[w].task
             new == Head(thread[w].todo)
  <2>1. At(w, "push") /\ thread[w].todo # <<>> /\ thread[w].todo \in Seq(Ranges)
    BY <1>1, <1>5, PushTaskMoves
  <2>2. r \in DOMAIN tasks /\ NoTask \notin DOMAIN tasks
    BY <1>1, <2>1, NoTaskAssumption DEF Fine, HoldsTask, At, Core, TypeInv
  <2>3. Alive(r)
    BY <1>1, <2>1 DEF Alive, Held, At
  <2>4. new \notin DOMAIN tasks
    <3>0. 1 \in Nat /\ 1 \in 1..Len(thread[w].todo)
      BY <2>1
    <3>1. <<"todo", w, 1>> \in Places /\ Filled(<<"todo", w, 1>>)
          /\ Piece(<<"todo", w, 1>>) = thread[w].todo[1]
      BY <1>1, <3>0, KindsOfPlaces
    <3>2. thread[w].todo[1] \notin DOMAIN tasks
      BY <3>1 DEF JobsInv, PlacesInv, Placed
    <3> QED
      BY <2>1, <3>2
  <2>5. r.loop # l
    BY <1>3, <2>2, <2>3
  <2>6. /\ DOMAIN tasks' = DOMAIN tasks \cup {new}
        /\ \A s \in DOMAIN tasks : s # r => tasks'[s] = tasks[s]
    <3>1. tasks' = [s \in DOMAIN tasks \cup {new} |->
                        IF s = new THEN [jobs |-> 1, parent |-> r] ELSE Adopted(r)[s]]
      BY <1>5 DEF PushTask
    <3>2. \A s \in DOMAIN tasks : s # r => Adopted(r)[s] = tasks[s]
      BY <2>2 DEF Adopted
    <3> HIDE DEF r, new
    <3> QED
      BY <2>4, <3>1, <3>2
  <2> HIDE DEF r, new
  <2>7. \A s \in DOMAIN tasks : s.loop = l => tasks'[s] = tasks[s]
    BY <2>5, <2>6
  <2> QED
    BY <1>1, <2>6, <2>7, SameTasksStayFinished
<1>6. PushTask(w) \/ Finish(w) \/ tasks' = tasks
  BY DEF ThreadStep, TaskStep, RunBody, UnregisterStep, WorkerStep, Notify, LookAt, Take,
         LoseRace, Share, RunSplit, RunFunction, Unregister, SeeQuiet, GiveUp, Erase, Resume,
         Register, Activate, CheckStop, CheckPause, Deactivate, Wake, CheckWoken, work
<1> QED
  BY <1>2, <1>4, <1>5, <1>6

-----------------------------------------------------------------------------
(* A task that the main thread does not work on does not lie while all     *)
(* workers sleep.                                                          *)

\* A worker that will look into the queue of the main thread before it sleeps,
\* or wake another one.
Fresh(w) ==
    \/ thread[w].pc \in {"start", "join", "top", "gate", "woken"} \cup Holding
    \/ At(w, "look") /\ thread[w].stage \in {"own", "first"}
    \/ /\ At(w, "swap")
       /\ \/ thread[w].stage = "own"
          \/ thread[w].stage = "first" /\ thread[w].victim = Main /\ StillThere(w)

\* As long as nobody pauses or stops the scheduler, the main thread is the first
\* on the list and no worker is told to sleep.
AwakeInv ==
    /\ pauses \in Nat
    /\ ~shouldStop => list # <<>> /\ list[1] = Main
    /\ pauses = 0 /\ ~shouldStop => ~shouldPause
Unanswered ==
    /\ pauses = 0
    /\ At(Main, "user") /\ queue[Main] # <<>>
    /\ \A l \in started : ~IsFinished(l)
Answered == signaled \/ \E w \in Workers : Fresh(w)
WakeInv == AwakeInv /\ (Unanswered => Answered)

LEMMA AwakeStays ==
    ASSUME Core, AwakeInv, [Next]_vars
    PROVE  AwakeInv'
<1> USE DEF AwakeInv
<1>1. CASE UNCHANGED control
  BY <1>1 DEF control
<1>2. ASSUME NEW w \in Workers, Register(w) PROVE AwakeInv'
  <2>1. list \in Seq(Threads) /\ list' = Append(list, w) /\ w \in Threads
        /\ UNCHANGED <<pauses, shouldStop, shouldPause>>
    BY <1>2 DEF Core, TypeInv, Register, Threads
  <2>2. list # <<>> => list' # <<>> /\ list'[1] = list[1]
    BY <2>1
  <2> QED
    BY <2>1, <2>2
<1>3. ASSUME NEW w \in Workers, Activate(w) \/ Deactivate(w) PROVE AwakeInv'
  BY <1>3 DEF Activate, Deactivate
<1>4. ASSUME NEW b \in BOOLEAN, Pause(b) PROVE AwakeInv'
  BY <1>4 DEF Pause
<1>5. CASE Destroy \/ Alarm \/ Abandon
  BY <1>5 DEF Destroy, Alarm, Abandon
<1>6. ASSUME NEW t \in Threads, UnregisterStep(t) PROVE AwakeInv'
  <2>1. shouldStop /\ shouldStop' = shouldStop
    BY <1>6, QuitMoves
  <2>2. pauses' = pauses
    BY <1>6 DEF UnregisterStep, Unregister, SeeQuiet, GiveUp, Erase, Resume, control
  <2> QED
    BY <2>1, <2>2
<1>7. ASSUME NEW t \in Threads, TaskStep(t) \/ RunBody(t) PROVE UNCHANGED control
  BY <1>7 DEF TaskStep, RunBody, PushTask, Notify, Finish, LookAt, Take, LoseRace, Share,
              RunSplit, RunFunction
<1>8. ASSUME NEW w \in Workers, WorkerStep(w)
      PROVE  UNCHANGED control \/ Register(w) \/ Activate(w) \/ Deactivate(w)
  BY <1>8 DEF WorkerStep, CheckStop, CheckPause, Wake, CheckWoken
<1>9. CASE MainCall
  BY <1>1, <1>4, <1>5, <1>9 DEF MainCall, StartLoop, BeginWait
<1>10. CASE MainStep
  BY <1>1, <1>5, <1>10 DEF MainStep, WaitTurn, WaitDone, Reap, Join
<1>11. CASE UNCHANGED vars
  BY <1>1, <1>11 DEF vars
<1> QED
  BY <1>1, <1>2, <1>3, <1>6, <1>7, <1>8, <1>9, <1>10, <1>11 DEF Next, Ended

\* A worker that is awake finds the task or is still on its way to it.

LEMMA FreshGoesOn ==
    ASSUME Core, AwakeInv, Unanswered, NEW w \in Workers, Fresh(w), ThreadStep(w)
    PROVE  Fresh(w)'
<1>1. /\ w \in Threads /\ w # Main /\ Main \in Threads /\ TypeInv /\ Fine(w)
      /\ ~shouldStop /\ ~shouldPause /\ list # <<>> /\ list[1] = Main /\ queue[Main] # <<>>
      /\ ~Leaving(w) /\ queue \in [Threads -> Seq(Ranges)]
  <2>1. w \in Threads /\ w # Main /\ Main \in Threads /\ TypeInv /\ Fine(w) /\ Fine(Main)
    BY ThreadsAssumption DEF Threads, Core, ThreadsInv
  <2>2. ~shouldStop
    BY <2>1 DEF Fine, Leaving, Draining, Unanswered, At, Busy, Quitting
  <2> QED
    BY <2>1, <2>2 DEF Fine, AwakeInv, Unanswered, TypeInv
<1> USE DEF Holding
<1>2. CASE PushTask(w)
  BY <1>1, <1>2, PushTaskMoves DEF Fresh
<1>3. CASE Notify(w)
  <2>1. At(w, "notify") /\ thread[w].task # NoTask
    BY <1>1, <1>3, NoTaskAssumption, NotifyMoves DEF Fine, HoldsTask, At, TypeInv
  <2> QED
    BY <1>1, <1>3, <2>1, NotifyMoves DEF Fresh
<1>4. CASE Finish(w)
  <2>1. thread[w].stage # "drain"
    BY <1>1, <1>4, FinishMoves DEF Leaving, Draining, At, Busy
  <2> QED
    BY <1>1, <1>4, <2>1, FinishMoves DEF Fresh
<1>5. CASE RunBody(w)
  BY <1>1, <1>5, RunSplitMoves, RunFunctionMoves DEF RunBody, Fresh
<1>6. CASE Share(w)
  BY <1>1, <1>6, ShareMoves DEF Fresh
<1>7. CASE Take(w)
  BY <1>1, <1>7, TakeMoves DEF Fresh
<1>8. CASE LoseRace(w)
  <2>1. At(w, "swap") /\ ~StillThere(w) /\ Missed(w)
    BY <1>8 DEF LoseRace
  <2>2. thread[w].stage = "own"
    BY <2>1 DEF Fresh, At
  <2>3. Seek(w, "first")
    BY <2>1, <2>2 DEF Missed
  <2> QED
    BY <1>1, <2>3, SeekMoves DEF Fresh, At
<1>9. ASSUME NEW v \in Threads, LookAt(w, v) PROVE Fresh(w)'
  <2>1. /\ At(w, "look") /\ v \in Victims(w) /\ queue' = queue
        /\ (queue[v] = <<>> /\ Missed(w)) \/ FoundAt(w, v)
    BY <1>1, <1>9, LookAtMoves
  <2>2. thread[w].stage \in {"own", "first"}
    BY <2>1 DEF Fresh, At
  <2>3. CASE thread[w].stage = "own"
    <3>1. CASE FoundAt(w, v)
      BY <2>3, <3>1 DEF FoundAt, Fresh, At
    <3>2. CASE Missed(w)
      <4>1. Seek(w, "first")
        BY <2>3, <3>2 DEF Missed
      <4> QED
        BY <1>1, <4>1, SeekMoves DEF Fresh, At
    <3> QED
      BY <2>1, <3>1, <3>2
  <2>4. CASE thread[w].stage = "first"
    <3>1. v = Main
      BY <1>1, <2>1, <2>4 DEF Victims
    <3>2. /\ thread'[w].pc = "swap" /\ thread'[w].stage = "first" /\ thread'[w].victim = Main
          /\ thread'[w].task = queue[Main][1]
      BY <1>1, <2>1, <2>4, <3>1 DEF FoundAt
    <3>3. StillThere(w)'
      BY <1>1, <2>1, <3>2 DEF StillThere
    <3> QED
      BY <3>2, <3>3 DEF Fresh, At
  <2> QED
    BY <2>2, <2>3, <2>4
<1>10. ~UnregisterStep(w)
  <2> SUFFICES ASSUME UnregisterStep(w) PROVE FALSE
    OBVIOUS
  <2> QED
    BY <1>1, QuitMoves
<1>11. CASE WorkerStep(w)
  <2>1. \E p \in {"join", "top", "gate", "woken"} : Goto(w, p) \/ Seek(w, "own")
    BY <1>1, <1>11
       DEF WorkerStep, Register, Activate, CheckStop, CheckPause, Deactivate, Wake, CheckWoken,
           Fresh, At
  <2>2. {"join", "top", "gate", "woken"} \subseteq Steps
    BY DEF Steps
  <2> QED
    BY <1>1, <2>1, <2>2, GotoMoves, SeekMoves DEF Fresh, At
<1> QED
  BY <1>2, <1>3, <1>4, <1>5, <1>6, <1>7, <1>8, <1>9, <1>10, <1>11 DEF ThreadStep, TaskStep

\* Only a worker that takes the task itself is in the way of another one.

LEMMA OthersStayFresh ==
    ASSUME Core, Unanswered, NEW w \in Workers, ThreadStep(w), Moves(w),
           NEW u \in Workers, u # w, Fresh(u)
    PROVE  Fresh(u)' \/ Fresh(w)'
<1>1. /\ w \in Threads /\ w # Main /\ u \in Threads /\ Main \in Threads
      /\ queue \in [Threads -> Seq(Ranges)] /\ thread'[u] = thread[u]
  BY ThreadsAssumption DEF Threads, Core, TypeInv, Moves
<1>2. CASE Take(w)
  BY <1>1, <1>2, TakeMoves DEF Fresh, Holding
<1>3. CASE queue'[Main] = queue[Main]
  BY <1>1, <1>3 DEF Fresh, StillThere, At
<1>4. Take(w) \/ queue'[Main] = queue[Main]
  BY <1>1
     DEF ThreadStep, TaskStep, RunBody, UnregisterStep, WorkerStep, PushTask, Notify, Finish,
         LookAt, LoseRace, Share, RunSplit, RunFunction, Unregister, SeeQuiet, GiveUp, Erase,
         Resume, Register, Activate, CheckStop, CheckPause, Deactivate, Wake, CheckWoken, work
<1> QED
  BY <1>2, <1>3, <1>4
LEMMA ThreadMoves ==
    ASSUME Core, NEW t \in Threads, ThreadStep(t)
    PROVE  Moves(t)
<1>1. TypeInv /\ thread \in [Threads -> ThreadStates]
  BY DEF Core, TypeInv
<1>2. ASSUME NEW v \in Threads, LookAt(t, v) PROVE Moves(t)
  BY <1>1, <1>2, LookAtMoves, MissedMoves DEF FoundAt
<1>3. CASE LoseRace(t)
  BY <1>1, <1>3, MissedMoves DEF LoseRace
<1>4. CASE t \in Workers /\ WorkerStep(t)
  BY <1>1, <1>4
     DEF WorkerStep, Register, Activate, CheckStop, CheckPause, Deactivate, Wake, CheckWoken,
         Goto, Seek, Moves
<1> QED
  BY <1>2, <1>3, <1>4, PushTaskMoves, NotifyMoves, FinishMoves, TakeMoves, ShareMoves,
     RunSplitMoves, RunFunctionMoves, QuitMoves DEF ThreadStep, TaskStep, RunBody

LEMMA WorkersStepWakes ==
    ASSUME Core, JobsInv, JobsInv', WakeInv, NEW w \in Workers, ThreadStep(w), Unanswered'
    PROVE  Answered'
<1>1. /\ w \in Threads /\ w # Main /\ Main \in Threads /\ Moves(w)
      /\ thread'[Main] = thread[Main] /\ queue \in [Threads -> Seq(Ranges)]
  BY ThreadMoves, ThreadsAssumption DEF Threads, Core, TypeInv, Moves
<1>2. Unanswered
  <2>1. queue[Main] # <<>>
    <3>1. CASE Take(w)
      <4>1. queue[Main] = <<>> => queue'[Main] = <<>>
        BY <1>1, <3>1, TakeMoves
      <4> QED
        BY <4>1 DEF Unanswered
    <3>2. CASE queue'[Main] = queue[Main]
      BY <3>2 DEF Unanswered
    <3>3. Take(w) \/ queue'[Main] = queue[Main]
      BY <1>1
         DEF ThreadStep, TaskStep, RunBody, UnregisterStep, WorkerStep, PushTask, Notify, Finish,
             LookAt, LoseRace, Share, RunSplit, RunFunction, Unregister, SeeQuiet, GiveUp, Erase,
             Resume, Register, Activate, CheckStop, CheckPause, Deactivate, Wake, CheckWoken, work
    <3> QED
      BY <3>1, <3>2, <3>3
  <2>2. pauses' = pauses /\ started' = started
    BY DEF ThreadStep, TaskStep, RunBody, UnregisterStep, WorkerStep, PushTask, Notify, Finish,
           LookAt, Take, LoseRace, Share, RunSplit, RunFunction, Unregister, SeeQuiet, GiveUp,
           Erase, Resume, Register, Activate, CheckStop, CheckPause, Deactivate, Wake, CheckWoken,
           work, control
  <2>3. ASSUME NEW l \in started, IsFinished(l) PROVE FALSE
    BY <2>2, <2>3, FinishedStays DEF Unanswered
  <2> QED
    BY <1>1, <2>1, <2>2, <2>3 DEF Unanswered, At
<1>3. AwakeInv /\ Answered
  BY <1>2 DEF WakeInv
<1>4. CASE \E u \in Workers : Fresh(u)
  <2>1. PICK u \in Workers : Fresh(u)
    BY <1>4
  <2>2. Fresh(u)' \/ Fresh(w)'
    BY <1>1, <1>2, <1>3, <2>1, FreshGoesOn, OthersStayFresh
  <2> QED
    BY <2>2 DEF Answered
<1>5. CASE signaled
  <2>1. signaled' \/ Wake(w)
    BY <1>5
       DEF ThreadStep, TaskStep, RunBody, UnregisterStep, WorkerStep, PushTask, Notify, Finish,
           LookAt, Take, LoseRace, Share, RunSplit, RunFunction, Unregister, SeeQuiet, GiveUp,
           Erase, Resume, Register, Activate, CheckStop, CheckPause, Deactivate, CheckWoken, Set
  <2>2. CASE Wake(w)
    <3>1. thread'[w].pc = "woken"
      BY <1>1, <2>2, GotoMoves DEF Wake, Core, Steps
    <3> QED
      BY <3>1 DEF Fresh, Answered
  <2> QED
    BY <2>1, <2>2 DEF Answered
<1> QED
  BY <1>3, <1>4, <1>5 DEF Answered

\* The main thread comes back to the engine's code with a signal set, or from a
\* Wait whose loop is finished.

LEMMA MainsTaskWakes ==
    ASSUME Core, TaskStep(Main) \/ RunBody(Main) \/ UnregisterStep(Main), Unanswered'
    PROVE  Answered'
<1>1. Main \in Threads /\ TypeInv /\ thread'[Main].pc = "user"
  BY DEF Threads, Core, Unanswered, At
<1>2. CASE Notify(Main)
  BY <1>2 DEF Notify, Set, Answered
<1>3. ASSUME NEW v \in Threads, LookAt(Main, v) PROVE FALSE
  BY <1>1, <1>3, LookAtMoves, MissedMoves DEF FoundAt, MissedOne
<1>4. CASE LoseRace(Main)
  BY <1>1, <1>4, MissedMoves DEF LoseRace, MissedOne
<1> QED
  BY <1>1, <1>2, <1>3, <1>4, PushTaskMoves, FinishMoves, TakeMoves, ShareMoves,
     RunSplitMoves, RunFunctionMoves, QuitMoves DEF TaskStep, RunBody

LEMMA MainsCallWakes ==
    ASSUME Core, JobsInv, WakeInv, MainCall \/ MainStep, Unanswered'
    PROVE  Answered'
<1>1. /\ Main \in Threads /\ TypeInv /\ thread'[Main].pc = "user"
      /\ pauses \in Nat /\ pauses' = 0
  BY DEF Threads, Core, Unanswered, At, WakeInv, AwakeInv
<1>2. ASSUME NEW l \in Loops, StartLoop(l) \/ BeginWait(l) PROVE FALSE
  BY <1>1, <1>2, StartLoopMoves, GotoMoves DEF BeginWait, Steps
<1>3. ASSUME NEW b \in BOOLEAN, Pause(b) PROVE FALSE
  <2>1. pauses' = pauses + 1
    BY <1>3 DEF Pause
  <2> QED
    BY <1>1, <2>1
<1>4. CASE WaitDone
  <2>1. IsFinished(waitFor) /\ tasks' = tasks /\ started' = started
    BY <1>4 DEF WaitDone, work
  <2>2. waitFor \in started
    BY <2>1 DEF IsFinished, JobsInv, TasksInv
  <2>3. \A l \in started : ~IsFinished(l)
    BY <2>1 DEF Unanswered, IsFinished, RootOf
  <2> QED
    BY <2>1, <2>2, <2>3
<1>5. ~WaitTurn /\ ~Destroy /\ ~Join /\ ~Abandon /\ ~Alarm
  <2>1. {"alarm", "done"} \subseteq Steps
    BY DEF Steps
  <2>2. ~WaitTurn
    BY <1>1, SeekMoves DEF WaitTurn
  <2>3. ~Destroy /\ ~Join /\ ~Abandon
    BY <1>1, <2>1, GotoMoves DEF Destroy, Join, Abandon
  <2>4. ~Alarm
    BY <1>1, SeekMoves DEF Alarm, At
  <2> QED
    BY <2>2, <2>3, <2>4
<1>6. CASE Reap
  BY <1>6 DEF Reap, Answered
<1> QED
  BY <1>2, <1>3, <1>4, <1>5, <1>6 DEF MainCall, MainStep

LEMMA NextWakeInv ==
    ASSUME IInv, IInv', JobsInv, WakeInv, [Next]_vars
    PROVE  WakeInv'
<1>1. Core
  BY DEF IInv, Core
<1>2. AwakeInv'
  BY <1>1, AwakeStays DEF WakeInv
<1>3. JobsInv'
  BY NextJobsInv
<1>4. ASSUME Unanswered' PROVE Answered'
  <2>1. ASSUME NEW t \in Threads, TaskStep(t) \/ RunBody(t) \/ UnregisterStep(t)
        PROVE  Answered'
    <3>1. CASE t \in Workers
      <4>1. ThreadStep(t)
        BY <2>1 DEF ThreadStep
      <4> QED
        BY <1>1, <1>3, <1>4, <3>1, <4>1, WorkersStepWakes
    <3>2. CASE t = Main
      BY <1>1, <1>4, <2>1, <3>2, MainsTaskWakes
    <3> QED
      BY <3>1, <3>2 DEF Threads
  <2>2. ASSUME NEW w \in Workers, WorkerStep(w) PROVE Answered'
    BY <1>1, <1>3, <1>4, <2>2, WorkersStepWakes DEF ThreadStep
  <2>3. CASE MainCall \/ MainStep
    BY <1>1, <1>4, <2>3, MainsCallWakes
  <2>4. CASE UNCHANGED vars
    <3>1. UNCHANGED <<thread, queue, tasks, started, signaled, pauses>>
      BY <2>4 DEF vars, work, control
    <3>2. \A l : IsFinished(l) => IsFinished(l)'
      BY <3>1 DEF IsFinished, RootOf
    <3>3. Unanswered
      BY <1>4, <3>1, <3>2 DEF Unanswered, At
    <3>4. \A w \in Workers : Fresh(w) => Fresh(w)'
      BY <3>1 DEF Fresh, StillThere, At
    <3> QED
      BY <3>1, <3>3, <3>4 DEF WakeInv, Answered
  <2> QED
    BY <2>1, <2>2, <2>3, <2>4 DEF Next, Ended
<1> QED
  BY <1>2, <1>4 DEF WakeInv

LEMMA InitWakeInv == Init => WakeInv
<1> SUFFICES ASSUME Init PROVE WakeInv
  OBVIOUS
<1>1. Main \in Threads /\ queue[Main] = <<>>
  BY DEF Init, Threads
<1>2. list = <<Main>> /\ pauses = 0 /\ ~shouldPause
  BY DEF Init
<1> QED
  BY <1>1, <1>2 DEF WakeInv, AwakeInv, Unanswered

\* NobodyOversleeps: Event::Set in TaskManager::PushTask, which remembers one
\* signal however often it is called, does not let a task lie while all workers
\* sleep, as long as nobody pauses the scheduler or waits for another loop.
THEOREM NoSignalIsLost == Spec => []NobodyOversleeps
<1>1. IInv /\ JobsInv /\ WakeInv => NobodyOversleeps
  BY DEF WakeInv, Unanswered, Answered, NobodyOversleeps, Fresh, Holding, At
<1>2. IInv /\ IInv' /\ JobsInv /\ WakeInv /\ [Next]_vars => WakeInv'
  BY NextWakeInv
<1> QED
  BY <1>1, <1>2, InitWakeInv, SchedulerInvariant, JobsInvariant, PTL DEF Spec
=============================================================================
