-------------------------- MODULE MCTaskScheduler --------------------------
EXTENDS TaskScheduler
CONSTANTS w1, w2, long, short
Pair == {w1, w2}
OneLoop == {long}
TwoLoops == {long, short}
Sizes == [l \in Loops |-> IF l = long THEN 2 ELSE 1]
\* The engine has started: both workers sleep, nothing has been asked of them.
Settled ==
    /\ thread = [t \in Threads |-> Resting(IF t = Main THEN "user" ELSE "asleep")]
    /\ queue = [t \in Threads |-> <<>>]
    /\ tasks = <<>>
    /\ runs = [l \in Loops |-> [i \in 0..(LoopSize[l] - 1) |-> 0]]
    /\ started = {} /\ waitFor = NoLoop
    /\ list = <<Main, w1, w2>>
    /\ lock = NoThread
    /\ active = 0 /\ alarms = 0 /\ pauses = 0
    /\ signaled = FALSE /\ shouldPause = FALSE /\ shouldStop = FALSE /\ gaveUp = FALSE
SettledSpec == Settled /\ [][Next]_vars /\ ThreadFairness
WorkerSymmetry == Permutations(Pair)
=============================================================================
