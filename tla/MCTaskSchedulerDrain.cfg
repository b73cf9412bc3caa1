SPECIFICATION Spec
CONSTANTS
    w1 = w1
    w2 = w2
    long = long
    short = short
    Main = main
    Workers <- Pair
    Loops <- OneLoop
    LoopSize <- Sizes
    MaxPauses = 0
    NoTask = NoTask
    NoThread = NoThread
    NoLoop = NoLoop
INVARIANTS
    FinishAllPendingTasks
