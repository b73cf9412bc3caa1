SPECIFICATION Spec
CONSTANTS
    w1 = w1
    w2 = w2
    long = long
    short = short
    Main = main
    Workers <- Pair
    Loops <- TwoLoops
    LoopSize <- Sizes
    MaxPauses = 0
    NoTask = NoTask
    NoThread = NoThread
    NoLoop = NoLoop
SYMMETRY WorkerSymmetry
INVARIANTS
    JobsCountUnfinished
    FinishedIsOver
    VictimsAreThere
    NobodyOversleeps
PROPERTIES
    RunsLoops
