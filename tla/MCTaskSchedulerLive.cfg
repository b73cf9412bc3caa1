SPECIFICATION SettledSpec
CONSTANTS
    w1 = w1
    w2 = w2
    long = long
    short = short
    Main = main
    Workers <- Pair
    Loops <- OneLoop
    LoopSize <- Sizes
    MaxPauses = 1
    NoTask = NoTask
    NoThread = NoThread
    NoLoop = NoLoop
PROPERTIES
    WaitReturns
    DestroyReturns
