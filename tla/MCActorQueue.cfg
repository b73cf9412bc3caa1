SPECIFICATION FairSpec
CONSTANTS
    Contexts = {c1, c2}
    MaxRequests = 3
    None = None
INVARIANTS
    TypeOK
    ResultBelongsToRequest
    NoLostWakeup
    QuietAfterShutdown
PROPERTIES
    EveryRequestResolves
    KeepsPromise
    ShutdownReturns
