SPECIFICATION Spec
CONSTANTS
    Clients = {c1, c2}
    Nobody = Nobody
    MaxSends = 2
    BufferSize = 1
    PipeFatal = TRUE
INVARIANTS
    AnswersAreOwn
\* The process may be gone, and the clients with it.
CHECK_DEADLOCK FALSE
