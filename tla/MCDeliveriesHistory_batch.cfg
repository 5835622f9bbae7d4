CONSTANTS
    Event = {e1, e2}
    Config = {c1}
    Worker = {w1, w2}
    MaxAttempts = 1
    AbortAfter = 1
    RetryDelay <- MCRetryDelay
    StaleAge = 1
    BatchSize = 2
    ClockSkew = 1
    JobDeadline = 0
    MaxTime = 3
    MaxGeneration = 1
SYMMETRY Symmetry
SPECIFICATION HSpec
INVARIANTS
    ExclusiveDispatch
PROPERTIES
    CancelJustified
