CONSTANTS
    Event = {e1}
    Config = {c1}
    Worker = {w1, w2}
    MaxAttempts = 2
    AbortAfter = 3
    RetryDelay <- MCRetryDelay
    StaleAge = 2
    BatchSize = 1
    ClockSkew = 0
    JobDeadline = 1
    MaxTime = 4
    MaxGeneration = 1
SYMMETRY Symmetry
SPECIFICATION Spec
INVARIANTS
    NoPendingWhenOff
