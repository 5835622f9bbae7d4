CONSTANTS
    Event = {e1}
    Config = {c1}
    Worker = {w1, w2}
    MaxAttempts = 2
    AbortAfter = 3
    RetryDelay <- MCRetryDelay
    StaleAge = 2
    BatchSize = 1
    ClockSkew = 1
    JobDeadline = 1
    MaxTime = 7
    MaxGeneration = 1
SYMMETRY Symmetry
SPECIFICATION HSpec
INVARIANTS
    RequestsWithinMaxAttempts
