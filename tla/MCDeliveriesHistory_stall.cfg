CONSTANTS
    Event = {e1}
    Config = {c1}
    Worker = {w1, w2}
    MaxAttempts = 2
    AbortAfter = 3
    RetryDelay <- MCRetryDelay
    StaleAge = 1
    BatchSize = 1
    ClockSkew = 0
    JobDeadline = 9
    MaxTime = 6
    MaxGeneration = 1
SYMMETRY Symmetry
SPECIFICATION HSpec
INVARIANTS
    TypeOK
    AttemptLedger
    OneClaimHolder
    RetryBudget
    OrphansOnlyFromReplay
PROPERTIES
    TerminalStable
    WindowNeverRestarts
    RowsKeepContract
    RequestsWithinWindow
