CONSTANTS
    Webhook = {w1, w2}
    Config = {c1}
    ConfigOf <- MCConfigOf
    BatchSize = 1
    SuccessSince = 1
    FailedSince = 2
    MaxAttempts = 2
    MaxTime = 3
    MaxFailures = 1
SPECIFICATION Spec
INVARIANTS
    TypeOK
    Reconciled
    PendingOnlyOn
PROPERTIES
    Completes
