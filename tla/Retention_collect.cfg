CONSTANTS
    Event = {e1}
    Config = {c1, c2}
    Purger = {p1}
    SuccessDelay = 1
    FailedDelay = 1
    BatchSize = 1
    RedeliveryWindow = 1
SPECIFICATION FairSpec
INVARIANTS
    TypeOK
    NothingLost
    CreatedOnce
    SelectedUnreferenced
PROPERTIES
    Collected
