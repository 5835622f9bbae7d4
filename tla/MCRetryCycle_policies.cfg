CONSTANTS
    Policies <- MCPolicies
    Second = 3
    MaxDuration = 31
    MaxRetryAfterDelay = 9
    Code = {0, 200, 302, 404, 408, 429, 503}
    HeaderSeconds = {0, 1, 2, 10}
    HeaderDates = {0, 5, 12}
    StaleAge = 2
    JobDeadline = 1
    MaxCrashes = 2
SPECIFICATION Spec
INVARIANTS
    TypeOK
    ScheduledInWindow
    RetryAfterHonoured
    AttemptsBounded
PROPERTIES
    Settles
