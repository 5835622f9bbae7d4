CONSTANTS
    Policies <- CappedPolicy
    Second = 3
    MaxDuration = 31
    MaxRetryAfterDelay = 9
    Code = {0, 200, 302, 404, 408, 429, 503}
    HeaderSeconds = {0, 2, 11}
    HeaderDates = {0, 5, 12}
    StaleAge = 2
    JobDeadline = 1
    MaxCrashes = 2
SPECIFICATION Spec
INVARIANTS
    RetryAfterHonoured
