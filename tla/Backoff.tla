------------------------------- MODULE Backoff -------------------------------
(***************************************************************************)
(* The exponential retry policy of pkg/backoff.  Attempts are numbered     *)
(* from 0, as in the code: attempt n follows n earlier ones.               *)
(***************************************************************************)
EXTENDS Integers

VARIABLE
    policy      \* the BackoffPolicy of the process, fixed when it starts

\* --min-backoff-delay, --max-backoff-delay, --abort-after and --max-attempts
\* (0 or less: no cap).
BackoffPolicy ==
    [minRetryDelay : Nat, maxRetryDelay : Nat, abortAfter : Nat,
     maxAttempts : Int]

\* ErrMaxAttemptsReached, in place of a delay.
Exhausted == -1

\* Doubled once per attempt, and cut at the maximum each time.  The first delay
\* is not cut.
retryDelayForAttempt(n) ==
    LET delay[i \in 0..n] ==
            IF i = 0 THEN policy.minRetryDelay
            ELSE LET doubled == 2 * delay[i - 1]
                 IN  IF doubled > policy.maxRetryDelay
                     THEN policy.maxRetryDelay ELSE doubled
    IN  delay[n]

elapsedBeforeAttempt(n) ==
    LET elapsed[i \in 0..n] ==
            IF i = 0 THEN 0 ELSE elapsed[i - 1] + retryDelayForAttempt(i - 1)
    IN  elapsed[n]

\* Variant: one attempt too many.
CappedLate(n) == policy.maxAttempts > 0 /\ n > policy.maxAttempts

Capped(n) == policy.maxAttempts > 0 /\ n >= policy.maxAttempts

\* Variant: the window does not limit the backoff.
NoLimit(n, delay) == delay

LimitRetryDelay(n, delay) ==
    IF elapsedBeforeAttempt(n) + delay > policy.abortAfter THEN Exhausted
    ELSE delay

GetRetryDelay(n) ==
    IF Capped(n + 1) THEN Exhausted
    ELSE LimitRetryDelay(n, retryDelayForAttempt(n))

CanRetryAttempt(n) == ~Capped(n)

LimitRetryWindow(elapsed) == elapsed =< policy.abortAfter
=============================================================================
