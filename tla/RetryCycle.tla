----------------------------- MODULE RetryCycle -----------------------------
(***************************************************************************)
(* One generation of one delivery, from its first claim to its terminal    *)
(* state, under the exact retry policy and the exact classification of     *)
(* answers.  Timers are relative, so time never runs out: "elapsed" counts *)
(* from cycle_started_at and stops counting when the window is over, and   *)
(* "wait" counts down to next_attempt_at.  The config stays active and     *)
(* every dispatchOne ends before its claim is stale; Deliveries has the    *)
(* other cases.                                                            *)
(***************************************************************************)
EXTENDS Attempts

CONSTANTS
    Policies,       \* retry policies a process may be started with
    Code,           \* status codes the endpoint answers with
    HeaderSeconds,  \* numbers of seconds in its Retry-After headers
    HeaderDates,    \* distances from now of the dates in them
    StaleAge,       \* staleDeliveryClaimAge
    JobDeadline,    \* how long a dispatchOne may last
    MaxCrashes      \* bound on dispatchOnes that end without a result

ASSUME RetryCycleAssumption ==
    /\ Policies \subseteq BackoffPolicy
    /\ HeaderSeconds \subseteq Int /\ HeaderDates \subseteq Int
    /\ StaleAge \in Nat /\ JobDeadline \in 0..StaleAge /\ MaxCrashes \in Nat

VARIABLES
    phase,          \* status of the row and, while delivering, of its goroutine
    attemptCount,   \* attempt_count
    started,        \* whether cycle_started_at is set
    elapsed,        \* time since cycle_started_at
    wait,           \* time until next_attempt_at
    age,            \* time since claimed_at
    crashes,        \* dispatchOnes that ended without a result
    last            \* history: the last retry that was scheduled

vars ==
    <<policy, phase, attemptCount, started, elapsed, wait, age, crashes, last>>

Phase == {"pending", "claimed", "failing", "sending", "lost", "succeeded",
          "failed"}
Running == {"claimed", "failing", "sending"}

NoRetryYet == [delay |-> 0, backoff |-> 0, asked |-> 0]

TypeOK ==
    /\ policy \in Policies /\ phase \in Phase
    /\ attemptCount \in Nat /\ elapsed \in 0..(policy.abortAfter + 1)
    /\ wait \in Nat /\ age \in 0..(StaleAge + 1) /\ crashes \in 0..MaxCrashes
    /\ started \in BOOLEAN
    /\ last \in [delay : Nat, backoff : Nat, asked : Int]

Init ==
    /\ policy \in Policies
    /\ phase = "pending" /\ attemptCount = 0 /\ started = FALSE
    /\ elapsed = 0 /\ wait = 0 /\ age = 0 /\ crashes = 0
    /\ last = NoRetryYet
-----------------------------------------------------------------------------
ClaimDelivery ==
    /\ phase = "pending" /\ wait = 0
    /\ phase' = "claimed" /\ started' = TRUE /\ age' = 0
    /\ UNCHANGED <<policy, attemptCount, elapsed, wait, crashes, last>>

WithinBudget ==
    /\ attemptCount > 0 => CanRetryAttempt(attemptCount)
    /\ LimitRetryWindow(elapsed)

\* "sending" is from here to the answer: time passes before the request leaves.
Preflight ==
    /\ phase = "claimed"
    /\ phase' = IF WithinBudget THEN "sending" ELSE "failing"
    /\ UNCHANGED <<policy, attemptCount, started, elapsed, wait, age, crashes,
                   last>>

FailClaimedDelivery ==
    /\ phase = "failing"
    /\ phase' = "failed"
    /\ UNCHANGED <<policy, attemptCount, started, elapsed, wait, age, crashes,
                   last>>

Headers ==
    {Absent} \cup {Seconds(n) : n \in HeaderSeconds}
             \cup {Date(elapsed + t) : t \in HeaderDates}

\* What a header asks for, in a time that does not wrap: the reference for
\* parseRetryAfter.
Asked(header) ==
    CASE header.kind = "seconds" -> Clamp(header.value * Second)
      [] header.kind = "date"    -> Clamp(header.value - elapsed)
      [] OTHER                   -> 0

\* The endpoint answers and CompleteDelivery writes the result.
Answer(code, header) ==
    LET result == classifyResponse(code, header, attemptCount, elapsed, 0) IN
    /\ phase = "sending"
    /\ attemptCount' = attemptCount + 1
    /\ \/ /\ result.status = "success"
          /\ phase' = "succeeded" /\ UNCHANGED <<wait, last>>
       \/ /\ result.status = "failed"
          /\ phase' = "failed" /\ UNCHANGED <<wait, last>>
       \/ /\ result.status = StatusAttemptToRetry
          /\ phase' = "pending" /\ wait' = result.next - elapsed
          /\ last' = [delay |-> wait',
                      backoff |-> retryDelayForAttempt(attemptCount),
                      asked |-> IF code = NoStatus THEN 0 ELSE Asked(header)]
    /\ UNCHANGED <<policy, started, elapsed, age, crashes>>

\* The goroutine is gone, or its completion failed: the attempt is not counted.
Crash ==
    /\ phase \in Running /\ crashes < MaxCrashes
    /\ phase' = "lost" /\ crashes' = crashes + 1
    /\ UNCHANGED <<policy, attemptCount, started, elapsed, wait, age, last>>

\* Variant: a lost claim is never recovered.
NeverStale == FALSE

StaleClaim == age > StaleAge

RecoverStaleDelivery ==
    /\ phase = "lost" /\ StaleClaim
    /\ phase' = "pending" /\ wait' = 0
    /\ UNCHANGED <<policy, attemptCount, started, elapsed, age, crashes, last>>

\* ReplayDelivery of a pending row: it becomes due.
Expedite ==
    /\ phase = "pending" /\ wait > 0
    /\ wait' = 0
    /\ UNCHANGED <<policy, phase, attemptCount, started, elapsed, age, crashes,
                   last>>

Saturate(t, bound) == IF t < bound THEN t + 1 ELSE bound

Tick ==
    /\ phase \in Running => age < JobDeadline
    /\ elapsed' = IF started THEN Saturate(elapsed, policy.abortAfter + 1)
                  ELSE 0
    /\ wait' = IF wait > 0 THEN wait - 1 ELSE 0
    /\ age' = IF phase \in Running \cup {"lost"} THEN Saturate(age, StaleAge + 1)
              ELSE age
    /\ UNCHANGED <<policy, phase, attemptCount, started, crashes, last>>

Respond == \E code \in Code, header \in Headers : Answer(code, header)

Next ==
    \/ ClaimDelivery \/ Preflight \/ FailClaimedDelivery \/ Respond
    \/ Crash \/ RecoverStaleDelivery \/ Expedite \/ Tick

\* The dispatcher polls for ever, each dispatchOne runs to its end, an HTTP
\* exchange ends (the client has a timeout), some dispatcher recovers, time
\* passes.  Nothing obliges a client to expedite or a worker to crash.
Fairness ==
    /\ WF_vars(ClaimDelivery) /\ WF_vars(Preflight)
    /\ WF_vars(FailClaimedDelivery) /\ WF_vars(Respond)
    /\ WF_vars(RecoverStaleDelivery) /\ WF_vars(Tick)

Spec == Init /\ [][Next]_vars /\ Fairness
-----------------------------------------------------------------------------
(***************************************************************************)
(* Properties                                                              *)
(***************************************************************************)

\* Whatever the endpoint answers and whoever crashes, the generation comes to
\* an end: with or without a cap on attempts, the retry window closes it.
Settles == <>(phase \in {"succeeded", "failed"})

\* A retry is scheduled inside the retry window, Retry-After included.
ScheduledInWindow ==
    phase = "pending" /\ wait > 0 => elapsed + wait =< policy.abortAfter

\* A retry waits at least as long as the backoff and as Retry-After (cut at
\* maxRetryAfterDelay) say: "Retry-After is preserved when present"
\* (docs/retry-mechanism.md).
RetryAfterHonoured == last.delay >= last.asked /\ last.delay >= last.backoff

\* The number of delays of the backoff that fit one after the other into the
\* window.
Fitting ==
    CHOOSE n \in 0..(policy.abortAfter + 1) :
        /\ elapsedBeforeAttempt(n) =< policy.abortAfter
        /\ elapsedBeforeAttempt(n + 1) > policy.abortAfter

\* Completed attempts stay within the cap and, without one ("abort-after
\* remains the only bound"), within what the backoff can fit into the window,
\* even if a client expedites every retry.
AttemptsBounded ==
    /\ attemptCount =< Fitting + 1
    /\ policy.maxAttempts > 0 => attemptCount =< policy.maxAttempts
=============================================================================
