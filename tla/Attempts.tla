------------------------------ MODULE Attempts ------------------------------
(***************************************************************************)
(* What pkg/attempt.go makes of the outcome of one HTTP exchange: success, *)
(* permanent failure, or a retry at a time that the backoff policy and the *)
(* Retry-After header of the answer decide together.                       *)
(***************************************************************************)
EXTENDS Backoff

CONSTANTS
    Second,             \* time.Second, in units of time.Duration
    MaxDuration,        \* the largest time.Duration (2^63 - 1 in the code)
    MaxRetryAfterDelay  \* maxRetryAfterDelay

ASSUME DurationAssumption ==
    /\ Second \in Nat \ {0} /\ MaxDuration \in Nat
    /\ MaxRetryAfterDelay \in 0..MaxDuration

\* The product of two 64-bit integers, reduced to two's complement.
Wrap(x) == ((x + MaxDuration + 1) % (2 * (MaxDuration + 1))) - (MaxDuration + 1)

\* The status code of a transport error.
NoStatus == 0

isPermanentClientError(code) == code \in 400..499 /\ code \notin {408, 429}

terminalAttemptStatus(code) ==
    IF code \in 200..299 THEN "success"
    ELSE IF isPermanentClientError(code) THEN "failed" ELSE "none"

(***************************************************************************)
(* A Retry-After header: absent or unparseable, a number of seconds, or a  *)
(* date.  Absent is what parseRetryAfter returns "false" for.              *)
(***************************************************************************)
Absent == [kind |-> "absent"]
Seconds(n) == [kind |-> "seconds", value |-> n]
Date(t) == [kind |-> "date", value |-> t]

Clamp(delay) ==
    IF delay < MaxRetryAfterDelay THEN delay ELSE MaxRetryAfterDelay

SecondsToDuration(n) == Wrap(n * Second)

\* The set of the delay asked for, empty if there is none.
parseRetryAfter(header, now) ==
    CASE header.kind = "seconds" ->
           IF header.value < 0 THEN {} ELSE {Clamp(SecondsToDuration(header.value))}
      [] header.kind = "date" ->
           IF header.value - now > 0 THEN {Clamp(header.value - now)} ELSE {}
      [] OTHER -> {}

\* Variant: Retry-After is ignored.
BackoffOnly(n, now, header) == GetRetryDelay(n)

\* The longer of backoff and Retry-After, if the policy has room for it.
resolveRetryDelay(n, now, header) ==
    LET delay == GetRetryDelay(n)
        longer == {r \in parseRetryAfter(header, now) : r > delay}
    IN  IF delay = Exhausted \/ longer = {} THEN delay
        ELSE LimitRetryDelay(n, CHOOSE r \in longer : TRUE)

Failed == [status |-> "failed"]
StatusAttemptToRetry == "to retry"
ToRetry(next) == [status |-> StatusAttemptToRetry, next |-> next]

\* Variants: the error of the policy, or the end of the window, is ignored.
ScheduleAlways(delay, now, firstAttemptAt) ==
    IF ~LimitRetryWindow(now + delay - firstAttemptAt)
    THEN Failed ELSE ToRetry(now + delay)

ScheduleLate(delay, now, firstAttemptAt) ==
    IF delay = Exhausted THEN Failed ELSE ToRetry(now + delay)

scheduleAttemptRetry(delay, now, firstAttemptAt) ==
    IF delay = Exhausted \/ ~LimitRetryWindow(now + delay - firstAttemptAt)
    THEN Failed ELSE ToRetry(now + delay)

\* A transport error has no header; a body that cannot be read changes nothing.
classifyResponse(code, header, n, now, firstAttemptAt) ==
    CASE terminalAttemptStatus(code) # "none" ->
           [status |-> terminalAttemptStatus(code)]
      [] code = NoStatus ->
           scheduleAttemptRetry(GetRetryDelay(n), now, firstAttemptAt)
      [] OTHER ->
           scheduleAttemptRetry(resolveRetryDelay(n, now, header), now,
                                firstAttemptAt)
=============================================================================
