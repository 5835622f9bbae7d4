--------------------------- MODULE DeliveryContract ---------------------------
(***************************************************************************)
(* What one delivery promises to those who look at it, whatever the number *)
(* of dispatchers, recoveries, replays and config switches behind it.      *)
(*                                                                         *)
(* A generation is attempted at most MaxAttempts times, inside one retry   *)
(* window; every attempt leaves one entry in the log; success and          *)
(* cancellation are for ever, and only a replay leads out of failure, into *)
(* the next generation.                                                    *)
(***************************************************************************)
EXTENDS Integers

CONSTANT MaxAttempts

VARIABLES
    status,
    generation,     \* replay_generation
    count,          \* attempts completed in this generation
    since,          \* start of the retry window, 0 before the first claim
    log             \* the attempts, as [generation, number, outcome]

vars == <<status, generation, count, since, log>>

Init == status = "none" /\ generation = 0 /\ count = 0 /\ since = 0 /\ log = {}

Become(s) == status' = s /\ UNCHANGED <<generation, count, log>>

Enqueue == status = "none" /\ Become("pending") /\ UNCHANGED since

Claim ==
    /\ status = "pending" /\ Become("delivering")
    /\ since' > 0 /\ (since # 0 => since' = since)

Release == status = "delivering" /\ Become("pending") /\ UNCHANGED since

GiveUp == status = "delivering" /\ Become("failed") /\ UNCHANGED since

Cancel ==
    status \in {"pending", "delivering"} /\ Become("cancelled") /\ UNCHANGED since

Entry(outcome) ==
    [generation |-> generation, number |-> count + 1, outcome |-> outcome]

Attempt(outcome) ==
    /\ status = "delivering" /\ count < MaxAttempts
    /\ status' \in {"pending", "succeeded", "failed", "cancelled"}
    /\ status' = "succeeded" <=> outcome = "succeeded"
    /\ status' = "pending" => count + 1 < MaxAttempts
    /\ count' = count + 1
    /\ log' = log \cup {Entry(outcome)}
    /\ UNCHANGED <<generation, since>>

Replay ==
    /\ status = "failed" /\ status' = "pending"
    /\ generation' = generation + 1 /\ count' = 0 /\ since' = 0
    /\ UNCHANGED log

Next ==
    \/ Enqueue \/ Claim \/ Release \/ GiveUp \/ Cancel \/ Replay
    \/ \E outcome \in {"succeeded", "retryable_failure", "permanent_failure"} :
          Attempt(outcome)

Spec == Init /\ [][Next]_vars
=============================================================================
