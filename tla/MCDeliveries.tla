---------------------------- MODULE MCDeliveries ----------------------------
(***************************************************************************)
(* Instances of Deliveries for TLC, with the delays of the retry policy.   *)
(***************************************************************************)
EXTENDS Deliveries, TLC

Policy == INSTANCE Attempts
    WITH policy <- [minRetryDelay |-> 1, maxRetryDelay |-> 1,
                    abortAfter |-> AbortAfter, maxAttempts |-> MaxAttempts],
         Second <- 1, MaxDuration <- 127, MaxRetryAfterDelay <- 60

\* Answers without Retry-After, with one, and with one the window cannot hold.
MCRetryDelay ==
    [n \in 0..(MaxAttempts - 1) |->
        {Policy!resolveRetryDelay(n, 0, header) :
            header \in {Policy!Absent, Policy!Seconds(2), Policy!Seconds(9)}}]

Symmetry == Permutations(Worker)
=============================================================================
