---------------------------- MODULE MCRetryCycle ----------------------------
(***************************************************************************)
(* Instances of RetryCycle for TLC.                                        *)
(***************************************************************************)
EXTENDS RetryCycle

Flags(min, max, cap) ==
    [minRetryDelay |-> min, maxRetryDelay |-> max, abortAfter |-> 16,
     maxAttempts |-> cap]

\* A cap that bites before the window, no cap at all, and a minimum above the
\* maximum (nothing checks the flags).
MCPolicies == {Flags(1, 4, 4), Flags(1, 4, 0), Flags(5, 2, 0)}

CappedPolicy == {Flags(1, 4, 4)}
=============================================================================
