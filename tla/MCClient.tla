------------------------------ MODULE MCClient ------------------------------
(***************************************************************************)
(* Two goroutines: one retries as the SDK is configured to, one does not.  *)
(***************************************************************************)
EXTENDS Client, TLC

CONSTANTS c1, c2

MCOptions == c1 :> "nil" @@ c2 :> "once"
=============================================================================
