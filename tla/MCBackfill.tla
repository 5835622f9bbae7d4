----------------------------- MODULE MCBackfill -----------------------------
(***************************************************************************)
(* Two webhooks of one config.                                             *)
(***************************************************************************)
EXTENDS Backfill

MCConfigOf == [w \in Webhook |-> CHOOSE c \in Config : TRUE]
=============================================================================
