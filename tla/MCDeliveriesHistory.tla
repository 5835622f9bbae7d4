------------------------- MODULE MCDeliveriesHistory -------------------------
(***************************************************************************)
(* Instances of DeliveriesHistory for TLC.                                 *)
(***************************************************************************)
EXTENDS MCDeliveries, DeliveriesHistory
=============================================================================
