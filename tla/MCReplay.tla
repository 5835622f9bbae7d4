------------------------------ MODULE MCReplay ------------------------------
(***************************************************************************)
(* Instances of Replay for TLC.                                            *)
(***************************************************************************)
EXTENDS Replay, TLC

Symmetry == Permutations(Handler) \cup Permutations(Key)
=============================================================================
