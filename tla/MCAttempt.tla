----------------------------- MODULE MCAttempt -----------------------------
(***************************************************************************)
(* Instances of Attempt for TLC.                                           *)
(***************************************************************************)
EXTENDS Attempt

=============================================================================
