---------------------------- MODULE MCTurnRecovery ----------------------------
(* TurnRecovery for TLC. *)
EXTENDS TurnRecovery
=============================================================================
