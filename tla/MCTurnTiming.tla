----------------------------- MODULE MCTurnTiming -----------------------------
(* TurnTiming for TLC. *)
EXTENDS TurnTiming, TLC

Symmetry == Permutations(Turns)
=============================================================================
