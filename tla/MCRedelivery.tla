----------------------------- MODULE MCRedelivery -----------------------------
(* Redelivery for TLC. *)
EXTENDS Redelivery, TLC

Symmetry == Permutations(Events) \union Permutations(Stamps) \union Permutations(Workers)
=============================================================================
