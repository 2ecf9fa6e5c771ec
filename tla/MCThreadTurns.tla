---------------------------- MODULE MCThreadTurns ----------------------------
(* ThreadTurns for TLC.  Interactions and cases are interchangeable: Init and *)
(* every action treat them alike.                                             *)
EXTENDS ThreadTurns, TLC

Interchangeable == Permutations(Events) \union Permutations(Cases)
=============================================================================
