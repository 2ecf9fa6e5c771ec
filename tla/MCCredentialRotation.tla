------------------------- MODULE MCCredentialRotation -------------------------
(* CredentialRotation for TLC. *)
EXTENDS CredentialRotation
=============================================================================
