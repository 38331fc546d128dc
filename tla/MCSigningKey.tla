---------------------------- MODULE MCSigningKey ----------------------------
(* Small instances of SigningKey for TLC. *)
EXTENDS SigningKey

CONSTANTS u1, u2, u3
=============================================================================
