----------------------------- MODULE MCVerifier -----------------------------
(* Small instances of Verifier. *)
EXTENDS Verifier
=============================================================================
