--------------------------- MODULE MCVerification ---------------------------
(* A small instance of Verification for TLC. *)
EXTENDS Verification

SomePolicies == {{"cert"}, {"cert", "nocert"}, {"plain"}}
=============================================================================
