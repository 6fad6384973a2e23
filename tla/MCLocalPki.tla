------------------------------ MODULE MCLocalPki ------------------------------
(* A small instance of LocalPki for TLC. *)
EXTENDS LocalPki
=============================================================================
