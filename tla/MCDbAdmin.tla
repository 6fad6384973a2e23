------------------------------ MODULE MCDbAdmin ------------------------------
(* Small instances of DbAdmin for TLC.  Liveness is checked with the rest,   *)
(* so that nothing is taken as symmetric.                                    *)
EXTENDS DbAdmin
=============================================================================
