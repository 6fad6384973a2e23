--------------------------- MODULE MCDeliveryStore ---------------------------
(* A small instance of DeliveryStore and DeliveryHistory for TLC.  Liveness  *)
(* is checked with the rest, so that nothing is taken as symmetric.          *)
EXTENDS DeliveryHistory
=============================================================================
