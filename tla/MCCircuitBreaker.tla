--------------------------- MODULE MCCircuitBreaker ---------------------------
(***************************************************************************)
(* CircuitBreaker for TLC.  Three callers are enough for a straggler to      *)
(* report while one probe is in flight and another caller asks.              *)
(***************************************************************************)
EXTENDS CircuitBreaker
=============================================================================
