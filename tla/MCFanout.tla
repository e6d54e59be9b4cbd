------------------------------- MODULE MCFanout -------------------------------
(***************************************************************************)
(* Fanout for TLC: three workers, as in the test of the code, any or none of  *)
(* which fails.                                                               *)
(***************************************************************************)
EXTENDS Fanout
=============================================================================
