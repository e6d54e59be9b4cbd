---------------------------- MODULE MCHealthCheck ----------------------------
(***************************************************************************)
(* HealthCheck for TLC: the background checker and one probe asked for by an  *)
(* administrator, which may overlap, and race with CreateService.  A third     *)
(* record would say what the second says.                                     *)
(***************************************************************************)
EXTENDS HealthCheck

AtMostTwoRecords == Cardinality(exists) <= 2
=============================================================================
