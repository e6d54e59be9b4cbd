------------------------------- MODULE MCAccess -------------------------------
(***************************************************************************)
(* Access for TLC: two apps and a key of either, two administrators, and one   *)
(* request, since requests change nothing that other requests read.           *)
(***************************************************************************)
EXTENDS Access, TLC

AdminSymmetry == Permutations(Admins)
=============================================================================
