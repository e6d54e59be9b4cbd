------------------------------ MODULE MCGateway ------------------------------
(***************************************************************************)
(* Gateway for TLC: two routes to two upstreams, one of them with a key and a *)
(* rate limit.                                                                *)
(***************************************************************************)
EXTENDS Gateway, TLC

CONSTANTS rt1, rt2, s1, s2, r1

MCServiceOf == rt1 :> s1 @@ rt2 :> s2
MCRulesOf == rt1 :> {r1} @@ rt2 :> {}

\* The bound on deletions: a request uses one service and one rule at most.
AtMostOneGone == Cardinality((Services \cup Rules) \ stored) <= 1

Symmetry == Permutations(Requests)
=============================================================================
