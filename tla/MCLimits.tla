------------------------------- MODULE MCLimits -------------------------------
(***************************************************************************)
(* Rate limiting for TLC: the rules with the cache of their buckets, and one   *)
(* bucket against the clock.  They share no state, and each property is about  *)
(* one of them, so only one moves in a behaviour.                             *)
(*                                                                           *)
(* Two rules whose names can clash, two requests that can race to make a      *)
(* bucket, two updates that can overlap; a limit of 0 is refused by Validate,  *)
(* a window of 0 replaced.  The bucket's window is not a divisor of its limit,  *)
(* and its clock runs for more than two windows.                              *)
(***************************************************************************)
EXTENDS RateLimiter, TokenBucket, FiniteSets, TLC

\* The bound on deletions: names can clash with one rule left.
AtMostOneGone == Cardinality(born \ stored) <= 1

Symmetry == Permutations(Requests) \cup Permutations(Admins)

LimitsInit == Init /\ BucketInit

LimitsSpec ==
    /\ LimitsInit
    /\ [][ \/ Init /\ BucketNext /\ UNCHANGED vars
           \/ BucketInit /\ mark = 0 /\ Next /\ UNCHANGED bucketVars ]_<<vars, bucketVars>>
=============================================================================
