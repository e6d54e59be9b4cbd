----------------------------- MODULE IdealBucket -----------------------------
(***************************************************************************)
(* What a token bucket promises: a level that rises with the clock, up to    *)
(* the burst, and pays for each grant.  A request is granted exactly when    *)
(* the level covers it.                                                      *)
(*                                                                           *)
(* Units: Window-ths of a token, which keeps a rate of so many tokens in      *)
(* Window ticks integral: a grant costs Window, and a tick adds Rate.         *)
(***************************************************************************)
EXTENDS Naturals

CONSTANTS
    Rate,       \* what a tick adds
    Window,     \* what a grant costs
    Burst       \* what the bucket holds

VARIABLES
    level,      \* what the bucket holds now
    answer      \* what the last Allow returned

vars == <<level, answer>>

Capped(n) == IF n > Burst THEN Burst ELSE n

Init == level = Burst /\ answer = "none"

Grant == level >= Window /\ level' = level - Window /\ answer' = "granted"

Refuse == level < Window /\ answer' = "refused" /\ UNCHANGED level

Rise == level' = Capped(level + Rate) /\ UNCHANGED answer

Refill == level' = Burst /\ UNCHANGED answer

Next == Grant \/ Refuse \/ Rise \/ Refill

Spec == Init /\ [][Next]_vars
=============================================================================
