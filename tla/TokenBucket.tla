----------------------------- MODULE TokenBucket -----------------------------
(***************************************************************************)
(* The token bucket of internal/ratelimit: lazy, it credits the time that    *)
(* has passed only when somebody looks at it.  All four methods run under     *)
(* the bucket's mutex, so each is one step; the clock moves between them.     *)
(*                                                                           *)
(* tokens are counted in Window-ths, as in IdealBucket; the float64           *)
(* arithmetic of the code is taken as exact, and a tick is a second.         *)
(***************************************************************************)
EXTENDS Naturals

CONSTANTS
    Limit,      \* the bucket's rate is Limit tokens ...
    Window,     \* ... in Window ticks
    Size,       \* the tokens it holds
    MaxTime,    \* bound on the clock
    MaxResets   \* bound on calls of Reset

ASSUME RuleAssumption == Limit \in Nat /\ Window \in Nat \ {0} /\ Size \in Nat
ASSUME BoundAssumption == MaxTime \in Nat /\ MaxResets \in Nat

VARIABLES
    tokens,     \* what the bucket held when it was last credited
    last,       \* when that was
    now,        \* the clock
    answer,     \* what the last Allow returned
    \* An observer that starts watching at some moment; no guard reads these.
    mark,       \* the moment
    served,     \* requests granted since
    resets      \* calls of Reset since

bucketVars == <<tokens, last, now, answer, mark, served, resets>>

\* What NewTokenBucket makes of its arguments: a rate that is not positive is
\* one token a tick, and a burst below one token is one.
Rate == IF Limit > 0 THEN Limit ELSE Window
Burst == (IF Size > 0 THEN Size ELSE 1) * Window

Capped(n) == IF n > Burst THEN Burst ELSE n

BucketTypeOK ==
    /\ tokens \in 0 .. Burst
    /\ last \in 0 .. now
    /\ now \in 0 .. MaxTime
    /\ answer \in {"none", "granted", "refused"}
    /\ mark \in 0 .. MaxTime
    /\ served \in Nat
    /\ resets \in 0 .. MaxResets

\* NewTokenBucket: full, credited now.
BucketInit ==
    /\ tokens = Burst
    /\ last = 0
    /\ now = 0
    /\ answer = "none"
    /\ mark \in 0 .. MaxTime
    /\ served = 0
    /\ resets = 0

-----------------------------------------------------------------------------
\* Faulty refills, for the checks: one forgets the cap, one forgets to move
\* last, one credits a full window at a time.
RefilledUncapped == tokens + (now - last) * Rate
RefilledByWindow == Capped(tokens + ((now - last) \div Window) * Rate * Window)

\* refill: credit the time since last, up to the burst.
Refilled == Capped(tokens + (now - last) * Rate)

Watching == now >= mark

\* Faulty Allow: pays after answering, and only when tokens remain.
AllowUnpaid ==
    LET t == Refilled IN
    /\ last' = now
    /\ IF t >= Window
       THEN /\ tokens' = IF t > Window THEN t - Window ELSE t
            /\ answer' = "granted"
            /\ served' = IF Watching THEN served + 1 ELSE served
       ELSE /\ tokens' = t
            /\ answer' = "refused"
            /\ UNCHANGED served
    /\ UNCHANGED <<now, mark, resets>>

\* Allow: refill, then take one token if there is one.
Allow ==
    LET t == Refilled IN
    /\ last' = now
    /\ IF t >= Window
       THEN /\ tokens' = t - Window
            /\ answer' = "granted"
            /\ served' = IF Watching THEN served + 1 ELSE served
       ELSE /\ tokens' = t
            /\ answer' = "refused"
            /\ UNCHANGED served
    /\ UNCHANGED <<now, mark, resets>>

\* Tokens: refill and report.
Tokens ==
    /\ tokens' = Refilled
    /\ last' = now
    /\ UNCHANGED <<now, answer, mark, served, resets>>

\* Reset: full again.
Reset ==
    /\ resets < MaxResets
    /\ tokens' = Burst
    /\ last' = now
    /\ resets' = IF Watching THEN resets + 1 ELSE resets
    /\ UNCHANGED <<now, answer, mark, served>>

Tick ==
    /\ now < MaxTime
    /\ now' = now + 1
    /\ UNCHANGED <<tokens, last, answer, mark, served, resets>>

BucketNext == Allow \/ Tokens \/ Reset \/ Tick

BucketSpec == BucketInit /\ [][BucketNext]_bucketVars

-----------------------------------------------------------------------------
\* Crediting late is as good as crediting all the time: Allow answers exactly
\* what the ideal bucket would, and looking at the bucket (Tokens) never
\* changes an answer.
Ideal == INSTANCE IdealBucket WITH
            level <- Capped(tokens + (now - last) * Rate)

ImplementsIdeal == Ideal!Spec

\* Whatever the moment an observer starts at, the requests granted since cost
\* no more than a full bucket, one more for each Reset, and what the elapsed
\* time has credited.
RateBound ==
    Watching => served * Window <= Burst * (1 + resets) + (now - mark) * Rate
=============================================================================
