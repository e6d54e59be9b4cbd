------------------------------ MODULE BreakerOps ------------------------------
(***************************************************************************)
(* One circuit breaker of internal/circuitbreaker as a value: every method  *)
(* of the Go type runs under the breaker's mutex, so a call is a function    *)
(* from the breaker before it to the breaker after it.  The state machines   *)
(* that use breakers (CircuitBreaker, Gateway) share these operators.        *)
(*                                                                           *)
(* Two fields are abstracted to what the code can tell apart:                *)
(*   - consecutiveFailures is only ever compared with failureThreshold, so    *)
(*     it saturates there;                                                   *)
(*   - lastFailure is only ever read through time.Since, so the record keeps  *)
(*     the age of the last failure, which saturates at resetTimeout.         *)
(***************************************************************************)
EXTENDS Naturals

CONSTANTS
    FailureThreshold,  \* failureThreshold: consecutive failures that open it
    ResetTimeout       \* resetTimeout: the cooldown, in clock ticks

\* New replaces a non-positive parameter by a positive default.
ASSUME BreakerAssumption ==
    /\ FailureThreshold \in Nat \ {0}
    /\ ResetTimeout \in Nat \ {0}

States == {"closed", "open", "half-open"}

Breaker == [ state               : States,
             consecutiveFailures : 0 .. FailureThreshold,
             sinceFailure        : 0 .. ResetTimeout ]

\* The zero time.Time of a new breaker is older than any cooldown.
NewBreaker == [ state               |-> "closed",
                consecutiveFailures |-> 0,
                sinceFailure        |-> ResetTimeout ]

Saturate(n, limit) == IF n > limit THEN limit ELSE n

CooledDown(b) == b.sinceFailure >= ResetTimeout

-----------------------------------------------------------------------------
\* Allow: what it returns, and the breaker it leaves behind.
Admits(b) == b.state = "closed" \/ (b.state = "open" /\ CooledDown(b))

AfterAllow(b) ==
    IF b.state = "open" /\ CooledDown(b)
    THEN [b EXCEPT !.state = "half-open"]
    ELSE b

\* Faulty variants of the two reports below; the checks must catch each one.
SuccessKeepsCount(b) == [b EXCEPT !.state = "closed"]
SuccessOnlyResets(b) == [b EXCEPT !.consecutiveFailures = 0]
FailureIgnoresProbe(b) ==
    LET n == Saturate(b.consecutiveFailures + 1, FailureThreshold)
    IN  [b EXCEPT !.state = IF b.state = "closed" /\ n >= FailureThreshold
                            THEN "open" ELSE b.state,
                  !.consecutiveFailures = n, !.sinceFailure = 0]
FailureKeepsStamp(b) ==
    LET n == Saturate(b.consecutiveFailures + 1, FailureThreshold)
    IN  [b EXCEPT !.state = IF b.state = "half-open" \/ n >= FailureThreshold
                            THEN "open" ELSE b.state,
                  !.consecutiveFailures = n]
FailureUncounted(b) ==
    [b EXCEPT !.state = IF b.state = "half-open" THEN "open" ELSE b.state,
              !.consecutiveFailures = b.consecutiveFailures + 1, !.sinceFailure = 0]

\* RecordSuccess closes the breaker from whatever state it is in.
AfterSuccess(b) == [b EXCEPT !.consecutiveFailures = 0, !.state = "closed"]

\* RecordFailure counts, restamps lastFailure, and opens on a failed probe or
\* at the threshold.
AfterFailure(b) ==
    LET n == Saturate(b.consecutiveFailures + 1, FailureThreshold)
    IN  [ state               |-> IF b.state = "half-open" \/ n >= FailureThreshold
                                  THEN "open" ELSE b.state,
          consecutiveFailures |-> n,
          sinceFailure        |-> 0 ]

\* The clock advances by one tick.
AfterTick(b) ==
    [b EXCEPT !.sinceFailure = Saturate(b.sinceFailure + 1, ResetTimeout)]
=============================================================================
