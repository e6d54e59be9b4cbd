---------------------------- MODULE CircuitBreaker ----------------------------
(***************************************************************************)
(* One service's circuit breaker shared by concurrent requests.             *)
(*                                                                           *)
(* A request (a caller) asks Allow, forwards to the upstream, and reports    *)
(* the outcome when the upstream has answered (gateway_handler.go: 48-99).   *)
(* The breaker's mutex makes each of its methods atomic; everything between  *)
(* two of them interleaves, so an outcome can reach the breaker long after   *)
(* it was earned, when the breaker is in another state.  A forward may also  *)
(* never be reported: proxyRequest returns early on a bad base URL, and      *)
(* ReverseProxy panics when the answer is cut off, which unwinds past        *)
(* RecordServiceResult.  Or it may never end: http.DefaultTransport waits    *)
(* for the upstream's headers without a limit.                               *)
(***************************************************************************)
EXTENDS BreakerOps

CONSTANT Callers       \* the requests in flight at a time

VARIABLES
    breaker,           \* the service's *CircuitBreaker
    call,              \* where each caller is
    up,                \* whether the upstream answers below 500
    \* What the properties watch; no guard of the code reads these.
    probing,           \* the caller that holds the current half-open probe
    probeLost,         \* that probe was abandoned without a report
    sinceProbe         \* age of the last probe, saturating at ResetTimeout

vars == <<breaker, call, up, probing, probeLost, sinceProbe>>

CallStates == {"idle", "forwarding", "succeeded", "failed"}

TypeOK ==
    /\ breaker \in Breaker
    /\ call \in [Callers -> CallStates]
    /\ up \in BOOLEAN
    /\ probing \in SUBSET Callers
    /\ probeLost \in BOOLEAN
    /\ sinceProbe \in 0 .. ResetTimeout

Init ==
    /\ breaker = NewBreaker
    /\ call = [c \in Callers |-> "idle"]
    /\ up \in BOOLEAN
    /\ probing = {}
    /\ probeLost = FALSE
    /\ sinceProbe = ResetTimeout

-----------------------------------------------------------------------------
\* AllowService: a refused caller is answered 503 and is idle again.
Allow(c) ==
    /\ call[c] = "idle"
    /\ breaker' = AfterAllow(breaker)
    /\ call' = IF Admits(breaker) THEN [call EXCEPT ![c] = "forwarding"] ELSE call
    /\ IF breaker'.state # breaker.state
       THEN probing' = {c} /\ probeLost' = FALSE /\ sinceProbe' = 0
       ELSE UNCHANGED <<probing, probeLost, sinceProbe>>
    /\ UNCHANGED up

\* The upstream's answer decides the outcome; the breaker has not heard yet.
Respond(c) ==
    /\ call[c] = "forwarding"
    /\ call' = [call EXCEPT ![c] = IF up THEN "succeeded" ELSE "failed"]
    /\ UNCHANGED <<breaker, up, probing, probeLost, sinceProbe>>

\* RecordServiceResult: any report ends the half-open period it falls in.
RecordSuccess(c) ==
    /\ call[c] = "succeeded"
    /\ breaker' = AfterSuccess(breaker)
    /\ call' = [call EXCEPT ![c] = "idle"]
    /\ probing' = probing \ {c}
    /\ probeLost' = FALSE
    /\ UNCHANGED <<up, sinceProbe>>

RecordFailure(c) ==
    /\ call[c] = "failed"
    /\ breaker' = AfterFailure(breaker)
    /\ call' = [call EXCEPT ![c] = "idle"]
    /\ probing' = probing \ {c}
    /\ probeLost' = FALSE
    /\ UNCHANGED <<up, sinceProbe>>

\* The forward ends without a report.
Abandon(c) ==
    /\ call[c] = "forwarding"
    /\ call' = [call EXCEPT ![c] = "idle"]
    /\ probing' = probing \ {c}
    /\ probeLost' = (probeLost \/ (c \in probing /\ breaker.state = "half-open"))
    /\ UNCHANGED <<breaker, up, sinceProbe>>

Tick ==
    /\ breaker' = AfterTick(breaker)
    /\ sinceProbe' = Saturate(sinceProbe + 1, ResetTimeout)
    /\ UNCHANGED <<call, up, probing, probeLost>>

UpstreamToggles ==
    /\ up' = ~up
    /\ UNCHANGED <<breaker, call, probing, probeLost, sinceProbe>>

CallerStep(c) ==
    \/ Allow(c)
    \/ Respond(c)
    \/ RecordSuccess(c)
    \/ RecordFailure(c)
    \/ Abandon(c)

Next == (\E c \in Callers : CallerStep(c)) \/ Tick \/ UpstreamToggles

Spec == Init /\ [][Next]_vars

\* Traffic keeps coming, the handler goroutine runs on, and the clock
\* advances.  Nothing makes the upstream answer, nothing makes an abandoned
\* forward report, and nothing makes the upstream change.
Fairness ==
    /\ \A c \in Callers :
          /\ WF_vars(Allow(c))
          /\ WF_vars(RecordSuccess(c))
          /\ WF_vars(RecordFailure(c))
    /\ WF_vars(Tick)

FairSpec == Spec /\ Fairness

-----------------------------------------------------------------------------
\* The state and the failure count never disagree, although three methods
\* write them separately: closed exactly when fewer than the threshold of
\* failures have been counted since the last success.  (So a failed probe
\* reopens the breaker by its count alone.)
ClosedIffBelowThreshold ==
    (breaker.state = "closed") <=> (breaker.consecutiveFailures < FailureThreshold)

\* A half-open breaker refuses everyone, so somebody must still be going to
\* end it: the caller that holds the probe is on its way to a report, unless
\* that very probe was abandoned.
HalfOpenAwaitsProbe ==
    breaker.state = "half-open" =>
        probeLost \/ \E c \in probing : call[c] # "idle"

\* However stragglers' reports fall, a service that keeps failing is probed at
\* most once in a cooldown.
ProbesSpaced ==
    [][ (breaker.state = "open" /\ breaker'.state = "half-open")
            => sinceProbe >= ResetTimeout ]_vars

\* The half-open probe is with an upstream that has not answered it.
ProbeHangs == \E c \in probing : call[c] = "forwarding"

\* Half-open ends, unless its probe was abandoned or hangs for ever; and once
\* the upstream stays up, traffic flows again for good, with the same two
\* exceptions, as long as not every request there is hangs (so that somebody
\* is left to ask).
Recovery ==
    /\ \/ []<>(breaker.state # "half-open" \/ probeLost)
       \/ <>[]ProbeHangs
    /\ <>[]up /\ []<>(\E c \in Callers : call[c] = "idle")
          => \/ <>[](breaker.state = "closed" \/ probeLost)
             \/ <>[](breaker.state = "half-open" /\ ProbeHangs)

-----------------------------------------------------------------------------
\* README.md:26 says an open breaker cools down, probes half-open, and recovers
\* on success: once the upstream stays up, the service recovers.
HalfOpenRecovers == <>[]up => <>[](breaker.state = "closed")
=============================================================================
