------------------------- MODULE CircuitBreakerProofs -------------------------
(***************************************************************************)
(* Proofs about CircuitBreaker, for every set of callers, every threshold    *)
(* and every cooldown.                                                       *)
(***************************************************************************)
EXTENDS CircuitBreaker, TLAPS

\* Every method of the breaker keeps it a breaker.
LEMMA BreakerClosed ==
    ASSUME NEW b \in Breaker
    PROVE  /\ AfterAllow(b) \in Breaker
           /\ AfterSuccess(b) \in Breaker
           /\ AfterFailure(b) \in Breaker
           /\ AfterTick(b) \in Breaker
<1> USE BreakerAssumption DEF BreakerAssumption
<1>1. AfterAllow(b) \in Breaker
  BY DEF AfterAllow, Breaker, States
<1>2. AfterSuccess(b) \in Breaker
  <2>1. 0 \in 0 .. FailureThreshold
    OBVIOUS
  <2> QED BY <2>1 DEF AfterSuccess, Breaker, States
<1>3. AfterFailure(b) \in Breaker
  <2>1. Saturate(b.consecutiveFailures + 1, FailureThreshold) \in 0 .. FailureThreshold
    BY DEF Saturate, Breaker
  <2> QED BY <2>1 DEF AfterFailure, Breaker, States
<1>4. AfterTick(b) \in Breaker
  <2>1. Saturate(b.sinceFailure + 1, ResetTimeout) \in 0 .. ResetTimeout
    BY DEF Saturate, Breaker
  <2> QED BY <2>1 DEF AfterTick, Breaker
<1> QED BY <1>1, <1>2, <1>3, <1>4

\* The breaker is always a well-formed breaker and every caller is somewhere.
THEOREM TypeCorrect == Spec => []TypeOK
<1>1. Init => TypeOK
  <2>1. 0 \in 0 .. FailureThreshold /\ ResetTimeout \in 0 .. ResetTimeout
    BY BreakerAssumption DEF BreakerAssumption
  <2>2. NewBreaker \in Breaker
    BY <2>1 DEF NewBreaker, Breaker, States
  <2>3. FALSE \in BOOLEAN
    OBVIOUS
  <2> QED BY <2>1, <2>2, <2>3 DEF Init, TypeOK, CallStates
<1>2. TypeOK /\ [Next]_vars => TypeOK'
  <2> SUFFICES ASSUME TypeOK, [Next]_vars PROVE TypeOK'
    OBVIOUS
  <2> USE DEF TypeOK, CallStates
  <2>1. ASSUME NEW c \in Callers, Allow(c) PROVE TypeOK'
    <3>1. breaker' \in Breaker
      BY <2>1, BreakerClosed DEF Allow
    <3>2. call' \in [Callers -> CallStates]
      BY <2>1 DEF Allow
    <3>3. probing' \in SUBSET Callers /\ probeLost' \in BOOLEAN
      BY <2>1 DEF Allow
    <3>4. sinceProbe' \in 0 .. ResetTimeout
      BY <2>1, BreakerAssumption DEF BreakerAssumption, Allow
    <3> QED BY <2>1, <3>1, <3>2, <3>3, <3>4 DEF Allow
  <2>2. ASSUME NEW c \in Callers, Respond(c) PROVE TypeOK'
    BY <2>2 DEF Respond
  <2>3. ASSUME NEW c \in Callers, RecordSuccess(c) PROVE TypeOK'
    BY <2>3, BreakerClosed DEF RecordSuccess
  <2>4. ASSUME NEW c \in Callers, RecordFailure(c) PROVE TypeOK'
    BY <2>4, BreakerClosed DEF RecordFailure
  <2>5. ASSUME NEW c \in Callers, Abandon(c) PROVE TypeOK'
    BY <2>5 DEF Abandon
  <2>6. CASE Tick
    BY <2>6, BreakerClosed, BreakerAssumption DEF BreakerAssumption, Tick, Saturate
  <2>7. CASE UpstreamToggles
    BY <2>7 DEF UpstreamToggles
  <2>8. CASE UNCHANGED vars
    BY <2>8 DEF vars
  <2> QED BY <2>1, <2>2, <2>3, <2>4, <2>5, <2>6, <2>7, <2>8 DEF Next, CallerStep
<1> QED BY <1>1, <1>2, PTL DEF Spec

-----------------------------------------------------------------------------
\* The state and the count agree: inductive once the breaker is well formed,
\* because half-open is only entered from open, with the count still at the
\* threshold.
THEOREM StateMatchesCount == Spec => []ClosedIffBelowThreshold
<1> USE BreakerAssumption DEF BreakerAssumption
<1>1. Init => ClosedIffBelowThreshold
  BY DEF Init, ClosedIffBelowThreshold, NewBreaker
<1>2. TypeOK /\ ClosedIffBelowThreshold /\ [Next]_vars => ClosedIffBelowThreshold'
  <2> SUFFICES ASSUME TypeOK, ClosedIffBelowThreshold, [Next]_vars
               PROVE  ClosedIffBelowThreshold'
    OBVIOUS
  <2> USE DEF TypeOK, ClosedIffBelowThreshold, Breaker
  <2>1. ASSUME NEW c \in Callers, Allow(c) PROVE ClosedIffBelowThreshold'
    BY <2>1 DEF Allow, AfterAllow
  <2>2. ASSUME NEW c \in Callers, RecordSuccess(c) PROVE ClosedIffBelowThreshold'
    BY <2>2 DEF RecordSuccess, AfterSuccess
  <2>3. ASSUME NEW c \in Callers, RecordFailure(c) PROVE ClosedIffBelowThreshold'
    BY <2>3 DEF RecordFailure, AfterFailure, Saturate, States
  <2>4. CASE Tick
    BY <2>4 DEF Tick, AfterTick
  <2>5. ASSUME UNCHANGED breaker PROVE ClosedIffBelowThreshold'
    BY <2>5
  <2> QED BY <2>1, <2>2, <2>3, <2>4, <2>5
          DEF Next, CallerStep, Respond, Abandon, UpstreamToggles, vars
<1> QED BY <1>1, <1>2, TypeCorrect, PTL DEF Spec

\* A half-open breaker always has a probe on its way, or one that was lost.
THEOREM HalfOpenHasProbe == Spec => []HalfOpenAwaitsProbe
<1>1. Init => HalfOpenAwaitsProbe
  BY DEF Init, HalfOpenAwaitsProbe, NewBreaker
<1>2. TypeOK /\ HalfOpenAwaitsProbe /\ [Next]_vars => HalfOpenAwaitsProbe'
  <2> SUFFICES ASSUME TypeOK, HalfOpenAwaitsProbe, [Next]_vars,
                      (breaker.state = "half-open")'
               PROVE  probeLost' \/ \E c \in probing' : call'[c] # "idle"
    BY DEF HalfOpenAwaitsProbe
  <2> USE DEF TypeOK, HalfOpenAwaitsProbe, Breaker
  <2>1. ASSUME NEW c \in Callers, Allow(c)
        PROVE  probeLost' \/ \E d \in probing' : call'[d] # "idle"
    <3>1. CASE breaker.state = "half-open"
      BY <2>1, <3>1 DEF Allow, AfterAllow, Admits
    <3>2. CASE breaker.state # "half-open"
      BY <2>1, <3>2 DEF Allow, AfterAllow, Admits
    <3> QED BY <3>1, <3>2
  <2>2. ASSUME NEW c \in Callers, Respond(c)
        PROVE  probeLost' \/ \E d \in probing' : call'[d] # "idle"
    BY <2>2 DEF Respond
  <2>3. ASSUME NEW c \in Callers, RecordSuccess(c) PROVE FALSE
    BY <2>3 DEF RecordSuccess, AfterSuccess
  <2>4. ASSUME NEW c \in Callers, RecordFailure(c) PROVE FALSE
    BY <2>4 DEF RecordFailure, AfterFailure
  <2>5. ASSUME NEW c \in Callers, Abandon(c)
        PROVE  probeLost' \/ \E d \in probing' : call'[d] # "idle"
    <3>1. breaker.state = "half-open"
      BY <2>5 DEF Abandon
    <3>2. CASE c \in probing
      BY <2>5, <3>1, <3>2 DEF Abandon
    <3>3. CASE c \notin probing
      BY <2>5, <3>1, <3>3 DEF Abandon
    <3> QED BY <3>2, <3>3
  <2>6. CASE Tick
    BY <2>6 DEF Tick, AfterTick
  <2>7. CASE UpstreamToggles
    BY <2>7 DEF UpstreamToggles
  <2>8. CASE UNCHANGED vars
    BY <2>8 DEF vars
  <2> QED BY <2>1, <2>2, <2>3, <2>4, <2>5, <2>6, <2>7, <2>8 DEF Next, CallerStep
<1> QED BY <1>1, <1>2, TypeCorrect, PTL DEF Spec

-----------------------------------------------------------------------------
\* Why probes are spaced: while the breaker is open, the last probe is at least
\* as old as the failure that the cooldown counts from: every failure restamps
\* the one, and leaving half-open always leaves it freshly stamped.
ProbeOlderThanFailure ==
    breaker.state = "open" => sinceProbe >= breaker.sinceFailure

LEMMA ProbeAge == Spec => []ProbeOlderThanFailure
<1> USE BreakerAssumption DEF BreakerAssumption
<1>1. Init => ProbeOlderThanFailure
  BY DEF Init, ProbeOlderThanFailure, NewBreaker
<1>2. TypeOK /\ ProbeOlderThanFailure /\ [Next]_vars => ProbeOlderThanFailure'
  <2> SUFFICES ASSUME TypeOK, ProbeOlderThanFailure, [Next]_vars
               PROVE  ProbeOlderThanFailure'
    OBVIOUS
  <2> USE DEF TypeOK, ProbeOlderThanFailure, Breaker
  <2>1. ASSUME NEW c \in Callers, Allow(c) PROVE ProbeOlderThanFailure'
    BY <2>1 DEF Allow, AfterAllow
  <2>2. ASSUME NEW c \in Callers, RecordSuccess(c) PROVE ProbeOlderThanFailure'
    BY <2>2 DEF RecordSuccess, AfterSuccess
  <2>3. ASSUME NEW c \in Callers, RecordFailure(c) PROVE ProbeOlderThanFailure'
    BY <2>3 DEF RecordFailure, AfterFailure
  <2>4. CASE Tick
    BY <2>4 DEF Tick, AfterTick, Saturate
  <2>5. ASSUME UNCHANGED <<breaker, sinceProbe>> PROVE ProbeOlderThanFailure'
    BY <2>5
  <2> QED BY <2>1, <2>2, <2>3, <2>4, <2>5
          DEF Next, CallerStep, Respond, Abandon, UpstreamToggles, vars
<1> QED BY <1>1, <1>2, TypeCorrect, PTL DEF Spec

\* However the reports of stragglers fall, two probes are a cooldown apart.
THEOREM ProbesAreSpaced == Spec => ProbesSpaced
<1> USE BreakerAssumption DEF BreakerAssumption
<1>1. TypeOK /\ ProbeOlderThanFailure /\ [Next]_vars
        => [ (breaker.state = "open" /\ breaker'.state = "half-open")
                => sinceProbe >= ResetTimeout ]_vars
  <2> SUFFICES ASSUME TypeOK, ProbeOlderThanFailure, Next,
                      breaker.state = "open", breaker'.state = "half-open"
               PROVE  sinceProbe >= ResetTimeout
    OBVIOUS
  <2> USE DEF TypeOK, ProbeOlderThanFailure, Breaker
  <2>1. PICK c \in Callers : Allow(c)
    <3>1. ASSUME NEW c \in Callers, RecordSuccess(c) PROVE FALSE
      BY <3>1 DEF RecordSuccess, AfterSuccess
    <3>2. ASSUME NEW c \in Callers, RecordFailure(c) PROVE FALSE
      BY <3>2 DEF RecordFailure, AfterFailure
    <3>3. ASSUME Tick PROVE FALSE
      BY <3>3 DEF Tick, AfterTick
    <3>4. ASSUME UNCHANGED breaker PROVE FALSE
      BY <3>4
    <3> QED BY <3>1, <3>2, <3>3, <3>4
            DEF Next, CallerStep, Respond, Abandon, UpstreamToggles
  <2>2. CooledDown(breaker)
    BY <2>1 DEF Allow, AfterAllow
  <2> QED BY <2>2 DEF CooledDown
<1> QED BY <1>1, TypeCorrect, ProbeAge, PTL DEF Spec, ProbesSpaced
=============================================================================
