------------------------------- MODULE Gateway -------------------------------
(***************************************************************************)
(* The gateway's request pipeline (internal/handler/gateway_handler.go):      *)
(* route, key, rate limit, upstream, circuit breaker, reverse proxy, log.     *)
(* Each stage takes its own locks and drops them, so the stages of different   *)
(* requests interleave, and services and rules are deleted between two of    *)
(* them.                                                                      *)
(*                                                                           *)
(* Routes are fixed here (Routing lets them change), a key is good or not     *)
(* (as Authenticate finds it), and a rule's bucket is its whole tokens        *)
(* (TokenBucket has the fractions).  Breakers are those of BreakerOps, so     *)
(* that this module can be shown to drive each one as CircuitBreaker says.    *)
(***************************************************************************)
EXTENDS BreakerOps, FiniteSets, Sequences

CONSTANTS
    Requests,       \* requests in flight at a time
    Routes, Services, Rules,
    ServiceOf,      \* Route.ServiceID
    RulesOf,        \* the set of Route.RateLimitRuleID, or {}
    Guarded,        \* routes with RequiresAuth
    Burst           \* capacity of every bucket

ASSUME GatewayAssumption ==
    /\ ServiceOf \in [Routes -> Services]
    /\ RulesOf \in [Routes -> SUBSET Rules]
    /\ \A rt \in Routes : RulesOf[rt] = {} \/ \E r \in Rules : RulesOf[rt] = {r}
    /\ Guarded \subseteq Routes
    /\ Routes # {} /\ Burst \in Nat

VARIABLES
    breakers,       \* Service.breakers: one per service, new until first used
    tokens,         \* whole tokens of each rule's bucket
    stored,         \* services and rules in the store
    up,             \* services whose forwards now come back below 500
    req,            \* where each request is, and on which route
    \* What the properties watch.
    sent,           \* the statuses the client has been sent, in order
    logged,         \* the statuses logged for the request, in order
    ending,         \* what befell the request
    watch           \* CircuitBreaker's probing, probeLost, sinceProbe

vars == <<breakers, tokens, stored, up, req, sent, logged, ending, watch>>

Places == {"idle", "limiting", "paying", "resolving", "asking",
           "proxying", "reporting", "logging", "done"}

\* The statuses the code sends, and those of upstreams: 200 and 404, which are
\* both below 500, and 502, which stands for any failure of their own.
Statuses == {200, 401, 404, 429, 500, 502, 503}

Endings == {"plain", "no address", "cut off"}

AnyRoute == CHOOSE rt \in Routes : TRUE

TypeOK ==
    /\ breakers \in [Services -> Breaker]
    /\ tokens \in [Rules -> 0 .. Burst]
    /\ stored \in SUBSET (Services \cup Rules) /\ up \in SUBSET Services
    /\ req \in [Requests -> [at : Places, route : Routes, status : Statuses]]
    /\ sent \in [Requests -> Seq(Statuses)]
    /\ logged \in [Requests -> Seq(Statuses)]
    /\ ending \in [Requests -> Endings]
    /\ watch \in [Services -> [probing : SUBSET Requests, probeLost : BOOLEAN,
                               sinceProbe : 0 .. ResetTimeout]]

Idle == [at |-> "idle", route |-> AnyRoute, status |-> 200]

Init ==
    /\ breakers = [s \in Services |-> NewBreaker]
    /\ tokens = [r \in Rules |-> Burst]
    /\ stored = Services \cup Rules /\ up \in SUBSET Services
    /\ req = [q \in Requests |-> Idle]
    /\ sent = [q \in Requests |-> <<>>] /\ logged = [q \in Requests |-> <<>>]
    /\ ending = [q \in Requests |-> "plain"]
    /\ watch = [s \in Services |-> [probing |-> {}, probeLost |-> FALSE,
                                    sinceProbe |-> ResetTimeout]]

Upstream(q) == ServiceOf[req[q].route]

Move(q, place) == req' = [req EXCEPT ![q].at = place]

\* The handler has no more use for the route but to name it in the log.
Finish(q, place, status) ==
    req' = [req EXCEPT ![q] = [Idle EXCEPT !.at = place, !.status = status]]

Send(q, status) == sent' = [sent EXCEPT ![q] = Append(@, status)]

\* recordGatewayLog with one status, then the answer with another.
Refuse(q, logs, sends) ==
    /\ logged' = [logged EXCEPT ![q] = Append(@, logs)]
    /\ Send(q, sends)
    /\ Finish(q, "done", 200)

-----------------------------------------------------------------------------
\* 1 and 2. MatchRoute, and Authenticate on a route that asks for it.  (A
\* request that matches nothing gets 404 and no log.)
Arrive(q, rt) ==
    /\ req[q].at = "idle"
    /\ req' = [req EXCEPT ![q].at = "limiting", ![q].route = rt]
    /\ UNCHANGED <<breakers, tokens, stored, up, sent, logged, ending, watch>>

RefuseKey(q) ==
    /\ req[q].at = "idle" /\ \E rt \in Guarded : TRUE
    /\ Refuse(q, 401, 401)
    /\ UNCHANGED <<breakers, tokens, stored, up, ending, watch>>

\* 3. AllowRequest.  A route without a rule, or whose rule has been deleted,
\* passes.
FindRule(q) ==
    /\ req[q].at = "limiting"
    /\ Move(q, IF RulesOf[req[q].route] \cap stored = {} THEN "resolving" ELSE "paying")
    /\ UNCHANGED <<breakers, tokens, stored, up, sent, logged, ending, watch>>

Pay(q) ==
    /\ tokens' = [r \in Rules |->
                    IF r \in RulesOf[req[q].route] THEN tokens[r] - 1 ELSE tokens[r]]
    /\ Move(q, "resolving")
    /\ UNCHANGED <<breakers, stored, up, sent, logged, ending, watch>>

\* Faulty AllowRequest, for the checks: takes a token that is not there.
PassLimitEmpty(q) == req[q].at = "paying" /\ Pay(q)

\* Allow of the rule's bucket; it is there still if the rule has just gone.
PassLimit(q) ==
    /\ req[q].at = "paying"
    /\ \A r \in RulesOf[req[q].route] : tokens[r] > 0
    /\ Pay(q)

RefuseLimit(q) ==
    /\ req[q].at = "paying"
    /\ \E r \in RulesOf[req[q].route] : tokens[r] = 0
    /\ Refuse(q, 429, 429)
    /\ UNCHANGED <<breakers, tokens, stored, up, ending, watch>>

\* 4. GetService: a route may point to a service that has been deleted.
FindUpstream(q) ==
    /\ req[q].at = "resolving" /\ Upstream(q) \in stored
    /\ Move(q, "asking")
    /\ UNCHANGED <<breakers, tokens, stored, up, sent, logged, ending, watch>>

NoUpstream(q) ==
    /\ req[q].at = "resolving" /\ Upstream(q) \notin stored
    /\ Refuse(q, 502, 500)
    /\ ending' = [ending EXCEPT ![q] = "no address"]
    /\ UNCHANGED <<breakers, tokens, stored, up, watch>>

-----------------------------------------------------------------------------
\* 5. AllowService.
PassBreaker(q) ==
    LET s == Upstream(q)
        b == breakers[s]
    IN  /\ req[q].at = "asking" /\ Admits(b)
        /\ breakers' = [breakers EXCEPT ![s] = AfterAllow(b)]
        /\ watch' = IF b.state = "open"
                    THEN [watch EXCEPT ![s] = [probing |-> {q}, probeLost |-> FALSE,
                                               sinceProbe |-> 0]]
                    ELSE watch
        /\ Move(q, "proxying")
        /\ UNCHANGED <<tokens, stored, up, sent, logged, ending>>

RefuseBreaker(q) ==
    /\ req[q].at = "asking" /\ ~Admits(breakers[Upstream(q)])
    /\ Refuse(q, 503, 503)
    /\ UNCHANGED <<breakers, tokens, stored, up, ending, watch>>

\* What comes back of a forward: the upstream's status, or the proxy's 502
\* when there is no answer.
Replies(q) == IF Upstream(q) \in up THEN {200, 404} ELSE {502}

\* 6. proxyRequest.  ModifyResponse or ErrorHandler notes the status.
Answer(q) ==
    /\ req[q].at = "proxying"
    /\ \E status \in Replies(q) :
          /\ req' = [req EXCEPT ![q].at = "reporting", ![q].status = status]
          /\ Send(q, status)
    /\ UNCHANGED <<breakers, tokens, stored, up, logged, ending, watch>>

\* The breaker will not hear of this forward.
Unreported(q) ==
    LET s == Upstream(q) IN
    watch' = [watch EXCEPT
                ![s].probing = @ \ {q},
                ![s].probeLost = @ \/ (q \in watch[s].probing
                                       /\ breakers[s].state = "half-open")]

\* The base URL, which any update of the service may have changed and no
\* validation parses, does not parse: an early return, before the report.
BadAddress(q) ==
    /\ req[q].at = "proxying"
    /\ Finish(q, "logging", 502)
    /\ Send(q, 500)
    /\ ending' = [ending EXCEPT ![q] = "no address"]
    /\ Unreported(q)
    /\ UNCHANGED <<breakers, tokens, stored, up, logged>>

\* The upstream's body is cut off when its status has been copied to the
\* client: ReverseProxy panics, and the recovery middleware catches it outside
\* the handler.
Abort(q) ==
    /\ req[q].at = "proxying"
    /\ \E status \in Replies(q) : Send(q, status)
    /\ ending' = [ending EXCEPT ![q] = "cut off"]
    /\ Unreported(q)
    /\ Finish(q, "done", 200)
    /\ UNCHANGED <<breakers, tokens, stored, up, logged>>

\* Faulty RecordServiceResult, for the checks: takes a 5xx for a success.
ReportAllGood(q) ==
    LET s == Upstream(q) IN
    /\ req[q].at = "reporting"
    /\ breakers' = [breakers EXCEPT ![s] = AfterSuccess(@)]
    /\ watch' = [watch EXCEPT ![s].probing = @ \ {q}, ![s].probeLost = FALSE]
    /\ Finish(q, "logging", req[q].status)
    /\ UNCHANGED <<tokens, stored, up, sent, logged, ending>>

\* RecordServiceResult, status < 500.
Report(q) ==
    LET s == Upstream(q) IN
    /\ req[q].at = "reporting"
    /\ breakers' = [breakers EXCEPT ![s] = IF req[q].status < 500 THEN AfterSuccess(@)
                                                                  ELSE AfterFailure(@)]
    /\ watch' = [watch EXCEPT ![s].probing = @ \ {q}, ![s].probeLost = FALSE]
    /\ Finish(q, "logging", req[q].status)
    /\ UNCHANGED <<tokens, stored, up, sent, logged, ending>>

\* Faulty recordGatewayLog, for the checks: has no entry for a success.
LogFailures(q) ==
    /\ req[q].at = "logging"
    /\ logged' = IF req[q].status < 400 THEN logged
                 ELSE [logged EXCEPT ![q] = Append(@, req[q].status)]
    /\ Finish(q, "done", 200)
    /\ UNCHANGED <<breakers, tokens, stored, up, sent, ending, watch>>

\* recordGatewayLog with the status proxyRequest returns.
Log(q) ==
    /\ req[q].at = "logging"
    /\ logged' = [logged EXCEPT ![q] = Append(@, req[q].status)]
    /\ Finish(q, "done", 200)
    /\ UNCHANGED <<breakers, tokens, stored, up, sent, ending, watch>>

Leave(q) ==
    /\ req[q].at = "done"
    /\ req' = [req EXCEPT ![q] = Idle]
    /\ sent' = [sent EXCEPT ![q] = <<>>] /\ logged' = [logged EXCEPT ![q] = <<>>]
    /\ ending' = [ending EXCEPT ![q] = "plain"]
    /\ UNCHANGED <<breakers, tokens, stored, up, watch>>

-----------------------------------------------------------------------------
DeleteService(s) ==
    /\ s \in stored
    /\ stored' = stored \ {s}
    /\ UNCHANGED <<breakers, tokens, up, req, sent, logged, ending, watch>>

DeleteRule(r) ==
    /\ r \in stored
    /\ stored' = stored \ {r}
    /\ UNCHANGED <<breakers, tokens, up, req, sent, logged, ending, watch>>

UpstreamToggles(s) ==
    /\ up' = IF s \in up THEN up \ {s} ELSE up \cup {s}
    /\ UNCHANGED <<breakers, tokens, stored, req, sent, logged, ending, watch>>

Refill(r) ==
    /\ tokens[r] < Burst
    /\ tokens' = [tokens EXCEPT ![r] = @ + 1]
    /\ UNCHANGED <<breakers, stored, up, req, sent, logged, ending, watch>>

Tick ==
    /\ breakers' = [s \in Services |-> AfterTick(breakers[s])]
    /\ watch' = [s \in Services |-> [watch[s] EXCEPT
                    !.sinceProbe = Saturate(@ + 1, ResetTimeout)]]
    /\ UNCHANGED <<tokens, stored, up, req, sent, logged, ending>>

Handle(q) ==
    \/ FindRule(q) \/ PassLimit(q) \/ RefuseLimit(q)
    \/ FindUpstream(q) \/ NoUpstream(q) \/ PassBreaker(q) \/ RefuseBreaker(q)
    \/ Answer(q) \/ BadAddress(q) \/ Abort(q) \/ Report(q) \/ Log(q) \/ Leave(q)

Next ==
    \/ \E q \in Requests : Handle(q) \/ RefuseKey(q) \/ \E rt \in Routes : Arrive(q, rt)
    \/ \E s \in Services : DeleteService(s) \/ UpstreamToggles(s)
    \/ \E r \in Rules : DeleteRule(r) \/ Refill(r)
    \/ Tick

Spec == Init /\ [][Next]_vars

-----------------------------------------------------------------------------
\* The abstract breaker of service s: to it, a request is a caller only from
\* Allow's answer to its report.
Call(s, q) ==
    CASE req[q].at = "proxying" /\ Upstream(q) = s -> "forwarding"
      [] req[q].at = "reporting" /\ Upstream(q) = s ->
            IF req[q].status < 500 THEN "succeeded" ELSE "failed"
      [] OTHER -> "idle"

BreakerOf(s) == INSTANCE CircuitBreaker WITH
    Callers    <- Requests,
    breaker    <- breakers[s],
    call       <- [q \in Requests |-> Call(s, q)],
    up         <- s \in up,
    probing    <- watch[s].probing,
    probeLost  <- watch[s].probeLost,
    sinceProbe <- watch[s].sinceProbe

\* The pipeline drives every service's breaker as CircuitBreaker says it is
\* driven, so what is shown there of one breaker and its callers holds of the
\* gateway: requests for other services never touch it, no request reports
\* twice, or without having been admitted.
ImplementsBreaker ==
    /\ \A s \in Services : BreakerOf(s)!Init
    /\ [][ \A s \in Services : BreakerOf(s)!Next \/ UNCHANGED BreakerOf(s)!vars ]_vars

\* A request whose handler is over has been answered once and logged once,
\* with the status the client saw; but one whose forward was cut off is never
\* logged, whatever it was sent, and one whose upstream is missing or has no
\* usable address is sent 500 and logged as 502.
LoggedAsSent ==
    \A q \in Requests : req[q].at = "done" =>
        CASE ending[q] = "plain"      -> Len(sent[q]) = 1 /\ logged[q] = sent[q]
          [] ending[q] = "no address" -> sent[q] = <<500>> /\ logged[q] = <<502>>
          [] ending[q] = "cut off"    -> Len(sent[q]) = 1 /\ logged[q] = <<>>
=============================================================================
