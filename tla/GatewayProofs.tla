---------------------------- MODULE GatewayProofs ----------------------------
(***************************************************************************)
(* Proofs about Gateway, for any requests, routes, services, rules, breaker   *)
(* parameters and burst.                                                      *)
(***************************************************************************)
EXTENDS Gateway, TLAPS

\* Every method of a breaker leaves a breaker.
LEMMA BreakerKept ==
    ASSUME NEW b \in Breaker
    PROVE  /\ AfterAllow(b) \in Breaker /\ AfterSuccess(b) \in Breaker
           /\ AfterFailure(b) \in Breaker /\ AfterTick(b) \in Breaker
<1> USE BreakerAssumption DEF BreakerAssumption, Breaker, States
<1>1. AfterAllow(b) \in Breaker
    BY DEF AfterAllow
<1>2. AfterSuccess(b) \in Breaker
    <2>1. 0 \in 0 .. FailureThreshold
        OBVIOUS
    <2> QED BY <2>1 DEF AfterSuccess
<1>3. AfterFailure(b) \in Breaker
    <2>1. Saturate(b.consecutiveFailures + 1, FailureThreshold) \in 0 .. FailureThreshold
        BY DEF Saturate
    <2> QED BY <2>1 DEF AfterFailure
<1>4. AfterTick(b) \in Breaker
    <2>1. Saturate(b.sinceFailure + 1, ResetTimeout) \in 0 .. ResetTimeout
        BY DEF Saturate
    <2> QED BY <2>1 DEF AfterTick
<1> QED BY <1>1, <1>2, <1>3, <1>4

LEMMA IdleTyped == Idle \in [at : Places, route : Routes, status : Statuses]
<1>1. AnyRoute \in Routes
    BY GatewayAssumption DEF GatewayAssumption, AnyRoute
<1> QED BY <1>1 DEF Idle, Places, Statuses

\* What Refuse and Finish write is of its type.
LEMMA FinishTyped ==
    ASSUME TypeOK, NEW q \in Requests, NEW place \in Places, NEW status \in Statuses,
           Finish(q, place, status)
    PROVE  req' \in [Requests -> [at : Places, route : Routes, status : Statuses]]
BY IdleTyped DEF TypeOK, Finish

LEMMA SendTyped ==
    ASSUME TypeOK, NEW q \in Requests, NEW status \in Statuses, Send(q, status)
    PROVE  sent' \in [Requests -> Seq(Statuses)]
BY DEF TypeOK, Send

LEMMA RepliesTyped == \A q \in Requests : Replies(q) \subseteq Statuses
BY DEF Replies, Statuses

LEMMA RefuseTyped ==
    ASSUME TypeOK, NEW q \in Requests, NEW logs \in Statuses, NEW sends \in Statuses,
           Refuse(q, logs, sends)
    PROVE  /\ req' \in [Requests -> [at : Places, route : Routes, status : Statuses]]
           /\ sent' \in [Requests -> Seq(Statuses)]
           /\ logged' \in [Requests -> Seq(Statuses)]
<1>1. Finish(q, "done", 200)
    BY DEF Refuse
<1>2. "done" \in Places /\ 200 \in Statuses
    BY DEF Places, Statuses
<1> QED BY <1>1, <1>2, FinishTyped, SendTyped DEF TypeOK, Refuse

LEMMA UpstreamTyped ==
    ASSUME TypeOK, NEW q \in Requests
    PROVE  /\ Upstream(q) \in Services
           /\ RulesOf[req[q].route] \subseteq Rules
BY GatewayAssumption DEF GatewayAssumption, TypeOK, Upstream

\* Breakers, buckets, requests and what they were sent and logged are of their
\* types, for the pipeline takes no token that is not there.
THEOREM TypeCorrect == Spec => []TypeOK
<1> USE DEF TypeOK
<1>1. Init => TypeOK
    <2> SUFFICES ASSUME Init PROVE TypeOK
        OBVIOUS
    <2>1. NewBreaker \in Breaker
        BY BreakerAssumption DEF BreakerAssumption, NewBreaker, Breaker, States
    <2>2. [probing |-> {}, probeLost |-> FALSE, sinceProbe |-> ResetTimeout]
              \in [probing : SUBSET Requests, probeLost : BOOLEAN, sinceProbe : 0 .. ResetTimeout]
        BY BreakerAssumption DEF BreakerAssumption
    <2>3. Burst \in 0 .. Burst
        BY GatewayAssumption DEF GatewayAssumption
    <2> QED BY <2>1, <2>2, <2>3, IdleTyped DEF Init, Endings
<1>2. TypeOK /\ [Next]_vars => TypeOK'
    <2> SUFFICES ASSUME TypeOK, [Next]_vars PROVE TypeOK'
        OBVIOUS
    <2>1. ASSUME NEW q \in Requests, Handle(q) \/ RefuseKey(q) PROVE TypeOK'
        <3>0. /\ 200 \in Statuses /\ 401 \in Statuses /\ 429 \in Statuses
              /\ 500 \in Statuses /\ 502 \in Statuses /\ 503 \in Statuses
              /\ "done" \in Places /\ "logging" \in Places
            BY DEF Statuses, Places
        <3>1. CASE PassLimit(q)
            <4>1. Burst \in Nat /\ \A r \in RulesOf[req[q].route] : tokens[r] > 0
                BY <3>1, GatewayAssumption DEF GatewayAssumption, PassLimit
            <4>2. \A r \in Rules : r \in RulesOf[req[q].route] => tokens[r] - 1 \in 0 .. Burst
                BY <4>1
            <4>3. tokens' \in [Rules -> 0 .. Burst]
                BY <3>1, <4>2 DEF PassLimit, Pay
            <4>4. req' \in [Requests -> [at : Places, route : Routes, status : Statuses]]
                BY <3>1 DEF PassLimit, Pay, Move, Places
            <4> QED BY <3>1, <4>3, <4>4 DEF PassLimit, Pay
        <3>2. CASE RefuseKey(q) \/ RefuseLimit(q) \/ NoUpstream(q) \/ RefuseBreaker(q)
            <4>1. /\ req' \in [Requests -> [at : Places, route : Routes, status : Statuses]]
                  /\ sent' \in [Requests -> Seq(Statuses)]
                  /\ logged' \in [Requests -> Seq(Statuses)]
                <5> HIDE DEF TypeOK
                <5>1. Refuse(q, 401, 401) \/ Refuse(q, 429, 429) \/ Refuse(q, 502, 500)
                      \/ Refuse(q, 503, 503)
                    BY <3>2 DEF RefuseKey, RefuseLimit, NoUpstream, RefuseBreaker
                <5> QED BY <3>0, <5>1, RefuseTyped
            <4>2. ending' \in [Requests -> Endings]
                BY <3>2 DEF RefuseKey, RefuseLimit, NoUpstream, RefuseBreaker, Endings
            <4> QED BY <3>2, <4>1, <4>2 DEF RefuseKey, RefuseLimit, NoUpstream, RefuseBreaker
        <3>3. CASE FindRule(q) \/ FindUpstream(q)
            <4>1. PICK place \in Places : Move(q, place)
                BY <3>3 DEF FindRule, FindUpstream, Places
            <4>2. req' \in [Requests -> [at : Places, route : Routes, status : Statuses]]
                BY <4>1 DEF Move
            <4> QED BY <3>3, <4>2 DEF FindRule, FindUpstream
        <3>4. CASE PassBreaker(q)
            <4>1. breakers' \in [Services -> Breaker]
                BY <3>4, UpstreamTyped, BreakerKept DEF PassBreaker
            <4>2. watch' \in [Services -> [probing : SUBSET Requests, probeLost : BOOLEAN,
                                            sinceProbe : 0 .. ResetTimeout]]
                BY <3>4, UpstreamTyped, BreakerAssumption DEF BreakerAssumption, PassBreaker
            <4> QED BY <3>4, <4>1, <4>2 DEF PassBreaker, Move, Places
        <3>5. CASE Answer(q)
            <4>1. PICK status \in Statuses :
                      /\ req' = [req EXCEPT ![q].at = "reporting", ![q].status = status]
                      /\ Send(q, status)
                BY <3>5, RepliesTyped DEF Answer
            <4>2. req' \in [Requests -> [at : Places, route : Routes, status : Statuses]]
                <5>1. "reporting" \in Places
                    BY DEF Places
                <5> QED BY <4>1, <5>1
            <4> QED BY <3>5, <4>1, <4>2, SendTyped DEF Answer
        <3>6. CASE BadAddress(q) \/ Abort(q)
            <4>1. watch' \in [Services -> [probing : SUBSET Requests, probeLost : BOOLEAN,
                                            sinceProbe : 0 .. ResetTimeout]]
                <5> DEFINE lost == watch[Upstream(q)].probeLost
                                     \/ (q \in watch[Upstream(q)].probing
                                         /\ breakers[Upstream(q)].state = "half-open")
                <5>1. Unreported(q) /\ Upstream(q) \in Services
                    BY <3>6, UpstreamTyped DEF BadAddress, Abort
                <5>2. lost \in BOOLEAN
                    BY Zenon
                <5>3. watch' = [watch EXCEPT ![Upstream(q)].probing = @ \ {q},
                                             ![Upstream(q)].probeLost = lost]
                    BY <5>1, Zenon DEF Unreported
                <5> HIDE DEF lost
                <5> QED BY <5>1, <5>2, <5>3
            <4>2. req' \in [Requests -> [at : Places, route : Routes, status : Statuses]]
                <5> HIDE DEF TypeOK
                <5>1. Finish(q, "logging", 502) \/ Finish(q, "done", 200)
                    BY <3>6 DEF BadAddress, Abort
                <5> QED BY <3>0, <5>1, FinishTyped
            <4>3. sent' \in [Requests -> Seq(Statuses)]
                <5> HIDE DEF TypeOK
                <5>1. CASE BadAddress(q)
                    <6>1. Send(q, 500)
                        BY <5>1 DEF BadAddress
                    <6> QED BY <3>0, <6>1, SendTyped
                <5>2. CASE Abort(q)
                    BY <5>2, RepliesTyped, SendTyped DEF Abort
                <5> QED BY <3>6, <5>1, <5>2
            <4>4. ending' \in [Requests -> Endings]
                BY <3>6 DEF BadAddress, Abort, Endings
            <4> QED BY <3>6, <4>1, <4>2, <4>3, <4>4 DEF BadAddress, Abort
        <3>7. CASE Report(q)
            <4>1. breakers' \in [Services -> Breaker]
                BY <3>7, UpstreamTyped, BreakerKept DEF Report
            <4>2. watch' \in [Services -> [probing : SUBSET Requests, probeLost : BOOLEAN,
                                            sinceProbe : 0 .. ResetTimeout]]
                BY <3>7, UpstreamTyped DEF Report
            <4>3. req' \in [Requests -> [at : Places, route : Routes, status : Statuses]]
                BY <3>0, <3>7, FinishTyped DEF Report
            <4> QED BY <3>7, <4>1, <4>2, <4>3 DEF Report
        <3>8. CASE Log(q)
            BY <3>0, <3>8, FinishTyped DEF Log
        <3>9. CASE Leave(q)
            <4>1. req' \in [Requests -> [at : Places, route : Routes, status : Statuses]]
                BY <3>9, IdleTyped DEF Leave
            <4>2. /\ sent' \in [Requests -> Seq(Statuses)]
                  /\ logged' \in [Requests -> Seq(Statuses)]
                <5>1. <<>> \in Seq(Statuses)
                    OBVIOUS
                <5> QED BY <3>9, <5>1 DEF Leave
            <4>3. ending' \in [Requests -> Endings]
                BY <3>9 DEF Leave, Endings
            <4> QED BY <3>9, <4>1, <4>2, <4>3 DEF Leave
        <3> QED BY <2>1, <3>1, <3>2, <3>3, <3>4, <3>5, <3>6, <3>7, <3>8, <3>9 DEF Handle
    <2>2. ASSUME NEW q \in Requests, NEW rt \in Routes, Arrive(q, rt) PROVE TypeOK'
        <3>1. req' \in [Requests -> [at : Places, route : Routes, status : Statuses]]
            BY <2>2, ZenonT(40) DEF Arrive, Places
        <3> QED BY <2>2, <3>1 DEF Arrive
    <2>3. ASSUME NEW s \in Services, DeleteService(s) \/ UpstreamToggles(s) PROVE TypeOK'
        BY <2>3 DEF DeleteService, UpstreamToggles
    <2>4. ASSUME NEW r \in Rules, DeleteRule(r) \/ Refill(r) PROVE TypeOK'
        BY <2>4, GatewayAssumption DEF GatewayAssumption, DeleteRule, Refill
    <2>5. CASE Tick
        <3>1. \A s \in Services : Saturate(watch[s].sinceProbe + 1, ResetTimeout) \in 0 .. ResetTimeout
            BY BreakerAssumption DEF BreakerAssumption, Saturate
        <3> QED BY <2>5, <3>1, BreakerKept DEF Tick
    <2>6. CASE UNCHANGED vars
        BY <2>6 DEF vars
    <2> QED BY <2>1, <2>2, <2>3, <2>4, <2>5, <2>6 DEF Next
<1> QED BY <1>1, <1>2, PTL DEF Spec

-----------------------------------------------------------------------------
\* What a request r has been sent and logged at each place of the handler, and
\* how it ended.
Accounted(r, sends, logs, end) ==
    /\ r.at \in {"idle", "limiting", "paying", "resolving", "asking", "proxying"} =>
          sends = <<>> /\ logs = <<>> /\ end = "plain"
    /\ r.at = "reporting" => sends = <<r.status>> /\ logs = <<>> /\ end = "plain"
    /\ r.at = "logging" =>
          /\ logs = <<>>
          /\ \/ end = "plain" /\ sends = <<r.status>>
             \/ end = "no address" /\ sends = <<500>> /\ r.status = 502
    /\ r.at = "done" =>
          \/ end = "plain" /\ Len(sends) = 1 /\ logs = sends
          \/ end = "no address" /\ sends = <<500>> /\ logs = <<502>>
          \/ end = "cut off" /\ Len(sends) = 1 /\ logs = <<>>

Answered(q) == Accounted(req[q], sent[q], logged[q], ending[q])

AllAnswered == \A q \in Requests : Answered(q)

\* A step of one request leaves the others' answers alone.
LEMMA OthersAnswered ==
    ASSUME AllAnswered, NEW q \in Requests, Answered(q)',
           \A p \in Requests \ {q} :
               /\ req'[p] = req[p] /\ sent'[p] = sent[p] /\ logged'[p] = logged[p]
               /\ ending'[p] = ending[p]
    PROVE  AllAnswered'
<1> SUFFICES ASSUME NEW p \in Requests \ {q} PROVE Answered(p)'
    BY DEF AllAnswered
<1>1. /\ Answered(p)
      /\ req'[p] = req[p] /\ sent'[p] = sent[p] /\ logged'[p] = logged[p]
      /\ ending'[p] = ending[p]
    BY DEF AllAnswered
<1> QED BY <1>1 DEF Answered

\* The request that moves is where Finish puts it, the others where they were.
LEMMA FinishSays ==
    ASSUME TypeOK, NEW q \in Requests, NEW place \in Places, NEW status \in Statuses,
           Finish(q, place, status)
    PROVE  /\ req'[q].at = place /\ req'[q].status = status
           /\ \A p \in Requests \ {q} : req'[p] = req[p]
BY DEF TypeOK, Finish, Idle

LEMMA SendSays ==
    ASSUME TypeOK, NEW q \in Requests, NEW status \in Statuses, Send(q, status)
    PROVE  /\ sent[q] = <<>> => sent'[q] = <<status>>
           /\ \A p \in Requests \ {q} : sent'[p] = sent[p]
<1>1. sent \in [Requests -> Seq(Statuses)] /\ sent' = [sent EXCEPT ![q] = Append(@, status)]
    BY DEF TypeOK, Send
<1>2. sent'[q] = Append(sent[q], status) /\ \A p \in Requests \ {q} : sent'[p] = sent[p]
    BY <1>1
<1>3. Append(<<>>, status) = <<status>>
    OBVIOUS
<1> QED BY <1>2, <1>3

\* One refused before it is forwarded is logged and answered once, as it ends.
LEMMA RefuseSays ==
    ASSUME TypeOK, NEW q \in Requests, NEW logs \in Statuses, NEW sends \in Statuses,
           Refuse(q, logs, sends), sent[q] = <<>>, logged[q] = <<>>
    PROVE  /\ req'[q].at = "done" /\ sent'[q] = <<sends>> /\ logged'[q] = <<logs>>
           /\ \A p \in Requests \ {q} :
                  req'[p] = req[p] /\ sent'[p] = sent[p] /\ logged'[p] = logged[p]
<1>1. Finish(q, "done", 200) /\ Send(q, sends) /\ logged' = [logged EXCEPT ![q] = Append(@, logs)]
    BY DEF Refuse
<1>2. "done" \in Places /\ 200 \in Statuses
    BY DEF Places, Statuses
<1>3. logged'[q] = <<logs>> /\ \A p \in Requests \ {q} : logged'[p] = logged[p]
    <2>1. logged \in [Requests -> Seq(Statuses)]
        BY DEF TypeOK
    <2>2. logged'[q] = Append(<<>>, logs) /\ \A p \in Requests \ {q} : logged'[p] = logged[p]
        BY <1>1, <2>1
    <2> QED BY <2>2
<1> QED BY <1>1, <1>2, <1>3, FinishSays, SendSays

LEMMA AnsweredStep == TypeOK /\ AllAnswered /\ [Next]_vars => AllAnswered'
<1> SUFFICES ASSUME TypeOK, AllAnswered, [Next]_vars PROVE AllAnswered'
    OBVIOUS
<1>0. /\ 200 \in Statuses /\ 401 \in Statuses /\ 429 \in Statuses
      /\ 500 \in Statuses /\ 502 \in Statuses /\ 503 \in Statuses
      /\ "done" \in Places /\ "logging" \in Places
    BY DEF Statuses, Places
<1>1. ASSUME NEW q \in Requests, Handle(q) \/ RefuseKey(q) PROVE AllAnswered'
    <2>1. Answered(q) /\ req[q].status \in Statuses /\ req[q].at \in Places
        BY DEF AllAnswered, TypeOK
    <2>2. CASE RefuseKey(q) \/ RefuseLimit(q) \/ RefuseBreaker(q)
        <3>1. sent[q] = <<>> /\ logged[q] = <<>> /\ ending[q] = "plain" /\ ending' = ending
            <4>1. req[q].at \in {"idle", "limiting", "paying", "asking"} /\ ending' = ending
                BY <2>2 DEF RefuseKey, RefuseLimit, RefuseBreaker
            <4> QED BY <2>1, <4>1 DEF Answered, Accounted
        <3>2. PICK status \in Statuses : Refuse(q, status, status)
            BY <1>0, <2>2 DEF RefuseKey, RefuseLimit, RefuseBreaker
        <3>3. /\ req'[q].at = "done" /\ sent'[q] = <<status>> /\ logged'[q] = <<status>>
              /\ \A p \in Requests \ {q} :
                     req'[p] = req[p] /\ sent'[p] = sent[p] /\ logged'[p] = logged[p]
            BY <3>1, <3>2, RefuseSays
        <3>4. Answered(q)'
            BY <3>1, <3>3 DEF Answered, Accounted
        <3> QED BY <3>1, <3>3, <3>4, OthersAnswered
    <2>3. CASE NoUpstream(q)
        <3>1. sent[q] = <<>> /\ logged[q] = <<>>
            BY <2>1, <2>3 DEF Answered, Accounted, NoUpstream
        <3>2. Refuse(q, 502, 500) /\ ending' = [ending EXCEPT ![q] = "no address"]
            BY <2>3 DEF NoUpstream
        <3>3. /\ req'[q].at = "done" /\ sent'[q] = <<500>> /\ logged'[q] = <<502>>
              /\ \A p \in Requests \ {q} :
                     req'[p] = req[p] /\ sent'[p] = sent[p] /\ logged'[p] = logged[p]
            <4>1. 502 \in Statuses /\ 500 \in Statuses
                BY <1>0
            <4>2. Refuse(q, 502, 500)
                BY <3>2
            <4> QED BY <3>1, <4>1, <4>2, RefuseSays
        <3>4. ending'[q] = "no address" /\ \A p \in Requests \ {q} : ending'[p] = ending[p]
            BY <3>2 DEF TypeOK
        <3>5. Answered(q)'
            BY <3>3, <3>4 DEF Answered, Accounted
        <3>6. ASSUME NEW p \in Requests \ {q}
              PROVE  /\ req'[p] = req[p] /\ sent'[p] = sent[p] /\ logged'[p] = logged[p]
                     /\ ending'[p] = ending[p]
            <4>1. req'[p] = req[p] /\ sent'[p] = sent[p] /\ logged'[p] = logged[p]
                BY <3>3, <3>6
            <4>2. ending'[p] = ending[p]
                BY <3>4, <3>6
            <4> QED BY <4>1, <4>2
        <3> QED BY <3>5, <3>6, OthersAnswered
    <2>4. CASE FindRule(q) \/ PassLimit(q) \/ FindUpstream(q) \/ PassBreaker(q)
        <3>1. /\ req[q].at \in {"limiting", "paying", "resolving", "asking"}
              /\ UNCHANGED <<sent, logged, ending>>
              /\ \E place \in {"paying", "resolving", "asking", "proxying"} : Move(q, place)
            BY <2>4 DEF FindRule, PassLimit, Pay, FindUpstream, PassBreaker
        <3>2. /\ req'[q].at \in {"paying", "resolving", "asking", "proxying"}
              /\ \A p \in Requests \ {q} : req'[p] = req[p]
            BY <3>1 DEF TypeOK, Move
        <3>3. Answered(q)'
            BY <2>1, <3>1, <3>2 DEF Answered, Accounted
        <3> QED BY <3>1, <3>2, <3>3, OthersAnswered
    <2>5. CASE Answer(q)
        <3>1. PICK status \in Statuses :
                  /\ req' = [req EXCEPT ![q].at = "reporting", ![q].status = status]
                  /\ Send(q, status)
            BY <2>5, RepliesTyped DEF Answer
        <3>2. /\ req'[q].at = "reporting" /\ req'[q].status = status
              /\ \A p \in Requests \ {q} : req'[p] = req[p]
            BY <3>1 DEF TypeOK
        <3>3. sent[q] = <<>> /\ logged[q] = <<>> /\ ending[q] = "plain"
              /\ UNCHANGED <<logged, ending>>
            BY <2>1, <2>5 DEF Answered, Accounted, Answer
        <3>4. sent'[q] = <<status>> /\ \A p \in Requests \ {q} : sent'[p] = sent[p]
            BY <3>1, <3>3, SendSays
        <3>5. Answered(q)'
            BY <3>2, <3>3, <3>4 DEF Answered, Accounted
        <3> QED BY <3>2, <3>3, <3>4, <3>5, OthersAnswered
    <2>6. CASE BadAddress(q)
        <3>1. sent[q] = <<>> /\ logged[q] = <<>> /\ logged' = logged
            BY <2>1, <2>6 DEF Answered, Accounted, BadAddress
        <3>2. /\ Finish(q, "logging", 502) /\ Send(q, 500)
              /\ ending' = [ending EXCEPT ![q] = "no address"]
            BY <2>6 DEF BadAddress
        <3>3. /\ req'[q].at = "logging" /\ req'[q].status = 502
              /\ \A p \in Requests \ {q} : req'[p] = req[p]
            <4>1. "logging" \in Places /\ 502 \in Statuses
                BY <1>0
            <4>2. Finish(q, "logging", 502)
                BY <3>2
            <4> QED BY <4>1, <4>2, FinishSays
        <3>4. ending'[q] = "no address" /\ \A p \in Requests \ {q} : ending'[p] = ending[p]
            BY <3>2 DEF TypeOK
        <3>5. sent'[q] = <<500>> /\ \A p \in Requests \ {q} : sent'[p] = sent[p]
            <4>1. 500 \in Statuses
                BY <1>0
            <4>2. Send(q, 500)
                BY <3>2
            <4> QED BY <3>1, <4>1, <4>2, SendSays
        <3>6. Answered(q)'
            BY <3>1, <3>3, <3>4, <3>5 DEF Answered, Accounted
        <3>7. ASSUME NEW p \in Requests \ {q}
              PROVE  /\ req'[p] = req[p] /\ sent'[p] = sent[p] /\ logged'[p] = logged[p]
                     /\ ending'[p] = ending[p]
            <4>1. req'[p] = req[p]
                BY <3>3, <3>7
            <4>2. ending'[p] = ending[p]
                BY <3>4, <3>7
            <4>3. sent'[p] = sent[p] /\ logged'[p] = logged[p]
                BY <3>1, <3>5, <3>7
            <4> QED BY <4>1, <4>2, <4>3
        <3> QED BY <3>6, <3>7, OthersAnswered
    <2>7. CASE Abort(q)
        <3>1. sent[q] = <<>> /\ logged[q] = <<>> /\ logged' = logged
            BY <2>1, <2>7 DEF Answered, Accounted, Abort
        <3>2. PICK status \in Statuses : Send(q, status)
            BY <2>7, RepliesTyped DEF Abort
        <3>3. Finish(q, "done", 200) /\ ending' = [ending EXCEPT ![q] = "cut off"]
            BY <2>7 DEF Abort
        <3>4. /\ req'[q].at = "done" /\ sent'[q] = <<status>>
              /\ \A p \in Requests \ {q} : req'[p] = req[p] /\ sent'[p] = sent[p]
            <4>1. req'[q].at = "done" /\ \A p \in Requests \ {q} : req'[p] = req[p]
                <5>1. "done" \in Places /\ 200 \in Statuses
                    BY <1>0
                <5>2. Finish(q, "done", 200)
                    BY <3>3
                <5> QED BY <5>1, <5>2, FinishSays
            <4>2. sent'[q] = <<status>> /\ \A p \in Requests \ {q} : sent'[p] = sent[p]
                BY <3>1, <3>2, SendSays
            <4> QED BY <4>1, <4>2
        <3>5. ending'[q] = "cut off" /\ \A p \in Requests \ {q} : ending'[p] = ending[p]
            BY <3>3 DEF TypeOK
        <3>6. Answered(q)'
            BY <3>1, <3>4, <3>5 DEF Answered, Accounted
        <3> QED BY <3>1, <3>4, <3>5, <3>6, OthersAnswered
    <2>8. CASE Report(q)
        <3>1. /\ req[q].at = "reporting" /\ Finish(q, "logging", req[q].status)
              /\ UNCHANGED <<sent, logged, ending>>
            BY <2>8 DEF Report
        <3>2. /\ req'[q].at = "logging" /\ req'[q].status = req[q].status
              /\ \A p \in Requests \ {q} : req'[p] = req[p]
            BY <1>0, <2>1, <3>1, FinishSays
        <3>3. Answered(q)'
            BY <2>1, <3>1, <3>2 DEF Answered, Accounted
        <3> QED BY <3>1, <3>2, <3>3, OthersAnswered
    <2>9. CASE Log(q)
        <3>1. /\ req[q].at = "logging" /\ Finish(q, "done", 200)
              /\ logged' = [logged EXCEPT ![q] = Append(@, req[q].status)]
              /\ UNCHANGED <<sent, ending>>
            BY <2>9 DEF Log
        <3>2. req'[q].at = "done" /\ \A p \in Requests \ {q} : req'[p] = req[p]
            BY <1>0, <3>1, FinishSays
        <3>3. /\ logged'[q] = <<req[q].status>>
              /\ \A p \in Requests \ {q} : logged'[p] = logged[p]
            <4>1. logged \in [Requests -> Seq(Statuses)]
                BY DEF TypeOK
            <4>2. logged[q] = <<>>
                BY <2>1, <3>1 DEF Answered, Accounted
            <4>3. /\ logged'[q] = Append(<<>>, req[q].status)
                  /\ \A p \in Requests \ {q} : logged'[p] = logged[p]
                BY <3>1, <4>1, <4>2
            <4> QED BY <2>1, <4>3
        <3>4. Answered(q)'
            <4>1. ending'[q] = ending[q] /\ sent'[q] = sent[q]
                BY <3>1
            <4>2. CASE ending[q] = "plain" /\ sent[q] = <<req[q].status>>
                <5>1. Len(sent[q]) = 1 /\ logged'[q] = sent[q]
                    BY <3>3, <4>2
                <5>2. req'[q].at = "done" /\ ending'[q] = "plain" /\ sent'[q] = sent[q]
                    BY <3>2, <4>1, <4>2, Zenon
                <5> QED BY <5>1, <5>2 DEF Answered, Accounted
            <4>3. CASE ending[q] = "no address" /\ sent[q] = <<500>> /\ req[q].status = 502
                <5>1. logged'[q] = <<502>>
                    <6>1. logged'[q] = <<req[q].status>>
                        BY <3>3
                    <6> QED BY <4>3, <6>1, Zenon
                <5>2. ending'[q] = "no address"
                    BY <4>1, <4>3
                <5>3. sent'[q] = <<500>>
                    BY <4>1, <4>3
                <5> QED BY <3>2, <5>1, <5>2, <5>3 DEF Answered, Accounted
            <4> QED BY <2>1, <3>1, <4>2, <4>3 DEF Answered, Accounted
        <3> QED BY <3>1, <3>2, <3>3, <3>4, OthersAnswered
    <2>10. CASE Leave(q)
        <3>1. /\ req'[q].at = "idle" /\ sent'[q] = <<>> /\ logged'[q] = <<>>
              /\ ending'[q] = "plain"
              /\ \A p \in Requests \ {q} :
                     /\ req'[p] = req[p] /\ sent'[p] = sent[p] /\ logged'[p] = logged[p]
                     /\ ending'[p] = ending[p]
            BY <2>10 DEF TypeOK, Leave, Idle
        <3>2. Answered(q)'
            BY <3>1 DEF Answered, Accounted
        <3> QED BY <3>1, <3>2, OthersAnswered
    <2> QED BY <1>1, <2>2, <2>3, <2>4, <2>5, <2>6, <2>7, <2>8, <2>9, <2>10 DEF Handle
<1>2. ASSUME NEW q \in Requests, NEW rt \in Routes, Arrive(q, rt) PROVE AllAnswered'
    <2>1. /\ Answered(q) /\ req[q].at = "idle" /\ req'[q].at = "limiting"
          /\ UNCHANGED <<sent, logged, ending>>
          /\ \A p \in Requests \ {q} : req'[p] = req[p]
        BY <1>2 DEF AllAnswered, Arrive, TypeOK
    <2>2. Answered(q)'
        BY <2>1 DEF Answered, Accounted
    <2> QED BY <2>1, <2>2, OthersAnswered
<1>3. ASSUME UNCHANGED <<req, sent, logged, ending>> PROVE AllAnswered'
    <2> SUFFICES ASSUME NEW q \in Requests PROVE Answered(q)'
        BY DEF AllAnswered
    <2>1. Answered(q)
        BY DEF AllAnswered
    <2>2. /\ req'[q] = req[q] /\ sent'[q] = sent[q] /\ logged'[q] = logged[q]
          /\ ending'[q] = ending[q]
        BY <1>3
    <2> QED BY <2>1, <2>2 DEF Answered
<1> QED BY <1>1, <1>2, <1>3
        DEF Next, DeleteService, DeleteRule, UpstreamToggles, Refill, Tick, vars

\* Wherever the handler returns (gateway_handler.go: each refusal, the early
\* return on a base URL that does not parse, the panic of a forward cut off, the
\* log at its end), its request has been sent one status and that one status is
\* logged once, but for the two endings the property names, each of which says
\* exactly what was sent and logged then.
THEOREM AnswersAreLogged == Spec => []LoggedAsSent
<1>1. Init => AllAnswered
    BY DEF Init, Idle, AllAnswered, Answered, Accounted
<1>2. AllAnswered => LoggedAsSent
    <2> SUFFICES ASSUME AllAnswered, NEW q \in Requests, req[q].at = "done"
                 PROVE  CASE ending[q] = "plain"      -> Len(sent[q]) = 1 /\ logged[q] = sent[q]
                          [] ending[q] = "no address" -> sent[q] = <<500>> /\ logged[q] = <<502>>
                          [] ending[q] = "cut off"    -> Len(sent[q]) = 1 /\ logged[q] = <<>>
        BY DEF LoggedAsSent
    <2>1. Answered(q)
        BY DEF AllAnswered
    <2> QED BY <2>1 DEF Answered, Accounted
<1> QED BY <1>1, <1>2, AnsweredStep, TypeCorrect, PTL DEF Spec

-----------------------------------------------------------------------------
\* CircuitBreaker's operators, as the instances have them, are Gateway's.
LEMMA SameOperators ==
    ASSUME NEW s, NEW b
    PROVE  /\ BreakerOf(s)!Admits(b) <=> Admits(b)
           /\ BreakerOf(s)!AfterAllow(b) = AfterAllow(b)
           /\ BreakerOf(s)!AfterSuccess(b) = AfterSuccess(b)
           /\ BreakerOf(s)!AfterFailure(b) = AfterFailure(b)
           /\ BreakerOf(s)!AfterTick(b) = AfterTick(b)
           /\ \A n, limit : BreakerOf(s)!Saturate(n, limit) = Saturate(n, limit)
BY DEF BreakerOf!Admits, BreakerOf!AfterAllow, BreakerOf!AfterSuccess, BreakerOf!AfterFailure,
       BreakerOf!AfterTick, BreakerOf!Saturate, BreakerOf!CooledDown,
       Admits, AfterAllow, AfterSuccess, AfterFailure, AfterTick, Saturate, CooledDown

\* A step that leaves the breaker of s alone, and every request where it is to it.
LEMMA Quiet ==
    ASSUME NEW s \in Services, breakers'[s] = breakers[s], watch'[s] = watch[s],
           s \in up' <=> s \in up, \A q \in Requests : Call(s, q)' = Call(s, q)
    PROVE  UNCHANGED BreakerOf(s)!vars
<1>1. [q \in Requests |-> Call(s, q)]' = [q \in Requests |-> Call(s, q)]
    OBVIOUS
<1>2. (s \in up)' = (s \in up)
    OBVIOUS
<1> QED BY <1>1, <1>2 DEF BreakerOf!vars

\* The calls of s before and after a step of one request.
LEMMA OneMoves ==
    ASSUME NEW s \in Services, NEW q \in Requests,
           \A p \in Requests \ {q} : req'[p] = req[p]
    PROVE  [p \in Requests |-> Call(s, p)]'
               = [[p \in Requests |-> Call(s, p)] EXCEPT ![q] = Call(s, q)']
<1>1. \A p \in Requests \ {q} : Call(s, p)' = Call(s, p)
    BY DEF Call, Upstream
<1> QED BY <1>1

LEMMA OneStays ==
    ASSUME NEW s \in Services, NEW q \in Requests, Call(s, q)' = Call(s, q),
           \A p \in Requests \ {q} : req'[p] = req[p]
    PROVE  \A p \in Requests : Call(s, p)' = Call(s, p)
BY DEF Call, Upstream

\* A breaker that is driven does a step of CircuitBreaker, or nothing.
Driven(s) == BreakerOf(s)!Next \/ UNCHANGED BreakerOf(s)!vars

\* A step of a request is one of its own service's breaker, and nothing to others.
LEMMA DrivenApart ==
    ASSUME TypeOK, NEW q \in Requests, NEW s \in Services, s # Upstream(q),
           \A t \in Services \ {Upstream(q)} :
               breakers'[t] = breakers[t] /\ watch'[t] = watch[t],
           up' = up, \A p \in Requests \ {q} : req'[p] = req[p],
           req'[q].route = req[q].route \/ req'[q].at \notin {"proxying", "reporting"}
    PROVE  Driven(s)
<1>1. Call(s, q) = "idle"
    BY DEF Call
<1>2. Call(s, q)' = "idle"
    BY DEF Call, Upstream
<1> QED BY <1>1, <1>2, OneStays, Quiet DEF Driven

\* A step of a request that no breaker sees.
LEMMA DrivenQuietly ==
    ASSUME NEW q \in Requests, UNCHANGED <<breakers, up, watch>>,
           \A p \in Requests \ {q} : req'[p] = req[p],
           req[q].at \notin {"proxying", "reporting"},
           req'[q].at \notin {"proxying", "reporting"}
    PROVE  \A s \in Services : Driven(s)
<1> SUFFICES ASSUME NEW s \in Services PROVE Driven(s)
    OBVIOUS
<1>1. Call(s, q) = "idle" /\ Call(s, q)' = "idle"
    BY DEF Call
<1> QED BY <1>1, OneStays, Quiet DEF Driven

\* A forward that ends without a report.
LEMMA UnreportedSays ==
    ASSUME TypeOK, NEW q \in Requests, Unreported(q), NEW s \in Services
    PROVE  IF s # Upstream(q) THEN watch'[s] = watch[s]
           ELSE /\ watch'[s].probing = watch[s].probing \ {q}
                /\ watch'[s].probeLost = (watch[s].probeLost
                       \/ (q \in watch[s].probing /\ breakers[s].state = "half-open"))
                /\ watch'[s].sinceProbe = watch[s].sinceProbe
<1> DEFINE lost == watch[Upstream(q)].probeLost
                     \/ (q \in watch[Upstream(q)].probing
                         /\ breakers[Upstream(q)].state = "half-open")
<1>1. watch' = [watch EXCEPT ![Upstream(q)].probing = @ \ {q},
                             ![Upstream(q)].probeLost = lost]
    BY Zenon DEF Unreported
<1> HIDE DEF lost
<1>2. IF s # Upstream(q) THEN watch'[s] = watch[s]
      ELSE /\ watch'[s].probing = watch[s].probing \ {q} /\ watch'[s].probeLost = lost
           /\ watch'[s].sinceProbe = watch[s].sinceProbe
    BY <1>1 DEF TypeOK
<1> QED BY <1>2, Zenon DEF lost

LEMMA DrivenByCall ==
    ASSUME TypeOK, NEW q \in Requests, NEW s \in Services, s = Upstream(q),
           PassBreaker(q) \/ Answer(q) \/ BadAddress(q) \/ Abort(q) \/ Report(q)
    PROVE  Driven(s) /\ \A t \in Services \ {s} : Driven(t)
<1>1. s \in Services
    OBVIOUS
<1>2. /\ \A t \in Services \ {s} : breakers'[t] = breakers[t] /\ watch'[t] = watch[t]
      /\ up' = up /\ \A p \in Requests \ {q} : req'[p] = req[p]
      /\ req'[q].route = req[q].route \/ req'[q].at \notin {"proxying", "reporting"}
    <2>1. CASE PassBreaker(q)
        BY <1>1, <2>1 DEF TypeOK, PassBreaker, Move
    <2>2. CASE Answer(q)
        <3>1. PICK status \in Replies(q) :
                  req' = [req EXCEPT ![q].at = "reporting", ![q].status = status]
            BY <2>2 DEF Answer
        <3>2. req \in [Requests -> [at : Places, route : Routes, status : Statuses]]
            BY DEF TypeOK
        <3>3. req'[q].route = req[q].route /\ \A p \in Requests \ {q} : req'[p] = req[p]
            BY <3>1, <3>2
        <3> QED BY <2>2, <3>3 DEF Answer
    <2>3. CASE BadAddress(q) \/ Abort(q)
        <3>1. Unreported(q) /\ UNCHANGED <<breakers, up>>
            BY <2>3 DEF BadAddress, Abort
        <3>2. \A t \in Services \ {s} : breakers'[t] = breakers[t] /\ watch'[t] = watch[t]
            BY <3>1, UnreportedSays
        <3>3. Finish(q, "logging", 502) \/ Finish(q, "done", 200)
            BY <2>3 DEF BadAddress, Abort
        <3>4. /\ req'[q].at = "logging" \/ req'[q].at = "done"
              /\ \A p \in Requests \ {q} : req'[p] = req[p]
            <4>1. CASE Finish(q, "logging", 502)
                BY <4>1 DEF TypeOK, Finish, Idle
            <4>2. CASE Finish(q, "done", 200)
                BY <4>2 DEF TypeOK, Finish, Idle
            <4> QED BY <3>3, <4>1, <4>2
        <3> QED BY <3>1, <3>2, <3>4
    <2>4. CASE Report(q)
        BY <1>1, <2>4 DEF TypeOK, Report, Finish, Idle
    <2> QED BY <2>1, <2>2, <2>3, <2>4
<1>3. [p \in Requests |-> Call(s, p)]'
          = [[p \in Requests |-> Call(s, p)] EXCEPT ![q] = Call(s, q)']
    BY <1>1, <1>2, OneMoves
<1> USE SameOperators
<1>4. BreakerOf(s)!Next
    <2>1. CASE PassBreaker(q)
        <3>1. Call(s, q) = "idle" /\ Call(s, q)' = "forwarding"
            BY <2>1 DEF TypeOK, PassBreaker, Move, Call, Upstream
        <3>2. Admits(breakers[s]) /\ breakers'[s] = AfterAllow(breakers[s]) /\ up' = up
            BY <1>1, <2>1 DEF TypeOK, PassBreaker
        <3>3. IF breakers'[s].state # breakers[s].state
              THEN /\ watch'[s].probing = {q} /\ watch'[s].probeLost = FALSE
                   /\ watch'[s].sinceProbe = 0
              ELSE watch'[s] = watch[s]
            BY <1>1, <2>1, <3>2
               DEF TypeOK, Breaker, States, PassBreaker, Admits, AfterAllow, CooledDown
        <3> QED BY <1>3, <3>1, <3>2, <3>3
                DEF BreakerOf!Next, BreakerOf!CallerStep, BreakerOf!Allow
    <2>2. CASE Answer(q)
        <3>1. Call(s, q) = "forwarding"
              /\ Call(s, q)' = IF s \in up THEN "succeeded" ELSE "failed"
            <4>1. PICK status \in Replies(q) :
                      req' = [req EXCEPT ![q].at = "reporting", ![q].status = status]
                BY <2>2 DEF Answer
            <4>2. /\ req[q].at = "proxying" /\ req'[q].at = "reporting"
                  /\ req'[q].status = status /\ req'[q].route = req[q].route
                <5>1. req \in [Requests -> [at : Places, route : Routes, status : Statuses]]
                    BY DEF TypeOK
                <5>2. req'[q].at = "reporting" /\ req'[q].status = status
                      /\ req'[q].route = req[q].route
                    BY <4>1, <5>1
                <5> QED BY <2>2, <5>2 DEF Answer
            <4>3. status < 500 <=> s \in up
                BY DEF Replies
            <4> QED BY <4>2, <4>3 DEF Call, Upstream
        <3>2. UNCHANGED <<breakers, up, watch>>
            BY <2>2 DEF Answer
        <3>3. BreakerOf(s)!Respond(q)
            BY <1>3, <3>1, <3>2 DEF BreakerOf!Respond
        <3> QED BY <3>3 DEF BreakerOf!Next, BreakerOf!CallerStep
    <2>3. CASE BadAddress(q) \/ Abort(q)
        <3>1. Call(s, q) = "forwarding" /\ Call(s, q)' = "idle"
            <4>1. req[q].at = "proxying" /\ (Finish(q, "logging", 502) \/ Finish(q, "done", 200))
                BY <2>3 DEF BadAddress, Abort
            <4>2. req'[q].at = "logging" \/ req'[q].at = "done"
                <5>1. CASE Finish(q, "logging", 502)
                    BY <5>1 DEF TypeOK, Finish, Idle
                <5>2. CASE Finish(q, "done", 200)
                    BY <5>2 DEF TypeOK, Finish, Idle
                <5> QED BY <4>1, <5>1, <5>2
            <4> QED BY <4>1, <4>2 DEF Call
        <3>2. UNCHANGED <<breakers, up>> /\ Unreported(q)
            BY <2>3 DEF BadAddress, Abort
        <3>3. /\ watch'[s].probing = watch[s].probing \ {q}
              /\ watch'[s].probeLost = (watch[s].probeLost
                     \/ (q \in watch[s].probing /\ breakers[s].state = "half-open"))
              /\ watch'[s].sinceProbe = watch[s].sinceProbe
            BY <3>2, UnreportedSays
        <3> QED BY <1>3, <3>1, <3>2, <3>3
                DEF BreakerOf!Next, BreakerOf!CallerStep, BreakerOf!Abandon
    <2>4. CASE Report(q)
        <3>1. Call(s, q) = IF req[q].status < 500 THEN "succeeded" ELSE "failed"
            BY <2>4 DEF Report, Call
        <3>2. Call(s, q)' = "idle" /\ up' = up
            BY <2>4 DEF TypeOK, Report, Finish, Idle, Call
        <3>3. /\ breakers'[s] = IF req[q].status < 500 THEN AfterSuccess(breakers[s])
                                                        ELSE AfterFailure(breakers[s])
              /\ watch'[s].probing = watch[s].probing \ {q} /\ watch'[s].probeLost = FALSE
              /\ watch'[s].sinceProbe = watch[s].sinceProbe
            <4> DEFINE good == req[q].status < 500
            <4>1. /\ breakers' = [breakers EXCEPT ![s] = IF good THEN AfterSuccess(@)
                                                                ELSE AfterFailure(@)]
                  /\ watch' = [watch EXCEPT ![s].probing = @ \ {q}, ![s].probeLost = FALSE]
                BY <2>4 DEF Report
            <4> HIDE DEF good
            <4>2. /\ breakers'[s] = IF good THEN AfterSuccess(breakers[s])
                                            ELSE AfterFailure(breakers[s])
                  /\ watch'[s].probing = watch[s].probing \ {q} /\ watch'[s].probeLost = FALSE
                  /\ watch'[s].sinceProbe = watch[s].sinceProbe
                BY <4>1 DEF TypeOK
            <4> QED BY <4>2 DEF good
        <3>4. CASE req[q].status < 500
            <4>1. BreakerOf(s)!RecordSuccess(q)
                BY <1>3, <3>1, <3>2, <3>3, <3>4 DEF BreakerOf!RecordSuccess
            <4> QED BY <4>1 DEF BreakerOf!Next, BreakerOf!CallerStep
        <3>5. CASE ~(req[q].status < 500)
            <4>1. BreakerOf(s)!RecordFailure(q)
                BY <1>3, <3>1, <3>2, <3>3, <3>5 DEF BreakerOf!RecordFailure
            <4> QED BY <4>1 DEF BreakerOf!Next, BreakerOf!CallerStep
        <3> QED BY <3>4, <3>5
    <2> QED BY <2>1, <2>2, <2>3, <2>4
<1>5. \A t \in Services \ {s} : Driven(t)
    BY <1>2, DrivenApart
<1> QED BY <1>4, <1>5 DEF Driven

LEMMA DrivenStep == TypeOK /\ Next => \A s \in Services : Driven(s)
<1> SUFFICES ASSUME TypeOK, Next PROVE \A s \in Services : Driven(s)
    OBVIOUS
<1>1. ASSUME NEW q \in Requests, Handle(q) \/ RefuseKey(q) PROVE \A s \in Services : Driven(s)
    <2>1. CASE \/ RefuseKey(q) \/ RefuseLimit(q) \/ NoUpstream(q) \/ RefuseBreaker(q)
               \/ Log(q) \/ Leave(q)
        <3>1. /\ UNCHANGED <<breakers, up, watch>>
              /\ req[q].at \notin {"proxying", "reporting"}
              /\ Finish(q, "done", 200) \/ req' = [req EXCEPT ![q] = Idle]
            BY <2>1 DEF RefuseKey, RefuseLimit, NoUpstream, RefuseBreaker, Log, Leave, Refuse
        <3>2. /\ req'[q].at \notin {"proxying", "reporting"}
              /\ \A p \in Requests \ {q} : req'[p] = req[p]
            <4>1. CASE Finish(q, "done", 200)
                BY <4>1 DEF TypeOK, Finish, Idle
            <4>2. CASE req' = [req EXCEPT ![q] = Idle]
                BY <4>2 DEF TypeOK, Idle
            <4> QED BY <3>1, <4>1, <4>2
        <3> QED BY <3>1, <3>2, DrivenQuietly
    <2>2. CASE FindRule(q) \/ PassLimit(q) \/ FindUpstream(q)
        <3>1. /\ UNCHANGED <<breakers, up, watch>>
              /\ req[q].at \in {"limiting", "paying", "resolving"}
              /\ \E place \in {"paying", "resolving", "asking"} : Move(q, place)
            BY <2>2 DEF FindRule, PassLimit, Pay, FindUpstream
        <3>2. /\ req'[q].at \in {"paying", "resolving", "asking"}
              /\ \A p \in Requests \ {q} : req'[p] = req[p]
            BY <3>1 DEF TypeOK, Move
        <3> QED BY <3>1, <3>2, DrivenQuietly
    <2>3. CASE PassBreaker(q) \/ Answer(q) \/ BadAddress(q) \/ Abort(q) \/ Report(q)
        <3> PICK s \in Services : s = Upstream(q)
            BY UpstreamTyped
        <3> QED BY <2>3, DrivenByCall
    <2> QED BY <1>1, <2>1, <2>2, <2>3 DEF Handle
<1>2. ASSUME NEW q \in Requests, NEW rt \in Routes, Arrive(q, rt)
      PROVE  \A s \in Services : Driven(s)
    BY <1>2, DrivenQuietly DEF TypeOK, Arrive
<1>3. ASSUME UNCHANGED <<breakers, up, watch, req>> PROVE \A s \in Services : Driven(s)
    BY <1>3, Quiet DEF Driven, Call, Upstream
<1>4. ASSUME NEW t \in Services, UpstreamToggles(t), NEW s \in Services PROVE Driven(s)
    <2>1. \A q \in Requests : Call(s, q)' = Call(s, q)
        BY <1>4 DEF UpstreamToggles, Call, Upstream
    <2>2. CASE s # t
        BY <1>4, <2>1, <2>2, Quiet DEF Driven, UpstreamToggles
    <2>3. CASE s = t
        <3>1. (s \in up)' = ~(s \in up)
            BY <1>4, <2>3 DEF UpstreamToggles
        <3>2. [q \in Requests |-> Call(s, q)]' = [q \in Requests |-> Call(s, q)]
            BY <2>1
        <3>3. UNCHANGED <<breakers, watch>>
            BY <1>4 DEF UpstreamToggles
        <3>4. BreakerOf(s)!UpstreamToggles
            BY <3>1, <3>2, <3>3 DEF BreakerOf!UpstreamToggles
        <3> QED BY <3>4 DEF Driven, BreakerOf!Next
    <2> QED BY <2>2, <2>3
<1>5. ASSUME Tick, NEW s \in Services PROVE Driven(s)
    <2>1. [q \in Requests |-> Call(s, q)]' = [q \in Requests |-> Call(s, q)]
        BY <1>5 DEF Tick, Call, Upstream
    <2>2. /\ breakers'[s] = AfterTick(breakers[s]) /\ up' = up
          /\ watch'[s].probing = watch[s].probing /\ watch'[s].probeLost = watch[s].probeLost
          /\ watch'[s].sinceProbe = Saturate(watch[s].sinceProbe + 1, ResetTimeout)
        BY <1>5 DEF TypeOK, Tick
    <2>3. BreakerOf(s)!Tick
        BY <2>1, <2>2, SameOperators DEF BreakerOf!Tick
    <2> QED BY <2>3 DEF Driven, BreakerOf!Next
<1> QED BY <1>1, <1>2, <1>3, <1>4, <1>5 DEF Next, DeleteService, DeleteRule, Refill

\* The handler drives each service's breaker as CircuitBreaker has callers drive
\* it: every step is one caller's, the clock's or the upstream's step of it, or
\* leaves it as it is; so no request reports twice, or unadmitted, or to another
\* service's breaker.
THEOREM PipelineRefines == Spec => ImplementsBreaker
<1>1. Init => \A s \in Services : BreakerOf(s)!Init
    <2> SUFFICES ASSUME Init, NEW s \in Services PROVE BreakerOf(s)!Init
        OBVIOUS
    <2>1. [q \in Requests |-> Call(s, q)] = [q \in Requests |-> "idle"]
        BY DEF Init, Idle, Call
    <2>2. breakers[s] = BreakerOf(s)!NewBreaker
        BY DEF Init, NewBreaker, BreakerOf!NewBreaker
    <2>3. (s \in up) \in BOOLEAN
        OBVIOUS
    <2>4. /\ watch[s].probing = {} /\ watch[s].probeLost = FALSE
          /\ watch[s].sinceProbe = ResetTimeout
        BY DEF Init
    <2> QED BY <2>1, <2>2, <2>3, <2>4 DEF BreakerOf!Init
<1>2. TypeOK /\ [Next]_vars
          => [\A s \in Services : BreakerOf(s)!Next \/ UNCHANGED BreakerOf(s)!vars]_vars
    BY DrivenStep DEF Driven
<1> QED BY <1>1, <1>2, TypeCorrect, PTL DEF Spec, ImplementsBreaker
=============================================================================
