--------------------------------- MODULE Flow ---------------------------------
(***************************************************************************)
(* The flow service: retries and versioned attempts, published events, builds*)
(* that may panic, pooled request objects, and a loop that a context stops.  *)
(*                                                                           *)
(* The flow store keeps, under its lock, one attempt, one event and one build*)
(* of each key; keys do not meet, so there is one here, and several callers use*)
(* it at once.  A missing entry reads as Go's zero value.                    *)
(*                                                                           *)
(* AcquireRequest takes an object from a sync.Pool, or a new one, resets it and*)
(* fills it in; ReleaseRequest resets it and puts it back.  The pool is safe to*)
(* share, the objects are not: each write is a step.                         *)
(***************************************************************************)
EXTENDS Naturals

CONSTANTS
    Retriers,       \* callers of RetrySequence
    Finishers,      \* callers of VersionSequence
    Publishers,     \* callers of PublishSequence
    Builders,       \* callers of BuildSafely
    Loops,          \* callers of ShutdownSequence
    Fields,         \* fields that a build fills in
    Callers,        \* users of pooled requests, each with a tenant and headers
    Objects,        \* as many objects as are ever used at a time
    Nobody          \* the empty tenant

ASSUME FlowAssumption == Nobody \notin Callers /\ Objects # {}

VARIABLES
    attempt,        \* attempts[key]
    event,          \* events[key]
    build,          \* builds[key].Fields, each with its builder; {} if missing
    retry,          \* where each RetrySequence is, its try, and what it returns
    finish,         \* where each VersionSequence is, and what it returns
    publish,        \* where each PublishSequence is, its try, and what it returns
    working,        \* the build each BuildSafely works on
    building,       \* where each BuildSafely is
    pool,           \* objects in the pool
    tenant,         \* PooledRequest.Tenant
    headers,        \* whose headers PooledRequest.Headers holds
    place,          \* where each caller is
    held,           \* the object each caller has
    loop,           \* where each ShutdownSequence is
    done,           \* loops whose context is done
    \* What the properties watch.
    succeeded       \* tries of a call that returned nil

attempts == <<attempt, retry, finish, succeeded>>
events == <<event, publish>>
builds == <<build, working, building>>
requests == <<pool, tenant, headers, place, held>>
loops == <<loop, done>>
flowVars == <<attempts, events, builds, requests, loops>>

Versions == 0 .. 2

Attempt == [version : Versions, state : {"", "running", "done"}, committed : BOOLEAN]
NoAttempt == [version |-> 0, state |-> "", committed |-> FALSE]

Event == [version : Versions, status : {"", "pending", "committed"}]
NoEvent == [version |-> 0, status |-> ""]

Retry == [at : {"idle", "calling", "saving", "reading", "failed", "nil", "error"}, try : 1 .. 2,
          seen : Attempt]
NoRetry == [at |-> "idle", try |-> 1, seen |-> NoAttempt]

Finish == [at : {"idle", "retrying", "late", "reading", "returned"}, seen : Attempt]
NoFinish == [at |-> "idle", seen |-> NoAttempt]

\* "committed" is the try that was saved as committed, 0 if none.
Publish == [at : {"idle", "publishing", "saving", "pending", "reading", "returned"},
            try : 1 .. 2, committed : Versions, seen : Event]
NoPublish == [at |-> "idle", try |-> 1, committed |-> 0, seen |-> NoEvent]

AnyObject == CHOOSE o \in Objects : TRUE

Places == {"idle", "clear tenant", "clear headers", "set tenant", "add headers",
           "holding", "drop headers", "put"}

FlowTypeOK ==
    /\ attempt \in Attempt /\ event \in Event /\ build \in SUBSET (Builders \X Fields)
    /\ retry \in [Retriers -> Retry] /\ finish \in [Finishers -> Finish]
    /\ publish \in [Publishers -> Publish]
    /\ working \in [Builders -> SUBSET (Builders \X Fields)]
    /\ building \in [Builders -> {"idle", "building", "ready"}]
    /\ succeeded \in SUBSET (1 .. 2)
    /\ pool \in SUBSET Objects
    /\ tenant \in [Objects -> Callers \cup {Nobody}]
    /\ headers \in [Objects -> SUBSET Callers]
    /\ place \in [Callers -> Places] /\ held \in [Callers -> Objects]
    /\ loop \in [Loops -> {"selecting", "calling", "returned"}] /\ done \in SUBSET Loops

InitAttempts ==
    /\ attempt = NoAttempt /\ succeeded = {}
    /\ retry = [r \in Retriers |-> NoRetry]
    /\ finish = [f \in Finishers |-> NoFinish]

InitEvents == event = NoEvent /\ publish = [p \in Publishers |-> NoPublish]

InitBuilds ==
    /\ build = {} /\ working = [b \in Builders |-> {}]
    /\ building = [b \in Builders |-> "idle"]

InitRequests ==
    /\ pool = {}
    /\ tenant = [o \in Objects |-> Nobody] /\ headers = [o \in Objects |-> {}]
    /\ place = [c \in Callers |-> "idle"] /\ held = [c \in Callers |-> AnyObject]

InitLoops == loop = [l \in Loops |-> "selecting"] /\ done = {}

FlowInit == InitAttempts /\ InitEvents /\ InitBuilds /\ InitRequests /\ InitLoops

-----------------------------------------------------------------------------
\* Attempt.CanReplace, for one key.
CanReplace(next, current) == next.version >= current.version

\* Faulty saves, for the checks: whatever comes last is kept.
SaveAttemptAlways(next) == attempt' = next
SaveEventAlways(next) == event' = next

SaveAttempt(next) ==
    attempt' = IF attempt = NoAttempt \/ CanReplace(next, attempt) THEN next ELSE attempt

SaveEvent(next) ==
    event' = IF next.version < event.version THEN event ELSE next

-----------------------------------------------------------------------------
\* RetrySequence: at most two tries; only a temporary failure is tried again.
StartRetry(r) ==
    /\ retry[r].at = "idle"
    /\ retry' = [retry EXCEPT ![r].at = "calling"]
    /\ UNCHANGED <<attempt, finish, succeeded>>

CallSucceeds(r) ==
    /\ retry[r].at = "calling"
    /\ retry' = [retry EXCEPT ![r].at = "saving"]
    /\ succeeded' = succeeded \cup {retry[r].try}
    /\ UNCHANGED <<attempt, finish>>

\* Faulty retry, for the checks: goes on to save when its tries are used up.
CallFailsSaved(r) ==
    /\ retry[r].at = "calling"
    /\ retry' = IF retry[r].try = 1 THEN [retry EXCEPT ![r].try = 2]
                ELSE [retry EXCEPT ![r].at = "saving"]
    /\ UNCHANGED <<attempt, finish, succeeded>>

CallFails(r) ==
    /\ retry[r].at = "calling"
    /\ \E temporary \in BOOLEAN :
          retry' = IF temporary /\ retry[r].try = 1
                   THEN [retry EXCEPT ![r].try = 2]
                   ELSE [retry EXCEPT ![r].at = "failed"]
    /\ UNCHANGED <<attempt, finish, succeeded>>

SaveDone(r) ==
    /\ retry[r].at = "saving"
    /\ SaveAttempt([version |-> retry[r].try, state |-> "done", committed |-> TRUE])
    /\ retry' = [retry EXCEPT ![r].at = "reading"]
    /\ UNCHANGED <<finish, succeeded>>

\* However the tries ended, what is stored is read.
ReadAttempt(r) ==
    /\ retry[r].at \in {"reading", "failed"}
    /\ retry' = [retry EXCEPT ![r].at = IF @ = "reading" THEN "nil" ELSE "error",
                             ![r].seen = attempt]
    /\ UNCHANGED <<attempt, finish, succeeded>>

RetryReturns(r) ==
    /\ retry[r].at \in {"nil", "error"}
    /\ retry' = [retry EXCEPT ![r] = NoRetry]
    /\ UNCHANGED <<attempt, finish, succeeded>>

\* VersionSequence: an attempt, its retry, and the attempt's late report.
FinishFirst(f) ==
    /\ finish[f].at = "idle"
    /\ SaveAttempt([version |-> 1, state |-> "running", committed |-> FALSE])
    /\ finish' = [finish EXCEPT ![f].at = "retrying"]
    /\ UNCHANGED <<retry, succeeded>>

FinishRetry(f) ==
    /\ finish[f].at = "retrying"
    /\ SaveAttempt([version |-> 2, state |-> "done", committed |-> FALSE])
    /\ finish' = [finish EXCEPT ![f].at = "late"]
    /\ UNCHANGED <<retry, succeeded>>

FinishLate(f) ==
    /\ finish[f].at = "late"
    /\ SaveAttempt([version |-> 1, state |-> "running", committed |-> FALSE])
    /\ finish' = [finish EXCEPT ![f].at = "reading"]
    /\ UNCHANGED <<retry, succeeded>>

ReadFinished(f) ==
    /\ finish[f].at = "reading"
    /\ finish' = [finish EXCEPT ![f].at = "returned", ![f].seen = attempt]
    /\ UNCHANGED <<attempt, retry, succeeded>>

FinishReturns(f) ==
    /\ finish[f].at = "returned"
    /\ finish' = [finish EXCEPT ![f] = NoFinish]
    /\ UNCHANGED <<attempt, retry, succeeded>>

-----------------------------------------------------------------------------
\* PublishSequence: two tries; then, in any case, a pending event of version 1.
StartPublish(p) ==
    /\ publish[p].at = "idle"
    /\ publish' = [publish EXCEPT ![p].at = "publishing"]
    /\ UNCHANGED event

PublishSucceeds(p) ==
    /\ publish[p].at = "publishing"
    /\ publish' = [publish EXCEPT ![p].at = "saving"]
    /\ UNCHANGED event

\* Faulty, for the checks: one try too many.
PublishTriesOn(p) ==
    /\ publish[p].at = "publishing"
    /\ publish' = IF publish[p].try <= 2 THEN [publish EXCEPT ![p].try = @ + 1]
                  ELSE [publish EXCEPT ![p].at = "pending"]
    /\ UNCHANGED event

PublishFails(p) ==
    /\ publish[p].at = "publishing"
    /\ publish' = IF publish[p].try = 1 THEN [publish EXCEPT ![p].try = 2]
                  ELSE [publish EXCEPT ![p].at = "pending"]
    /\ UNCHANGED event

SaveCommitted(p) ==
    /\ publish[p].at = "saving"
    /\ SaveEvent([version |-> publish[p].try, status |-> "committed"])
    /\ publish' = [publish EXCEPT ![p].at = "pending", ![p].committed = publish[p].try]

SavePending(p) ==
    /\ publish[p].at = "pending"
    /\ SaveEvent([version |-> 1, status |-> "pending"])
    /\ publish' = [publish EXCEPT ![p].at = "reading"]

ReadEvent(p) ==
    /\ publish[p].at = "reading"
    /\ publish' = [publish EXCEPT ![p].at = "returned", ![p].seen = event]
    /\ UNCHANGED event

PublishReturns(p) ==
    /\ publish[p].at = "returned"
    /\ publish' = [publish EXCEPT ![p] = NoPublish]
    /\ UNCHANGED event

-----------------------------------------------------------------------------
\* BuildSafely: the build callback fills the fields one after another and may
\* panic at any of them; only a finished build is published.
StartBuild(b) ==
    /\ building[b] = "idle"
    /\ building' = [building EXCEPT ![b] = "building"]
    /\ UNCHANGED <<build, working>>

FillField(b, field) ==
    /\ building[b] = "building" /\ <<b, field>> \notin working[b]
    /\ working' = [working EXCEPT ![b] = @ \cup {<<b, field>>}]
    /\ UNCHANGED <<build, building>>

Built(b) ==
    /\ building[b] = "building" /\ working[b] = {b} \X Fields
    /\ building' = [building EXCEPT ![b] = "ready"]
    /\ UNCHANGED <<build, working>>

\* Faulty recovery, for the checks: what was built is published all the same.
PanicPublished(b) ==
    /\ building[b] = "building"
    /\ build' = working[b]
    /\ building' = [building EXCEPT ![b] = "idle"]
    /\ working' = [working EXCEPT ![b] = {}]

Panic(b) ==
    /\ building[b] = "building"
    /\ building' = [building EXCEPT ![b] = "idle"]
    /\ working' = [working EXCEPT ![b] = {}]
    /\ UNCHANGED build

PublishBuild(b) ==
    /\ building[b] = "ready"
    /\ build' = working[b]
    /\ building' = [building EXCEPT ![b] = "idle"]
    /\ working' = [working EXCEPT ![b] = {}]

-----------------------------------------------------------------------------
Used == {held[c] : c \in {d \in Callers : place[d] # "idle"}}

\* sync.Pool.Get removes what it returns.
Take(c, o) ==
    /\ place' = [place EXCEPT ![c] = "clear tenant"]
    /\ held' = [held EXCEPT ![c] = o]
    /\ pool' = pool \ {o}

GetPooled(c) ==
    /\ place[c] = "idle"
    /\ \E o \in pool : Take(c, o)
    /\ UNCHANGED <<tenant, headers>>

\* A new object is empty; an object that was dropped stands for it.
GetNew(c) ==
    /\ place[c] = "idle"
    /\ \E o \in Objects \ (pool \cup Used) :
          /\ Take(c, o)
          /\ tenant' = [tenant EXCEPT ![o] = Nobody]
          /\ headers' = [headers EXCEPT ![o] = {}]

\* sync.Pool may drop any object that it holds.
Drop ==
    /\ \E o \in pool : pool' = pool \ {o}
    /\ UNCHANGED <<tenant, headers, place, held>>

\* One write of a tenant or of headers, and on to the next place.
SetTenant(c, value, next) ==
    /\ tenant' = [tenant EXCEPT ![held[c]] = value]
    /\ place' = [place EXCEPT ![c] = next]
    /\ UNCHANGED <<pool, headers, held>>

SetHeaders(c, value, next) ==
    /\ headers' = [headers EXCEPT ![held[c]] = value]
    /\ place' = [place EXCEPT ![c] = next]
    /\ UNCHANGED <<pool, tenant, held>>

\* AcquireRequest, after Get: Reset, Tenant, Headers.
ClearTenant(c) == place[c] = "clear tenant" /\ SetTenant(c, Nobody, "clear headers")
ClearHeaders(c) == place[c] = "clear headers" /\ SetHeaders(c, {}, "set tenant")

FillTenant(c) == place[c] = "set tenant" /\ SetTenant(c, c, "add headers")
AddHeaders(c) ==
    place[c] = "add headers" /\ SetHeaders(c, headers[held[c]] \cup {c}, "holding")

\* Faulty release, for the checks: Put before Reset.
PutFirst(c) ==
    /\ place[c] = "holding"
    /\ pool' = pool \cup {held[c]}
    /\ place' = [place EXCEPT ![c] = "drop headers"]
    /\ UNCHANGED <<tenant, headers, held>>

\* ReleaseRequest: Reset, then Put.
Release(c) == place[c] = "holding" /\ SetTenant(c, Nobody, "drop headers")
DropHeaders(c) == place[c] = "drop headers" /\ SetHeaders(c, {}, "put")

Put(c) ==
    /\ place[c] = "put"
    /\ pool' = pool \cup {held[c]}
    /\ place' = [place EXCEPT ![c] = "idle"]
    /\ held' = [held EXCEPT ![c] = AnyObject]
    /\ UNCHANGED <<tenant, headers>>

-----------------------------------------------------------------------------
\* ShutdownSequence: a select between the done context and the ticker, which
\* takes either when both are ready.  (How many calls were made is left out.)
LoopTo(l, from, to) == loop[l] = from /\ loop' = [loop EXCEPT ![l] = to] /\ UNCHANGED done

ReturnDone(l) == l \in done /\ LoopTo(l, "selecting", "returned")
TakeTick(l) == LoopTo(l, "selecting", "calling")

\* Faulty loop, for the checks: one call after another, with no select between.
CallsAgain(l) == LoopTo(l, "calling", "calling")

CallReturns(l) == LoopTo(l, "calling", "selecting")

EndContext(l) == l \notin done /\ done' = done \cup {l} /\ UNCHANGED loop

AttemptStep ==
    \/ \E r \in Retriers :
          \/ StartRetry(r) \/ CallSucceeds(r) \/ CallFails(r)
          \/ SaveDone(r) \/ ReadAttempt(r) \/ RetryReturns(r)
    \/ \E f \in Finishers :
          \/ FinishFirst(f) \/ FinishRetry(f) \/ FinishLate(f)
          \/ ReadFinished(f) \/ FinishReturns(f)

EventStep == \E p \in Publishers :
    \/ StartPublish(p) \/ PublishSucceeds(p) \/ PublishFails(p)
    \/ SaveCommitted(p) \/ SavePending(p) \/ ReadEvent(p) \/ PublishReturns(p)

BuildStep == \E b \in Builders :
    \/ StartBuild(b) \/ Built(b) \/ Panic(b) \/ PublishBuild(b)
    \/ \E field \in Fields : FillField(b, field)

CallerStep(c) ==
    \/ GetPooled(c) \/ GetNew(c) \/ ClearTenant(c) \/ ClearHeaders(c) \/ FillTenant(c)
    \/ AddHeaders(c) \/ Release(c) \/ DropHeaders(c) \/ Put(c)

RequestStep == Drop \/ \E c \in Callers : CallerStep(c)

LoopStep(l) == ReturnDone(l) \/ TakeTick(l) \/ CallReturns(l) \/ EndContext(l)

\* Every loop has returned.
LoopsEnded == (\A l \in Loops : loop[l] = "returned") /\ UNCHANGED loops

FlowNext ==
    \/ AttemptStep /\ UNCHANGED <<events, builds, requests, loops>>
    \/ EventStep /\ UNCHANGED <<attempts, builds, requests, loops>>
    \/ BuildStep /\ UNCHANGED <<attempts, events, requests, loops>>
    \/ RequestStep /\ UNCHANGED <<attempts, events, builds, loops>>
    \/ (LoopsEnded \/ \E l \in Loops : LoopStep(l)) /\ UNCHANGED <<attempts, events, builds, requests>>

FlowSpec == FlowInit /\ [][FlowNext]_flowVars

-----------------------------------------------------------------------------
\* Whoever else saves under the same key, what a sequence reads at its end is
\* not older than what it saved: a late report of the first attempt never hides
\* the retry that is done, a retry reads its own try or a newer one, and an
\* event committed at the second try survives every pending one.
OwnSaveSeen ==
    /\ \A f \in Finishers : finish[f].at = "returned" =>
          finish[f].seen.version = 2 /\ finish[f].seen.state = "done"
    /\ \A r \in Retriers : retry[r].at = "nil" => retry[r].seen.version >= retry[r].try
    /\ \A p \in Publishers : (publish[p].at = "returned" /\ publish[p].committed = 2) =>
          publish[p].seen = [version |-> 2, status |-> "committed"]

\* A call that is rejected, exhausted or panics leaves nothing behind: what is
\* stored as committed is a try that succeeded, and what is published is one
\* builder's finished build, whoever else was at work.
NothingHalfDoneKept ==
    /\ attempt.committed => attempt.version \in succeeded
    /\ build = {} \/ \E b \in Builders : build = {b} \X Fields

\* A caller that holds a pooled request finds in it its own tenant and its own
\* headers and nobody else's, as long as it holds it.
TenantIsolation ==
    \A c \in Callers : place[c] = "holding" =>
        tenant[held[c]] = c /\ headers[held[c]] = {c}
=============================================================================
