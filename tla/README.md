# The API gateway in TLA+

TLA+ models of the gateway in this repository, TLC configurations that check
them on small instances, and TLAPS proofs about them for all instances.  Run
the tools in this directory: `tlc -config MCRouting.cfg MCRouting`,
`tlapm LimitsProofs.tla`.  `PROJECT.json` maps every definition to the
lines it models and lists the runs, the theorems, the hazards, and a faulty
variant of some definition that breaks each property.

## 1. The system

The gateway is one Go process.  Clients' requests run concurrently, one
goroutine each, through `handler/gateway_handler.go`; administrators' requests
(`/api/...`) change what those read; a background goroutine probes upstreams.
All state is in memory and nothing survives a restart: a process that exits
leaves nothing to repair, and the next one starts empty.

| Component | State | Operations | Talks to | What makes it correct | Model |
|---|---|---|---|---|---|
| circuit breaker (`circuitbreaker/`) | state, consecutive failures, time of the last failure; one mutex per breaker | Allow, RecordSuccess, RecordFailure | called by the pipeline through `AllowService` and `RecordServiceResult`, long apart | state and count agree; half-open ends; probes are spaced; recovery | BreakerOps, CircuitBreaker |
| token bucket (`ratelimit/`) | tokens, time of the last refill; a mutex | Allow, Tokens, Reset | called by `AllowRequest` | lazy refill is worth what continuous refill is; a bound on any interval | TokenBucket, IdealBucket |
| rate limit rules (`service/rate_limit_rule_service.go`, `service/service.go`) | rule objects, cache of a bucket per rule | create, delete, update, AllowRequest, BucketFor, ResetBuckets | reads rules in the store, fills the cache | the cache follows the rules; one bucket for a rule | RateLimiter |
| pipeline (`handler/gateway_handler.go`) | none of its own; a local position per request | the stages from match to log | all the above and the store | breakers see each admitted request at most once; the log tells what was answered | Gateway |
| routes (`service/route_service.go`, `store/route_store.go`) | shared Route objects | create, update, delete, MatchRoute | services in the store; pipeline reads the objects | no duplicate keys, no missed route, a consistent route | Routing |
| upstream services (`service/service_service.go`) | shared Service objects | create, update, delete | routes point to them; creates health records | deletion at any moment is survived | Gateway, Routing, HealthCheck |
| health checks (`service/health_check_service.go`, `model/health_check.go`) | shared HealthCheck objects | ProbeService, Record; ticker, admin | the upstream | status follows the streak of failures | HealthCheck |
| apps and API keys (`service/app_service.go`) | shared App and APIKey objects | create, update, delete, Authenticate | the pipeline | revocation works, deleted keys stay deleted | Access |
| flow coordinator (`flowhandler/`) | local channels and contexts | Fanout, sequences of workflow calls | flow service | every goroutine ends, errors are reported | Fanout, Flow |
| flow store and workflows (`flowstore/`, `flowservice/`) | attempts, events, builds, batches; a pool of request objects | ExecuteWithRetry, FinishAttempt, SaveEvent, BuildSafely, AcquireRequest | coordinator | versions, isolation | Flow |
| access log (`service/request_log_service.go`, `store/request_log_store.go`) | entries, in a map | append, list, sort, page | the pipeline appends, administrators list | no entry is missed by walking the pages; a page is what was asked for | Gateway (what is logged), Reports |
| statistics (`service/stats_service.go`) | none | lists of everything, a running average by route | reads the store | the average is near the average | Reports |
| export and import (`service/export_service.go`) | none | three lists one after another; one creation after another | the store, CreateService | the export refers to itself; an import leaves nothing out | Export |
| start and shutdown (`app/`, `cmd/`) | a cancel function | Start, signal, exit | checker, HTTP server | the checker stops | HealthCheck |
| middleware, admin handlers, `pkg/` | none | decode, one call, encode | — | — | as the actions of the other modules, or not modelled |

What is hard in it: the store's `RWMutex` guards its maps, but the objects in
them are shared pointers that are read and written when the lock is gone.
Updates write the stored object before they validate it, and validation writes
it again.  A forward is admitted by a breaker at one moment and reported to it at
another, in another state, or never answered.  Requests look at the store several
times, and so do reports and exports.  Go's `select` takes any ready case.

## 2. Plan

Done, in this order: breaker and its proofs; bucket with its ideal and the
proofs; rules and the bucket cache with proofs; fan-out with proofs; health
checks; pipeline, shown to drive breakers as CircuitBreaker says; routing;
access; flow; paths as segments in routing, with prefix stripping, and MatchRoute
and Validate read by read; start, signal and exit in HealthCheck;
ShutdownSequence in Flow; the log's pages and the report's average; export and
import; proofs about these two, Access, HealthCheck and Flow; proofs about the
pipeline and its refinement, routing, the streak of a health record, the walk of
the log, and every type invariant.

Abstract specifications: IdealBucket for TokenBucket; CircuitBreaker, itself
checked and proved about, for each breaker in Gateway.

Left, most important first:

1. How `Shutdown` waits for requests under way, and what they still log.
2. One model of pipeline and log together: Gateway writes what Reports reads.
3. Lemmas about Paths that do not speak of Routing's calls.

## 3. Modules

Conventions.  A step of a model is one access to shared state, or one stretch
under a mutex; what happens between two of them in one goroutine is local.  Under
the store's lock other goroutines still write the objects, so what the store reads
there (its checks of a name or a key) is one step by choice.  Of a write that falls
between its reads, a duplicate missed by it is left to the check of the update
that writes, and a conflict seen by it refuses an update, as refusals may.
Ids are random in the code and fresh here.  Variables under "what the
properties watch" are history: no guard reads them.  Definitions that begin
with a comment "Faulty ..., for the checks" are mistakes a change of the code
could make; nothing uses them but the checks that each property can fail.

**BreakerOps** has the breaker as a value and its methods as operators, shared
by CircuitBreaker and Gateway.  `sinceFailure` is `time.Since(lastFailure)`,
saturated at the timeout; the count saturates at the threshold, beyond which
the code never tells two values apart.

**CircuitBreaker** puts callers around one breaker: `Allow`, the upstream's
answer (`Respond`), then `RecordSuccess` or `RecordFailure`, or `Abandon` where
`proxyRequest` ends without a report: a base URL that does not parse, or a
panic of the reverse proxy in the body.  A step is a method under the mutex.  An
answer need not come: `http.DefaultTransport` waits for the upstream without a
limit, `Service.Timeout` is not used, and the server limits only the reading of
the request's header.  `Recovery` therefore excepts a probe that hangs, next to
one that is abandoned.

**IdealBucket** is a bucket whose level rises each tick.  **TokenBucket** is
the code's: it credits elapsed time when somebody looks.  `Limit` in `Window` is
the rate and `Size` the burst that `NewTokenBucket` is given, two arguments that
a torn read of the rule may take from two versions; `Rate` and `Burst` are what
its clamps make of them.  Tokens are counted in units of 1/Window so that all is
integral; the rounding of `float64` is not modelled.  An observer starts counting
at any moment (`mark`, chosen at the start).

**RateLimiter** has rule objects that updates write field by field, before
validation and the store's name check, and the cache `Service.buckets`.
`Validate` reads limit and window one after the other, and writes a window over
whatever is there by then.  `BucketFor` holds `Service.mu`, while
`RatePerSecond` reads the window (`BucketMiss`), the limit (`ReadLimit`) and the
window again (`ReadWindow`), and then the limit is read for the burst
(`BucketMade`); updates write in between, `ResetBuckets` waits.  The order of the
two reads of a quotient is taken as written.

**Fanout** has a step for each select of a worker or the caller, and the
closing goroutine.  `failAt` is a set of at most one worker.  A buffered
channel as large as the input never blocks a sender; a select with several
ready cases takes any.

**HealthCheck** has the probe of one service as `ProbeService` does it: find the
service, find or create a record, ping, `Record` on the shared object, where
`FailureCount++` is a read and a write.  The checker first picks services that
its list shows active; an administrator's probe does not ask.  `CreateService`
stores the service before its record.  Around it is the process: `Signal` is
`main`'s `cancel()`, after which the checker's select may take `StopChecker` or
another tick; `Exit` may come at any moment, since `Shutdown` does not wait for
the checker, and takes the memory with it; `Start` begins with none.

**Gateway** has the stages of `gatewayHandler` and `proxyRequest` as actions.
Routes are fixed there, `Authenticate`'s verdict is a choice, a bucket is its
whole tokens: Routing, Access and TokenBucket have the detail.  A rule is looked
up (`FindRule`) before its bucket is asked (`PassLimit`, `RefuseLimit`), and one
that has been deleted lets everything through.  What comes back of a forward is
in `Replies`: an upstream that is up says 200 or 404, one that is not 502, and
`Abort` cuts off any of them.  `sent` and `logged` are sequences, so that what is
sent or logged twice shows; `ending` is what befell the request.  A `Refuse` logs
and answers in one step, being local to the request.

**Paths** has paths cut at their slashes, `strings.HasPrefix`, `TrimPrefix`, the
comparison of `MatchRoute` and the two Directors that write the upstream path.
Routing's paths are the non-empty sequences over `Segments`, which has the empty
one: `/` is `<<"", "">>`, and what is joined to a base path is a path again.

**Routing** has a step for each access to a shared Route.  `UpdateRoute` writes
`Path`, `Method`, `ServiceID`, `StripPrefix` and `RequiresAuth`; `Validate` reads
each of the first three and writes it back trimmed, then reads them again to
check them, and replaces an empty method; the service is looked up; the store
checks the key, which is a method and a path.  A check that compares one field
several times passes by its last comparison, and may fail by an earlier one if
another update is under way (`Overlapped`).  `MatchRoute` lists objects under the
lock, and then for each, in any order, reads `Method` (`Look`), `Path` for
equality (`Compare`) and for the prefix (`Prefix`), its length to compare
(`Measure`) and once more to keep (`Take`).  The gateway reads `RequiresAuth` and
then `ServiceID`, and the Director `StripPrefix` and `Path` later still, `Path`
twice.  The trimming of a path, of a method and of an id are functions of the
model values (`TrimSpace`, `ToUpper`, `TrimName`), and so is the length of a path
(`Chars`).  History: `steady` are the routes that have not changed since the
request listed them; `torn` that the path of the route it looks at was written
after it had been found to cover; `seen` and `won` the lengths of the paths by
which the route looked at, and the best, did cover.

**Access** has the five looks of `Authenticate` (key found, status, expiry, app
found, app status) against every operation that writes keys or apps.  `seen` is
what was true at some moment of the call.

**Flow** has five parts that share no state: attempts (`RetrySequence`,
`VersionSequence`, `SaveAttempt`), events (`PublishSequence`, `SaveEvent`),
builds (`BuildSafely`), the request pool, whose objects are written field by
field, and the loop of `ShutdownSequence`.  What the callbacks do is a choice:
succeed, fail, panic.  A retry reads what is stored in a step of its own after its
last try, failed or not.

**Reports** has `now` and the gateway's entries, stamped when a request arrives
and stored when it ends; a client that walks the pages, asking for one after the
other; and `GetGatewayStats` counting the entries of one route, in any order.
`ParsePagination` and `Paginate` compute with ints that wrap at `MaxInt`: a
product that overflows gives an empty page, another page, or a slice out of
range, which is `panic`.

**Export** has `ExportConfig` taking services, routes and rules one after another
while each is created, updated and deleted, and `ImportServices` creating one
service after another, going on after an error.

Modules named MC... are instances for TLC.  MCLimits, MCFlow and MCReports join
modules that share no state (RateLimiter with TokenBucket, Flow with Fanout,
Reports with Export) and let one part move in a behaviour; MCRouting chooses between a request and a
second administrator.

## 4. Runs

| Run | Instance | Shows |
|---|---|---|
| breaker | 3 callers, threshold 2, timeout 2 ticks | `ClosedIffBelowThreshold`, `HalfOpenAwaitsProbe`, `ProbesSpaced`, and with fairness `Recovery`: late reports confuse nothing, and only a probe that is abandoned or never answered keeps a service out |
| breaker_abandon | 2 callers | `HalfOpenRecovers` fails: that exception is real |
| limits | 2 rules, 2 names, limits 0 and 1, windows 0 and 2, 2 requests, 2 administrators, 2 updates, one deletion; a bucket with limit 2, window 3, size 2, clock to 7, one reset | `CacheFresh`, `OneBucketPerRule`; `ImplementsIdeal`, `RateBound` |
| fanout_failure | 3 workers, any or none failing | `FailureReported` fails |
| health | the checker and an administrator, limit 2 | `NeverBlamedEarly`, `StreakDecides`, with fairness `Noticed`, `CheckerStops` |
| gateway | 2 requests, 2 routes to 2 services, one with key and limit, one service or rule deleted; threshold 1, timeout 1, burst 1 | `ImplementsBreaker`, `LoggedAsSent` |
| routing | 2 routes, paths `/a`, `/a/`, `/a/x`, one with a space before it and one that is not valid, 2 services of which one has a base path, 2 updates; 1 administrator and 1 request, or 2 administrators | `SteadyRouteFound`, `LooseningIsSafe`, `StrippedWithoutBase`; `DuplicatesOnlyByFailure` |
| routing_torn, routing_strip | 1 route | `OneVersion` fails; `PrefixStripped` fails |
| access | 2 apps, 1 key, 2 administrators, 1 request | `VerdictOnEvidence`, `DeletedForGood` |
| flow | 3 workers; 2 retries and 2 version sequences; 2 publishers; 2 builders with 2 fields; 3 callers and 3 objects; 2 loops | `ErrorNotMasked`, `CleanRunComplete`, `OwnSaveSeen`, `NothingHalfDoneKept`, `TenantIsolation`, with fairness `CallsEnd` |
| reports | 3 entries, pages of at most 3, ints to 7, clock to 3, latencies 1 and 6; 2 services, 2 rules, 1 route, 1 importer, lists of up to 3 names | `WalkComplete`, `PageExact`, `AverageBounds`; `ExportClosed`, `ImportSettled` |

Each passing run checks a type invariant too; of the two modules of flow and of
reports it is that of Flow and of Reports, and those of Fanout (`TypeOK`) and
Export (`ExportTypeOK`) are proved only.  Comments at the properties say what they claim and which code they are
about.

Why the bounds are enough.  Breaker: with threshold 2 a count below, at and beyond
the threshold exists, and with three callers a straggler from before the breaker
opened, the probe, and a refused caller exist together.  Limits: limit and window
of the bucket are coprime, so fractions of tokens arise; the clock passes two
windows.  Rules, routing and access: every race is of two updates, or of one
update and one request; requests write nothing that requests read, except the
cache, for which there are two.  That is why routing has two kinds of behaviour
(`kind`): of one administrator and a request, whose single reads meet each single
write of one update after another and of creations and deletions, and of two
administrators and no request.  `AnyIdFirst` fixes which id is the first, as ids
are as good as each other, and `SomeService` cuts off states without services, in
which no call comes past its look at them; `LooseningIsSafe` excepts overlapping updates anyway, and RoutingProofs has all
properties for any number of both.  `MaxUpdates` bounds the updates started: two
let one overlap, or follow, the other.  `AtMostOneGone` cuts off states in which a
second service or rule has been deleted: a request uses one of each, and the names
of rules clash with one of them left.  What administrators send (`MCSent`) is a
short path for a guarded service and a long one, to be trimmed, openly for
another, the combinations that the properties tell apart; for the keys of
overlapping updates (`MCSentKeys`) a short path, one to be trimmed and an invalid
one, with methods to be completed or raised to capitals.  Health: two probes are
the least that overlap; limit 2 makes a streak longer than one.
`AtMostTwoRecords` cuts off states with three records; `StreakDecides` and
`Noticed` speak of services with one record, and `NeverBlamedEarly` of each record
alone.  Gateway: counting to a threshold is CircuitBreaker's business, so 1
serves; two services show that requests of one leave the other alone.  Flow: two
callers of each sequence interleave at every save; `OnePart` explores one part at
a time, which loses nothing, as the parts share no variable and each property is
about one part; the same holds of `OneReader` and `OneCaller` in MCReports.
Reports: three entries can be listed, shifted and counted in any order, and are
more than a page; `MaxInt` is as small as the assumptions let it be, or nearly, so
that the page arithmetic wraps.  Export: two services, so that one can be created,
or go, while the other is exported.

Two actions of MC modules and one of Flow are stutters that stand for an end:
`OutOfIds` (an import stops when the model has no more ids; the program's do not
run out), `LoopsEnded` (every loop has returned), and Fanout's own end.  With
them deadlock is checked in every run.

Symmetry is used where no `CHOOSE` is over the set and the run has no liveness
property: administrators and requests.  (The refinements it is used with are
conditions on a first state and on single steps.)

Counters that only histories or comparisons read saturate (`Saturate`).

Fairness.  Breaker: a caller whose forward is over reports it (goroutines are
scheduled), traffic keeps coming, time passes; nothing makes the upstream answer
(the transport has no limit for that), and abandoning and the upstream's changes
are not forced.  `Recovery` speaks of behaviours in which not all callers hang, as
there is always another client.  Flow: every goroutine of a fan-out that can go on
does; the caller's context need never be done.  A loop's callback returns, and its
select, which Go decides at random among the ready cases, does not pass over a
done context for ever: that is strong fairness of `ReturnDone`, since ticks
disable it again and again.  Health: the ticker keeps the checker probing an
active service, a probe under way goes on, since its ping has a timeout,
`CreateService` completes, and the checker's select is strongly fair to its done
context; other probes need not come, nor a signal.  All the rest is weak fairness.

## 5. Where the code and its documents disagree

Four runs show a disagreement each; the other cases below were met
while modelling; the models contain them, and properties are stated around them.

* Checked, `HalfOpenRecovers`: `Allow` admits nobody while half-open
  (`circuit_breaker.go:73`), and a probe that ends without a report, on an
  unparsable base URL (`gateway_handler.go:67`) or a body cut off (line 96), or
  that waits for an upstream that never answers (line 72; the service's `Timeout`,
  `model/service.go:18`, is not used), leaves the service refused for as long; the
  project's README line 26 promises recovery.
* Checked, `FailureReported`: with the closed channel and the error both
  ready, `Fanout` may take the channel and return a nil error
  (`coordinator.go:95`); the test at `coordinator_test.go:83` expects an error.
* Checked, `OneVersion`: a request can read `RequiresAuth` of one version of a
  route and `ServiceID` of the next (`route_service.go:60`); README line 9 says
  the store is safe for concurrent use.
* Checked, `PrefixStripped`: the gateway's Director looks for `route.Path` at the
  beginning of a path to which the base URL's own has already been joined
  (`gateway_handler.go:77`), and strips nothing if there is one; README line 21
  promises prefix stripping.
* `MatchRoute` reads a route's path again for its length (`route_service.go:95`,
  `96`), and an update that lengthens it after line 94 makes the route win over a
  longer one that never changed; the comment at `route_service.go:86` says the
  longest prefix comes first.  `SteadyRouteFound` names the exception (`torn`).
* `RecordSuccess` closes a breaker in any state, so a late success skips the
  cooldown of README line 26.
* A window can see up to Limit requests from the burst and as many again from
  the refill; `model/rate_limit_rule.go:8` says at most Limit.  `RateBound` is
  what holds.
* A refused `UpdateRateLimitRule` or `UpdateRoute` leaves the stored object
  changed (`rate_limit_rule_service.go:42`, `route_service.go:58`), with a
  stale bucket, or with a key that another route has;
  `store/memory_edge_test.go:34` takes a conflict to be kept out.  `CacheFresh`
  and `DuplicatesOnlyByFailure` name the exception (`dirty`).
* Overlapping probes can mark a service unhealthy that has just answered
  (`model/health_check.go:30`); README line 27 asks for three failures in a row.
  `StreakDecides` holds without overlap, `NeverBlamedEarly` with it.
* A forward cut off in its body is never logged, whatever status the client has
  been sent; a missing upstream, or a base URL that does not parse, is answered
  with 500 and logged with 502; README line 28 says every forward's status is
  logged.  `LoggedAsSent` names both, and allows them to no other request.
* Buckets are keyed by rule, comments at `service.go:23` and `58` say by route.
* `PublishSequence` stores a pending event over one committed at the first try
  (`coordinator.go:154`), against the name of the test at
  `coordinator_test.go:126`.  `OwnSaveSeen` says what holds.
* `ShutdownSequence` may take a tick when its context is done, and call once
  more; `coordinator_test.go:118` expects no call after the second, which
  cancels: likely, as the next tick is a millisecond away, not certain.
* `page=` large enough that `(page-1)*size` overflows answers with an empty page,
  another page, or a panic that becomes a 500 (`service.go:47`).
* A route's average is cut to an integer at each entry (`stats_service.go:91`), in
  the order of a map: two reports of one log may differ.  `AverageBounds` says by
  how much.
* `Success` of all requests counts 3xx, the comment at
  `stats_service.go:35` says 2xx; `unhealthy_services` counts deleted services.

## 6. Proofs

All hold for every value of the constants that satisfies the named assumptions.

* **CircuitBreakerProofs**, from `BreakerAssumption` (threshold positive,
  timeout natural).  `TypeCorrect` rests on `BreakerClosed`: each method
  returns a well-formed breaker.  `StateMatchesCount`: inductive with types.
  `HalfOpenHasProbe` says that a half-open breaker's probe is on its way to
  report, unless it was abandoned.  `ProbesAreSpaced` needs `ProbeOlderThanFailure`:
  while the breaker is open the last probe is no younger than the last failure, which is
  what `Allow` compares.
* **LimitsProofs**, about both modules of MCLimits.  The bucket, from
  `RuleAssumption` (limit, size and window natural, the window not zero) and the
  bounds being natural:
  `RateIsBounded` needs `Account`: what was served and what is left cost at most
  the burst, the resets and the elapsed time.  `Refinement` maps the ideal level
  to `Capped(tokens + (now - last) * Rate)`.  The rules, from
  `LimiterAssumption`: the inductive invariant `IInv` says that the mutex is held
  exactly while a bucket is being made; calls in flight are about rules that
  exist; a rule whose bucket is being made has none; a rule that is not being
  updated and not left dirty is what its bucket was made from, and what a bucket
  being made has read so far.  The last part is why `ResetBuckets` after the
  update, and not before, is right.  `CacheStaysFresh` and `OneBucket` follow.
  What has been read so far is, place by place, `ReadSoFar`.
* **CoordinatorProofs**, from `WorkersAssumption` (finitely many) and
  `FlowAssumption`.  `FailureNotMasked`: a cancelled context with the caller's own
  not done implies an error in the channel or already taken.  `CleanRunIsComplete`:
  without failure or cancellation, each worker's value is still to be sent, in the
  channel, or collected.  `SavesAreSeen` needs that stored versions never go back,
  and that version 2 is always done, or committed (`AttemptInv`, `EventInv`);
  `HalfDoneIsDropped` that who is about to commit has succeeded, and who is ready
  has filled in all fields (`BuildInv`); `TenantsAreIsolated` that whoever is not
  idle has its object to itself (`Sole`), from which what it has written to it so
  far is still there (`Written`).
* **HealthCheckProofs**, from `HealthAssumption`.  `NeverBlamedForFewer` needs
  `Ledger`: as long as a record has had fewer failed pings than the limit, its
  count, and what any probe is about to write for it, are with the failed pings
  still to be counted (`Bad`) at most the pings held against it.  Without the
  pings still to be counted this would not survive a lost update followed by
  another probe.  `StreakIsShown` speaks of moments when no probe is writing;
  `InStep` says what status and count are at each place of `Record` of the one
  probe there is, and `Grounded` that probes write to records that exist, while
  records that do not are as `NewHealthCheck` makes them.
* **GatewayProofs**, from `BreakerAssumption` and `GatewayAssumption`.
  `AnswersAreLogged` needs `Answered`, which says for each place of a request how
  often and what it has been sent, what is logged of it, and what befell it: one
  that is to be logged has been sent what it will be logged with, or 500 for an
  address that did not parse.  `PipelineRefines` shows for every
  service that each action is one of its CircuitBreaker's or leaves it alone; a
  request is an idle caller to the breakers of all services but the one it is
  being forwarded to.  From it CircuitBreakerProofs' theorems hold of
  each breaker in the pipeline.
* **RoutingProofs**, from `RoutingAssumption` and `SentAssumption`.  All rests on
  `CallInv`: ids of calls have been created, and an id under creation is in nobody
  else's hands.  For `KeysAreUnique`, of two stored routes with one key, one is
  under an update that has still to check it, or is dirty; an update that finds no
  duplicate leaves none, since the check and the return are one step under the
  lock, and what `Validate` writes back late is written by an update that has
  still to be checked.  `SteadyRoutesAreFound` needs `Matches`, in four parts: there
  is one route looked at and one best; a steady route that was found to cover does
  (`Covering`); while no look was torn, the lengths kept are those of the paths
  that covered (`Measured`); and a steady route that fits is still unread, or
  looked at, or there is a best, which is no shorter while no look was torn
  (`Found`).  `PrefixesAreStripped` adds `Rewritten`: a path still to be trimmed is
  the one asked for.  The lemmas about paths (`CoveredBelow`, `JoinedToNothing`,
  `TrimmedIsBelow`) say that without a base path, trimming after joining leaves
  what lies below the route's path; they hold of all paths, so no bound on length
  is assumed.  `LooseningIsAtomic` needs `CalmInv`: while calm, an update has its
  route to itself, a route that needs no key serves what it was sent to serve
  openly, trimmed or not, at each place of `UpdateRoute`, and so does one whose
  `RequiresAuth` was read false.
* **AccessProofs**, from `AccessAssumption`.  `VerdictsAreGrounded` needs `Seeing`:
  what is true now has been seen, and each place of a request has left its
  evidence (`Passed`).  `NothingComesBack` needs `Buried`: an id is used once, and
  a key under creation is in nobody's hands but its creator's, so only
  `InsertKey` adds an id without looking.  `TypeCorrect` adds `Fields`: an update of
  a key that has got as far as finding it carries a legal status.
* **ReportsProofs**, about both modules of MCReports.  The log, from
  `ReportsAssumption`: `AverageIsBounded` is by induction over the entries counted,
  each of which loses less than one (`Divided`).  `PagesAreExact` is arithmetic: what
  `ParsePagination` lets through, and what `Paginate` cuts out of a list no longer
  than `MaxInt` allows.  `WalksAreComplete` needs `Ahead`: an entry that was there
  at the first page, with a timestamp of its own, has been got or has at least as
  many newer ones as the next page passes over.  It is kept since entries are
  never removed, so the newer ones only grow in number, and `Placed` says that in
  any sorting of the log such an entry has exactly the newer ones before it: it
  is on the next page or beyond it.  An entry that shares its timestamp may
  change places with the others between two pages, so nothing is claimed of it.
  The export, from `ExportAssumption`: `ExportIsClosed` needs that a
  stored route, unwritten by updates, refers to what was stored or is gone
  (`Referring`), and what each list taken says about that (`Listing`).
  `ImportsSettle` needs `Settling`: what is sent is what has been met, is illegal,
  or is still to come.

Each module also proves the type invariants of what it is about; they are
inductive with what the bullets name (for the export `Naming`).  So every
invariant and both refinements that a passing run checks hold for all instances.

Model-checked only: `Recovery`, `Noticed`, `CallsEnd` and `CheckerStops`, which are
liveness under fairness and out of the prover's reach; and the properties of the
four violation runs, which do not hold.

## 7. Not modelled

HTTP itself, response and log formats, headers and client addresses; the filters
of lists; the counts of a report other than a route's traffic (lengths of lists
taken at different moments, of which any mixture is possible); configuration,
read once; that `Shutdown` waits for requests; logging; the admin token; the names
of apps; `middleware.RateLimit` (one TokenBucket, which nothing installs);
`SaveBatch` (a copy under the lock) and `CallWithScope`, `ScopeSequence` and
`ResourceSequence` (sequential, with no shared state); encoding and random ids in
`pkg/`.  In Routing `RateLimitRuleID` is looked up like the service and left out;
in Export apps and keys are to each other what services and routes are, and the
import of rules is that of services.  Go's memory model is taken as sequentially
consistent for single fields: a data race is an interleaving of reads and writes
of whole fields, and strings are not torn.
