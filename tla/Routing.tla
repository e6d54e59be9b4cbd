------------------------------- MODULE Routing -------------------------------
(***************************************************************************)
(* Routes, which administrators update in place while requests use them.      *)
(*                                                                           *)
(* The store's lock guards its maps; the Route objects in them are shared.    *)
(* UpdateRoute writes the object's fields one by one, and Validate reads them   *)
(* and writes them back trimmed, before it is known whether the update is valid. *)
(* MatchRoute reads the objects on its list several times each after the lock is *)
(* gone, and the gateway reads the one it finds later still.  A step here is one *)
(* access to a shared object, or one section under the lock.                  *)
(*                                                                           *)
(* A field of a request that nobody reads again is put back to its first value. *)
(* RateLimitRuleID is written after RequiresAuth and looked up like the service. *)
(***************************************************************************)
EXTENDS Paths

CONSTANTS
    RouteIds,       \* route ids, each created at most once (ids are random)
    Segments,       \* what may stand between the slashes of a path
    Paths,          \* the paths administrators may send, and what they are trimmed to
    Methods,        \* the same of methods
    Legal,          \* the methods that Validate lets through
    Services,       \* the same of the names that may be a route's ServiceID
    Asked,          \* methods with paths, of what clients may ask for
    TrimSpace,      \* strings.TrimSpace of a path
    ToUpper,        \* strings.ToUpper(strings.TrimSpace) of a method
    TrimName,       \* strings.TrimSpace of a service's id
    Chars,          \* len of a path
    BasePath,       \* the path in each service's BaseURL
    Sent,           \* the routes administrators may send
    Admins,         \* administrators' calls in flight at a time
    Requests,       \* requests in flight at a time
    MaxUpdates      \* bound on the updates started

Path == Seq(Segments) \ {<<>>}

ASSUME RoutingAssumption ==
    /\ "" \in Segments /\ Paths \subseteq Path /\ "GET" \in Methods
    /\ TrimSpace \in [Paths -> Paths] /\ ToUpper \in [Methods -> Methods]
    /\ TrimName \in [Services -> Services]
    /\ \A s \in Services : TrimName[TrimName[s]] = TrimName[s]
    /\ Chars \in [Paths -> Nat]
    /\ \A k \in Asked : k.path \in Path /\ HasPrefix(k.path, Root)
    /\ BasePath \in [Services -> Path]
    /\ RouteIds # {} /\ Paths # {} /\ Asked # {} /\ Services # {} /\ MaxUpdates \in Nat

VARIABLES
    route,          \* the shared Route objects, by id
    born, stored,   \* ids that have been created; ids in the store's map
    services,       \* services in the store
    adm,            \* where each administrator's call is, and its copies of fields
    updates,        \* updates started so far
    req,            \* where each request is
    \* What the properties watch.
    dirty,          \* routes left changed by a failed update, none since
    steady,         \* routes that match a request, unchanged since it listed them
    torn,           \* a route's path was written between a request's reads of it
    seen, won,      \* length of the path that covered: of the route looked at, the best
    open,           \* services each route was ever sent to serve without a key
    calm            \* no updates of one route overlap, and none adds the need of a key

vars == <<route, born, stored, services, adm, updates, req,
          dirty, steady, torn, seen, won, open, calm>>

RouteObject == [path : Paths, method : Methods, service : Services,
                auth : BOOLEAN, strip : BOOLEAN]

ASSUME SentAssumption == Sent \subseteq RouteObject

\* The fields of an unborn route, an idle call or request mean nothing.
AnyId == CHOOSE i \in RouteIds : TRUE
AnyObject == [path |-> CHOOSE p \in Paths : TRUE, method |-> "GET",
              service |-> CHOOSE s \in Services : TRUE, auth |-> TRUE, strip |-> FALSE]

\* wants: what was sent, and then what was read to be trimmed.
Call == [at : {"idle", "creating", "path", "method", "service", "strip", "auth",
               "read path", "trim path", "read method", "trim method", "read service",
               "trim service", "check path", "empty", "default", "check method",
               "find", "store"},
         id : RouteIds, wants : RouteObject]
NoCall == [at |-> "idle", id |-> AnyId, wants |-> AnyObject]

\* unread: listed routes MatchRoute has yet to look at; look: the one it looks
\* at; best: the one so far, as these two are, as a set (none is the code's -1),
\* and its length.  upstream: the path that the forward asks for.
Lengths == {0} \cup {Chars[p] : p \in Paths}
Request == [at : {"idle", "matching", "comparing", "prefixing", "measuring", "taking",
                  "matched", "resolving", "forwarding", "stripping", "trimming",
                  "sent", "unmatched", "refused"},
            asked : Asked, unread : SUBSET RouteIds, look : SUBSET RouteIds,
            best : SUBSET RouteIds, length : Lengths, keyless : BOOLEAN,
            service : Services, upstream : Path]
NoRequest == [at |-> "idle", asked |-> CHOOSE k \in Asked : TRUE, unread |-> {}, look |-> {},
              best |-> {}, length |-> 0, keyless |-> FALSE, service |-> AnyObject.service,
              upstream |-> Empty]

TypeOK ==
    /\ route \in [RouteIds -> RouteObject]
    /\ born \in SUBSET RouteIds /\ stored \in SUBSET born
    /\ services \in SUBSET Services
    /\ adm \in [Admins -> Call] /\ updates \in 0 .. MaxUpdates
    /\ req \in [Requests -> Request]
    /\ dirty \in SUBSET RouteIds
    /\ steady \in [Requests -> SUBSET RouteIds] /\ torn \in [Requests -> BOOLEAN]
    /\ seen \in [Requests -> Lengths] /\ won \in [Requests -> Lengths]
    /\ open \in [RouteIds -> SUBSET Services] /\ calm \in BOOLEAN

\* The ids of services are random, without spaces.
Init ==
    /\ route = [i \in RouteIds |-> AnyObject]
    /\ born = {} /\ stored = {} /\ services = {s \in Services : TrimName[s] = s}
    /\ adm = [a \in Admins |-> NoCall] /\ updates = 0
    /\ req = [q \in Requests |-> NoRequest]
    /\ dirty = {} /\ steady = [q \in Requests |-> {}] /\ torn = [q \in Requests |-> FALSE]
    /\ seen = [q \in Requests |-> 0] /\ won = [q \in Requests |-> 0]
    /\ open = [i \in RouteIds |-> {}] /\ calm = TRUE

-----------------------------------------------------------------------------
\* Two routes, or a route before and after a step, with one method and path.
SameKey(o, p) == o.path = p.path /\ o.method = p.method

\* Ghosts.  Whatever a step does to the routes, a route stays steady for a
\* request only while it is stored with the key and StripPrefix it had; and a
\* look is torn if the path is written after it was found to cover.
Watch ==
    /\ steady' = [q \in Requests |->
                    {i \in steady[q] : /\ i \in stored' /\ SameKey(route'[i], route[i])
                                        /\ route'[i].strip = route[i].strip}]
    /\ torn' = [q \in Requests |->
                  \/ torn[q]
                  \/ /\ req[q].at \in {"measuring", "taking"}
                     /\ \E i \in req[q].look : route'[i].path # route[i].path]

Offer(i, o) == open' = IF o.auth THEN open
                       ELSE [open EXCEPT ![i] = @ \cup {o.service, TrimName[o.service]}]

Updating(i) ==
    \E a \in Admins : adm[a].id = i /\ adm[a].at \notin {"idle", "creating"}

-----------------------------------------------------------------------------
\* Route.Validate of an object that nobody else has.
Normal(o) ==
    LET method == ToUpper[o.method]
    IN  [o EXCEPT !.path = TrimSpace[@], !.method = IF method = "" THEN "GET" ELSE method,
                  !.service = TrimName[@]]
Valid(o) == HasPrefix(o.path, Root) /\ o.method \in Legal

\* The store's check of method and path, under its lock.
KeyTaken(i, o) == \E j \in stored : j # i /\ SameKey(route[j], o)

\* Faulty id, for the checks: one that a route may have already.
StartCreateAnyId(a, i, sent) ==
    LET o == Normal(sent) IN
    /\ adm[a].at = "idle"
    /\ Valid(o) /\ o.service \in services
    /\ adm' = [adm EXCEPT ![a] = [at |-> "creating", id |-> i, wants |-> o]]
    /\ UNCHANGED <<route, born, stored, services, updates, req,
                   dirty, steady, torn, seen, won, open, calm>>

\* CreateRoute: the service is looked up before the store's lock is taken.
StartCreate(a, i, sent) ==
    LET o == Normal(sent) IN
    /\ adm[a].at = "idle" /\ i \notin born
    /\ Valid(o) /\ o.service \in services
    /\ born' = born \cup {i}
    /\ adm' = [adm EXCEPT ![a] = [at |-> "creating", id |-> i, wants |-> o]]
    /\ UNCHANGED <<route, stored, services, updates, req,
                   dirty, steady, torn, seen, won, open, calm>>

StoreCreated(a) ==
    LET i == adm[a].id
        o == adm[a].wants
    IN  /\ adm[a].at = "creating"
        /\ IF KeyTaken(i, o)
           THEN UNCHANGED <<route, stored, open>>
           ELSE /\ route' = [route EXCEPT ![i] = o]
                /\ stored' = stored \cup {i}
                /\ Offer(i, o)
        /\ adm' = [adm EXCEPT ![a] = NoCall]
        /\ UNCHANGED <<born, services, updates, req, dirty, seen, won, calm>>
        /\ Watch

DeleteRoute(i) ==
    /\ i \in stored
    /\ stored' = stored \ {i}
    /\ UNCHANGED <<route, born, services, adm, updates, req, dirty, seen, won, open, calm>>
    /\ Watch

DeleteService(s) ==
    /\ s \in services
    /\ services' = services \ {s}
    /\ UNCHANGED <<route, born, stored, adm, updates, req,
                   dirty, steady, torn, seen, won, open, calm>>

\* Updating or deleting a route that is not there does nothing.
RouteMissing(a, i) ==
    /\ adm[a].at = "idle" /\ i \notin stored
    /\ UNCHANGED vars

-----------------------------------------------------------------------------
\* UpdateRoute finds the object ...
StartUpdate(a, i, o) ==
    /\ adm[a].at = "idle" /\ updates < MaxUpdates
    /\ i \in stored
    /\ adm' = [adm EXCEPT ![a] = [at |-> "path", id |-> i, wants |-> o]]
    /\ updates' = updates + 1
    /\ Offer(i, o)
    /\ calm' = (calm /\ ~Updating(i) /\ (o.auth => route[i].auth))
    /\ UNCHANGED <<route, born, stored, services, req, dirty, steady, torn, seen, won>>

Own(a) == route[adm[a].id]

\* A step of an update that writes a field, making the object o.
Writes(a, at, o, next) ==
    /\ adm[a].at = at
    /\ route' = [route EXCEPT ![adm[a].id] = o]
    /\ adm' = [adm EXCEPT ![a].at = next]
    /\ UNCHANGED <<born, stored, services, updates, req, dirty, seen, won, open, calm>>
    /\ Watch

\* A step that only reads, and keeps what it read in w.
Reads(a, at, w, next) ==
    /\ adm[a].at = at
    /\ adm' = [adm EXCEPT ![a].at = next, ![a].wants = w]
    /\ UNCHANGED <<route, born, stored, services, updates, req,
                   dirty, steady, torn, seen, won, open, calm>>

\* Faulty first write, for the checks: of RequiresAuth too, before ServiceID.
WritePathAndAuth(a) ==
    Writes(a, "path", [Own(a) EXCEPT !.path = adm[a].wants.path, !.auth = adm[a].wants.auth],
           "method")

\* ... writes its fields ...
WritePath(a) == Writes(a, "path", [Own(a) EXCEPT !.path = adm[a].wants.path], "method")
WriteMethod(a) == Writes(a, "method", [Own(a) EXCEPT !.method = adm[a].wants.method], "service")
WriteService(a) == Writes(a, "service", [Own(a) EXCEPT !.service = adm[a].wants.service], "strip")
WriteStrip(a) == Writes(a, "strip", [Own(a) EXCEPT !.strip = adm[a].wants.strip], "auth")
WriteAuth(a) == Writes(a, "auth", [Own(a) EXCEPT !.auth = adm[a].wants.auth], "read path")

\* ... and validates the shared object: reads a field, and writes it back trimmed ...
ReadPath(a) ==
    Reads(a, "read path", [AnyObject EXCEPT !.path = TrimSpace[Own(a).path]], "trim path")
TrimPath(a) == Writes(a, "trim path", [Own(a) EXCEPT !.path = adm[a].wants.path], "read method")
ReadMethod(a) ==
    Reads(a, "read method", [AnyObject EXCEPT !.method = ToUpper[Own(a).method]], "trim method")
TrimMethod(a) ==
    Writes(a, "trim method", [Own(a) EXCEPT !.method = adm[a].wants.method], "read service")
ReadOwner(a) ==
    Reads(a, "read service", [AnyObject EXCEPT !.service = TrimName[Own(a).service]],
          "trim service")
TrimService(a) ==
    Writes(a, "trim service", [Own(a) EXCEPT !.service = adm[a].wants.service], "check path")

\* ... with "GET" for no method ...
IsMethodEmpty(a) ==
    Reads(a, "empty", AnyObject, IF Own(a).method = "" THEN "default" ELSE "check method")
DefaultMethod(a) == Writes(a, "default", [Own(a) EXCEPT !.method = "GET"], "check method")

\* ... and checks it.  The call goes on to the next step, or out with the route
\* as written.
Check(a, at, ok, bad, next) ==
    /\ adm[a].at = at
    /\ \/ ok /\ adm' = [adm EXCEPT ![a].at = next] /\ UNCHANGED dirty
       \/ bad /\ adm' = [adm EXCEPT ![a] = NoCall] /\ dirty' = dirty \cup {adm[a].id}
    /\ UNCHANGED <<route, born, stored, services, updates, req,
                   steady, torn, seen, won, open, calm>>

\* A check that compares a field several times passes by its last comparison, and
\* an update of the same route in between may make it fail by an earlier one.
Overlapped(a) ==
    \E b \in Admins \ {a} : adm[b].id = adm[a].id /\ adm[b].at \notin {"idle", "creating"}

CheckPath(a) ==
    LET ok == HasPrefix(Own(a).path, Root)
    IN  Check(a, "check path", ok, ~ok \/ Overlapped(a), "empty")

CheckMethod(a) ==
    LET ok == Own(a).method \in Legal
    IN  Check(a, "check method", ok, ~ok \/ Overlapped(a), "find")

UpdateFindService(a) ==
    LET ok == Own(a).service \in services IN Check(a, "find", ok, ~ok, "store")

\* Faulty store update, for the checks: lets two routes have one key.
UpdateUnchecked(a) ==
    /\ adm[a].at = "store"
    /\ dirty' = dirty \ {adm[a].id}
    /\ adm' = [adm EXCEPT ![a] = NoCall]
    /\ UNCHANGED <<route, born, stored, services, updates, req,
                   steady, torn, seen, won, open, calm>>

\* The store refuses a route deleted meanwhile and a key that is taken.
UpdateStore(a) ==
    LET i == adm[a].id IN
    /\ adm[a].at = "store"
    /\ dirty' = IF i \in stored /\ ~KeyTaken(i, route[i]) THEN dirty \ {i}
                                                         ELSE dirty \cup {i}
    /\ adm' = [adm EXCEPT ![a] = NoCall]
    /\ UNCHANGED <<route, born, stored, services, updates, req,
                   steady, torn, seen, won, open, calm>>

-----------------------------------------------------------------------------
\* A step of a request leaves all else alone but what is watched of it.
Goes(q, r) ==
    /\ req' = [req EXCEPT ![q] = r]
    /\ UNCHANGED <<route, born, stored, services, adm, updates, dirty, open, calm>>
Unwatched == UNCHANGED <<steady, torn, seen, won>>

\* MatchRoute lists the stored objects under the lock ...
ListRoutes(q, asked) ==
    /\ req[q].at = "idle"
    /\ Goes(q, [req[q] EXCEPT !.at = "matching", !.asked = asked, !.unread = stored])
    /\ steady' = [steady EXCEPT ![q] = stored]
    /\ UNCHANGED <<torn, seen, won>>

\* ... looks at one after another, in the map's order, which is any: it reads
\* Method ...
Look(q, i) ==
    LET same == route[i].method = req[q].asked.method
    IN  /\ req[q].at = "matching" /\ i \in req[q].unread
        /\ Goes(q, [req[q] EXCEPT !.at = IF same THEN "comparing" ELSE "matching",
                                  !.unread = @ \ {i}, !.look = IF same THEN {i} ELSE {}])
        /\ Unwatched

\* On to the next route.
PassOver(q) == Goes(q, [req[q] EXCEPT !.at = "matching", !.look = {}]) /\ Unwatched

\* The route's path, as read now, covers the request's.
Covers(q, i) ==
    /\ Goes(q, [req[q] EXCEPT !.at = "measuring"])
    /\ seen' = [seen EXCEPT ![q] = Chars[route[i].path]]
    /\ UNCHANGED <<steady, torn, won>>

\* ... Path, for the very path ...
Compare(q) ==
    /\ req[q].at = "comparing"
    /\ \E i \in req[q].look :
          IF route[i].path = req[q].asked.path THEN Covers(q, i)
          ELSE Goes(q, [req[q] EXCEPT !.at = "prefixing"]) /\ Unwatched

\* ... Path again, for one that the request's lies below ...
Prefix(q) ==
    /\ req[q].at = "prefixing"
    /\ \E i \in req[q].look :
          IF CoversBelow(route[i].path, req[q].asked.path) THEN Covers(q, i) ELSE PassOver(q)

\* ... the length of Path ...
Measure(q) ==
    /\ req[q].at = "measuring"
    /\ \E i \in req[q].look :
          IF req[q].best = {} \/ Chars[route[i].path] > req[q].length
          THEN Goes(q, [req[q] EXCEPT !.at = "taking"]) /\ Unwatched
          ELSE PassOver(q)

\* ... and once more, to keep it as the best.
Take(q) ==
    /\ req[q].at = "taking"
    /\ \E i \in req[q].look :
          Goes(q, [req[q] EXCEPT !.at = "matching", !.look = {}, !.best = {i},
                                 !.length = Chars[route[i].path]])
    /\ won' = [won EXCEPT ![q] = seen[q]]
    /\ UNCHANGED <<steady, torn, seen>>

Matched(q) ==
    /\ req[q].at = "matching" /\ req[q].unread = {}
    /\ Goes(q, [req[q] EXCEPT !.at = IF req[q].best = {} THEN "unmatched" ELSE "matched"])
    /\ Unwatched

\* What was watched of the match is over.
Unwatch(q) ==
    /\ torn' = [torn EXCEPT ![q] = FALSE]
    /\ seen' = [seen EXCEPT ![q] = 0] /\ won' = [won EXCEPT ![q] = 0]

\* The gateway reads RequiresAuth.  (With a key the request goes on as one
\* that is free to: Gateway has the refusal.)
ReadAuth(q) ==
    /\ req[q].at = "matched"
    /\ \E i \in req[q].best :
          Goes(q, [req[q] EXCEPT !.at = "resolving", !.length = 0, !.keyless = ~route[i].auth])
    /\ Unwatch(q) /\ UNCHANGED steady

\* It reads ServiceID and looks the service up.
ReadService(q) ==
    /\ req[q].at = "resolving"
    /\ \E i \in req[q].best :
          Goes(q, [req[q] EXCEPT
                     !.at = IF route[i].service \in services THEN "forwarding" ELSE "refused",
                     !.service = route[i].service])
    /\ Unwatched

\* The Director joins the base URL's path to the request's, reads StripPrefix ...
Direct(q) ==
    /\ req[q].at = "forwarding"
    /\ \E i \in req[q].best :
          Goes(q, [req[q] EXCEPT
                     !.at = IF route[i].strip THEN "stripping" ELSE "sent", !.keyless = FALSE,
                     !.upstream = Joined(BasePath[req[q].service], req[q].asked.path)])
    /\ Unwatched

\* ... and Path, and if that is a prefix of the joined path ...
FindPrefix(q) ==
    /\ req[q].at = "stripping"
    /\ \E i \in req[q].best :
          Goes(q, [req[q] EXCEPT
                     !.at = IF HasPrefix(req[q].upstream, route[i].path) THEN "trimming"
                                                                         ELSE "sent"])
    /\ Unwatched

\* ... reads Path once more and takes it away.
Strip(q) ==
    /\ req[q].at = "trimming"
    /\ \E i \in req[q].best :
          Goes(q, [req[q] EXCEPT !.at = "sent", !.upstream = Trimmed(@, route[i].path)])
    /\ Unwatched

Leave(q) ==
    /\ req[q].at \in {"sent", "unmatched", "refused"}
    /\ Goes(q, NoRequest)
    /\ steady' = [steady EXCEPT ![q] = {}] /\ Unwatch(q)

UpdateStep(a) ==
    \/ WritePath(a) \/ WriteMethod(a) \/ WriteService(a) \/ WriteStrip(a) \/ WriteAuth(a)
    \/ ReadPath(a) \/ TrimPath(a) \/ ReadMethod(a) \/ TrimMethod(a) \/ ReadOwner(a)
    \/ TrimService(a) \/ CheckPath(a) \/ IsMethodEmpty(a) \/ DefaultMethod(a)
    \/ CheckMethod(a) \/ UpdateFindService(a) \/ UpdateStore(a)

AdminStep(a) ==
    \/ \E i \in RouteIds, o \in Sent : StartCreate(a, i, o) \/ StartUpdate(a, i, o)
    \/ \E i \in RouteIds : RouteMissing(a, i)
    \/ StoreCreated(a) \/ UpdateStep(a)

RequestStep(q) ==
    \/ \E asked \in Asked : ListRoutes(q, asked)
    \/ \E i \in RouteIds : Look(q, i)
    \/ Compare(q) \/ Prefix(q) \/ Measure(q) \/ Take(q) \/ Matched(q)
    \/ ReadAuth(q) \/ ReadService(q) \/ Direct(q) \/ FindPrefix(q) \/ Strip(q) \/ Leave(q)

Next ==
    \/ \E a \in Admins : AdminStep(a)
    \/ \E q \in Requests : RequestStep(q)
    \/ \E i \in RouteIds : DeleteRoute(i)
    \/ \E s \in Services : DeleteService(s)

Spec == Init /\ [][Next]_vars

-----------------------------------------------------------------------------
\* Two stored routes have one method and path only while one of them is being
\* updated, or after an update of one of them was refused: however creations
\* and updates interleave, and though Validate writes back what it read before
\* another update's writes, the check at an update's end lets no duplicate through.
DuplicatesOnlyByFailure ==
    \A i, j \in stored :
        (i # j /\ SameKey(route[i], route[j])) =>
            \E k \in {i, j} : k \in dirty \/ Updating(k)

\* A route that has not changed since the request listed it, with the method
\* asked for, and the path asked for or one that it lies below.  (Nothing lies
\* below a path that ends in a slash, "/" too.)
Fit(q) == {i \in steady[q] : /\ route[i].method = req[q].asked.method
                              /\ IsPrefix(route[i].path, req[q].asked.path)}

\* The route taken covered what was asked for by a path no shorter than theirs.
TakenByLongest(q) ==
    req[q].at = "matched" => \A i \in Fit(q) : won[q] >= Chars[route[i].path]

\* Whatever changes while a request looks for its route, one that does not change
\* and fits is not missed, and one that does not fit is not taken.  Nor is one
\* that fits passed over for a shorter one, unless a path is written just between
\* the reads of one look at it.
SteadyRouteFound ==
    \A q \in Requests :
        /\ req[q].at = "unmatched" => Fit(q) = {}
        /\ \A i \in steady[q] \cap req[q].best : IsPrefix(route[i].path, req[q].asked.path)
        /\ ~torn[q] => TakenByLongest(q)

\* What a service is asked for is what lies below the route's path, if the
\* route does not change.
StrippedFor(q) ==
    \A i \in steady[q] : (req[q].at = "sent" /\ i \in req[q].best) =>
        LET path == req[q].asked.path IN
        req[q].upstream =
            Joined(BasePath[req[q].service],
                   IF route[i].strip THEN Below(route[i].path, path) ELSE path)

\* README.md:21 says that strip_prefix strips the prefix.
PrefixStripped == \A q \in Requests : StrippedFor(q)

\* Whatever becomes of other routes and of their keys meanwhile, it does so
\* for a service whose base URL has no path.
StrippedWithoutBase ==
    \A q \in Requests : BasePath[req[q].service] = Empty => StrippedFor(q)

\* README.md:9 says the store's lock makes concurrent use safe: a request
\* without a key is served by a version of the route that an administrator sent
\* to be served so.
OneVersion ==
    \A q \in Requests :
        (req[q].at = "forwarding" /\ req[q].keyless) =>
            \A i \in req[q].best : req[q].service \in open[i]

\* UpdateRoute writes ServiceID before RequiresAuth, the gateway reads them the
\* other way round.  So that much does hold, however the fields it reads are
\* torn, while updates do not overlap and none adds the need of a key.
LooseningIsSafe == calm => OneVersion
=============================================================================
