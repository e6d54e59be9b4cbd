-------------------------------- MODULE Reports --------------------------------
(***************************************************************************)
(* The access log as its readers see it: a client that goes through its pages, *)
(* and the report of a route's traffic, while the gateway goes on logging.     *)
(*                                                                           *)
(* An entry's timestamp is taken when its request arrives, and the entry is     *)
(* stored when the request has been served: entries are not stored in the order *)
(* of their timestamps.  Entries are never deleted.  The map they are kept in   *)
(* is listed in any order, and sort.Slice leaves equal ones in any order.      *)
(***************************************************************************)
EXTENDS Integers, FiniteSets, SequencesExt

CONSTANTS
    Entries,        \* ids of log entries, each stored once
    Latencies,      \* in milliseconds
    Sizes,          \* page sizes that the client may ask for
    DefaultSize,    \* 20
    MaxSize,        \* maxPageSize
    MaxInt,         \* the largest int
    MaxTime         \* bound on the clock

ASSUME ReportsAssumption ==
    /\ IsFiniteSet(Entries)
    /\ Latencies \subseteq Nat /\ Sizes \subseteq Int /\ Sizes # {}
    /\ MaxTime \in Nat \ {0}
    /\ DefaultSize \in Nat \ {0} /\ MaxSize \in Nat \ {0} /\ MaxInt \in Nat
    /\ Cardinality(Entries) + MaxSize <= MaxInt

VARIABLES
    now,            \* the clock
    stamp,          \* RequestLog.Timestamp, 0 before the request arrives
    logged,         \* entries in the store
    latency,        \* RequestLog.LatencyMs
    walk,           \* the client that walks the pages
    unread,         \* entries of its list that GetGatewayStats has yet to count
    traffic,        \* the RouteTraffic it has counted, for one route
    \* What the properties watch.
    present,        \* entries that were stored when the walk began
    sum             \* of the latencies in traffic

logs == <<now, stamp, logged, latency>>
walks == <<walk, present>>
stats == <<unread, traffic, sum>>
vars == <<logs, walks, stats>>

Ints == (-MaxInt - 1) .. MaxInt

Walk == [at : {"idle", "walking", "done"}, page : Nat \ {0}, size : Sizes, got : SUBSET Entries]
NoWalk == [at |-> "idle", page |-> 1, size |-> CHOOSE s \in Sizes : TRUE, got |-> {}]

TypeOK ==
    /\ now \in 1 .. MaxTime /\ stamp \in [Entries -> 0 .. MaxTime]
    /\ logged \in SUBSET Entries /\ \A e \in logged : stamp[e] # 0
    /\ latency \in [Entries -> Latencies \cup {0}]
    /\ walk \in Walk /\ present \in SUBSET logged
    /\ unread \in SUBSET Entries
    /\ traffic \in [requests : Nat, average : Nat] /\ sum \in Nat

NoTraffic == [requests |-> 0, average |-> 0]

Init ==
    /\ now = 1 /\ stamp = [e \in Entries |-> 0] /\ logged = {}
    /\ latency = [e \in Entries |-> 0]
    /\ walk = NoWalk /\ present = {}
    /\ unread = {} /\ traffic = NoTraffic /\ sum = 0

-----------------------------------------------------------------------------
\* int arithmetic.
Wrap(n) == ((n + MaxInt + 1) % (2 * (MaxInt + 1))) - MaxInt - 1

\* ParsePagination, of what Atoi made of the query: 0 of what is no number, the
\* last int of what is too large.
ParsePagination(page, size) ==
    [page |-> IF page < 1 THEN 1 ELSE page,
     size |-> LET asked == IF size < 1 THEN DefaultSize ELSE size
              IN  IF asked > MaxSize THEN MaxSize ELSE asked]

Page(items) == [panic |-> FALSE, items |-> items]

\* A slice expression out of range; recoveryMiddleware answers 500.
Panic == [panic |-> TRUE, items |-> <<>>]

\* Faulty, for the checks: counts pages from zero.
PaginateFromZero(list, page, size) ==
    LET start == Wrap(page * size)
        next == Wrap(start + size)
        end == IF next > Len(list) THEN Len(list) ELSE next
    IN  IF start >= Len(list) THEN Page(<<>>)
        ELSE IF start < 0 \/ end < start THEN Panic
        ELSE Page(SubSeq(list, start + 1, end))

\* paginate; its own defaults never apply after ParsePagination.
Paginate(list, page, size) ==
    LET start == Wrap(Wrap(page - 1) * size)
        next == Wrap(start + size)
        end == IF next > Len(list) THEN Len(list) ELSE next
    IN  IF start >= Len(list) THEN Page(<<>>)
        ELSE IF start < 0 \/ end < start THEN Panic
        ELSE Page(SubSeq(list, start + 1, end))

\* Faulty, for the checks: the list as the map gives it.
Unsorted(entries, s) == SetToSeqs(entries)

\* Newest first, in an order of the stamps s.
Newest(entries, s) ==
    {list \in SetToSeqs(entries) :
        \A j, k \in DOMAIN list : j < k => s[list[j]] >= s[list[k]]}

-----------------------------------------------------------------------------
Tick == now < MaxTime /\ now' = now + 1 /\ UNCHANGED <<stamp, logged, latency, walks, stats>>

\* gatewayHandler: time.Now() at the beginning ...
Arrive(e) ==
    /\ stamp[e] = 0
    /\ stamp' = [stamp EXCEPT ![e] = now]
    /\ UNCHANGED <<now, logged, latency, walks, stats>>

\* Faulty, for the checks: logs what has not arrived.
RecordRequestUnstamped(e, ms) ==
    /\ e \notin logged
    /\ logged' = logged \cup {e} /\ latency' = [latency EXCEPT ![e] = ms]
    /\ UNCHANGED <<now, stamp, walks, stats>>

\* ... and RecordRequest at the end.
RecordRequest(e, ms) ==
    /\ stamp[e] # 0 /\ e \notin logged
    /\ logged' = logged \cup {e} /\ latency' = [latency EXCEPT ![e] = ms]
    /\ UNCHANGED <<now, stamp, walks, stats>>

-----------------------------------------------------------------------------
\* A client asks for the first page ...
StartWalk(size) ==
    /\ walk.at = "idle"
    /\ walk' = [NoWalk EXCEPT !.at = "walking", !.size = size]
    /\ present' = logged
    /\ UNCHANGED <<logs, stats>>

\* ... and, with the size it is answered, for the next until they make the
\* total.  ListRequestLogs sorts the list of the moment.  (Walks are long before
\* the page number overflows.)
ListRequestLogs ==
    LET query == ParsePagination(walk.page, walk.size) IN
    /\ walk.at = "walking"
    /\ \E list \in Newest(logged, stamp) :
          LET items == Paginate(list, query.page, query.size).items
              got == walk.got \cup {items[k] : k \in DOMAIN items}
          IN  walk' = IF query.page * query.size >= Len(list)
                      THEN [walk EXCEPT !.at = "done", !.got = got]
                      ELSE [walk EXCEPT !.page = @ + 1, !.got = got]
    /\ UNCHANGED <<present, logs, stats>>

EndWalk ==
    /\ walk.at = "done"
    /\ walk' = NoWalk /\ present' = {}
    /\ UNCHANGED <<logs, stats>>

-----------------------------------------------------------------------------
\* GetGatewayStats lists the entries ...
StartStats ==
    /\ unread = {} /\ unread' = logged
    /\ traffic' = NoTraffic /\ sum' = 0
    /\ UNCHANGED <<logs, walks>>

\* Faulty, for the checks: the old average counts for as many as the new.
AverageUnweighted(average, n, ms) == (average * n + ms) \div n

\* The average latency of n requests, from that of n - 1 and the n-th.
Average(average, n, ms) == (average * (n - 1) + ms) \div n

\* ... and counts one after another, in the map's order.  (Counts by status, and
\* other routes', are kept apart.)
CountEntry(e) ==
    LET n == traffic.requests + 1 IN
    /\ e \in unread /\ unread' = unread \ {e}
    /\ traffic' = [requests |-> n, average |-> Average(traffic.average, n, latency[e])]
    /\ sum' = sum + latency[e]
    /\ UNCHANGED <<logs, walks>>

Next ==
    \/ Tick
    \/ \E e \in Entries : Arrive(e) \/ CountEntry(e) \/ \E ms \in Latencies : RecordRequest(e, ms)
    \/ \E size \in Sizes : StartWalk(size)
    \/ ListRequestLogs \/ EndWalk \/ StartStats

Spec == Init /\ [][Next]_vars

-----------------------------------------------------------------------------
\* A client that walks the pages misses no entry that was stored when it began,
\* however many are stored meanwhile and wherever in the list; it may see one
\* twice.  Only entries with one timestamp may change places between two pages.
WalkComplete ==
    walk.at = "done" =>
        \A e \in present : (\A f \in logged \ {e} : stamp[f] # stamp[e]) => e \in walk.got

\* Whatever a query asks for, the page it is answered holds the entries of that
\* page and no others, unless the index of its first entry is no int.
PageExact ==
    LET list == [k \in 1 .. Cardinality(logged) |-> k] IN
    \A asked \in Ints, wanted \in Ints :
        LET query == ParsePagination(asked, wanted)
            page == Paginate(list, query.page, query.size)
        IN  (query.page - 1) * query.size <= MaxInt =>
              /\ ~page.panic
              /\ {k \in DOMAIN list : (k - 1) \div query.size = query.page - 1}
                   = {page.items[k] : k \in DOMAIN page.items}

\* What the integer average of n latencies of a sum says about that sum.
Within(n, average, total) ==
    n * average <= total /\ 2 * (total - n * average) <= n * (n - 1)

\* The average, cut to an integer at each entry, is never above the true one,
\* and below it by no more than half the number of the entries before the last,
\* in whatever order they are counted.
AverageBounds == Within(traffic.requests, traffic.average, sum)
=============================================================================
