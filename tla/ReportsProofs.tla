---------------------------- MODULE ReportsProofs ----------------------------
(***************************************************************************)
(* Proofs about what administrators read: Reports for any log, clock and    *)
(* width of ints, and Export for any configuration and lists.               *)
(***************************************************************************)
EXTENDS Reports, Export, FiniteSetTheorems, TLAPS

\* The division of naturals, with what it leaves.
LEMMA Divided ==
    ASSUME NEW a \in Nat, NEW n \in Nat \ {0}
    PROVE  /\ a \div n \in Nat
           /\ n * (a \div n) <= a
           /\ a - n * (a \div n) <= n - 1
  OBVIOUS

LEMMA Product == ASSUME NEW a \in Nat, NEW b \in Nat PROVE a * b \in Nat
  BY SMT

\* One entry more: what is cut off adds to what was cut off, and is below n.
LEMMA AverageStep ==
    ASSUME NEW a \in Nat, NEW n \in Nat \ {0}, NEW ms \in Nat, NEW s \in Nat,
           Within(n - 1, a, s)
    PROVE  Average(a, n, ms) \in Nat /\ Within(n, Average(a, n, ms), s + ms)
<1> DEFINE all == a * (n - 1) + ms
           cut == all - n * (all \div n)
<1>1. a * (n - 1) = (n - 1) * a /\ (n - 1) * a \in Nat
  BY Product, SMT
<1>2. all \in Nat /\ all - ms = (n - 1) * a
  BY <1>1
<1>3. Average(a, n, ms) = all \div n
  BY DEF Average
<1> HIDE DEF all
<1>4. all \div n \in Nat /\ n * (all \div n) <= all /\ cut <= n - 1
  BY <1>2, Divided
<1>5. n * (all \div n) \in Nat
  BY <1>4, Product
<1>6. (n - 1) * (n - 2) + 2 * (n - 1) = n * (n - 1)
  BY SMT
<1>7. n * (n - 1) \in Nat /\ (n - 1) * (n - 2) \in Int
  BY SMT
<1> DEFINE p == n * (all \div n)
           q == (n - 1) * a
           u == (n - 1) * (n - 2)
           v == n * (n - 1)
<1>8. p <= s + ms
  <2>1. q <= s /\ all = q + ms /\ p <= all /\ q \in Nat /\ p \in Nat
    BY <1>1, <1>2, <1>4, <1>5 DEF Within
  <2> HIDE DEF p, q
  <2> QED BY <2>1
<1>9. 2 * (s + ms - p) <= v
  <2>1. 2 * (s - q) <= u /\ all = q + ms /\ all - p <= n - 1 /\ u + 2 * (n - 1) = v
    BY <1>1, <1>2, <1>4, <1>6 DEF Within
  <2>2. p \in Nat /\ q \in Nat /\ u \in Int /\ v \in Int
    BY <1>1, <1>5, <1>7
  <2> HIDE DEF p, q, u, v
  <2> QED BY <2>1, <2>2, <1>2
<1> QED BY <1>3, <1>4, <1>8, <1>9 DEF Within

-----------------------------------------------------------------------------
\* What the average rests on.
Counted ==
    /\ logged \in SUBSET Entries /\ latency \in [Entries -> Nat] /\ unread \in SUBSET Entries
    /\ traffic \in [requests : Nat, average : Nat] /\ sum \in Nat
    /\ AverageBounds

LEMMA CountedInit == Init => Counted
BY DEF Init, Counted, AverageBounds, Within, NoTraffic

LEMMA CountedStep == Counted /\ [Next]_vars => Counted'
<1> SUFFICES ASSUME Counted, [Next]_vars PROVE Counted'
  OBVIOUS
<1> USE DEF Counted
<1>1. ASSUME NEW e \in Entries, CountEntry(e) PROVE Counted'
  <2> DEFINE a == traffic.average
             n == traffic.requests + 1
             ms == latency[e]
  <2>1. a \in Nat /\ n \in Nat \ {0} /\ ms \in Nat /\ sum \in Nat /\ n - 1 = traffic.requests
    OBVIOUS
  <2>2. Within(n - 1, a, sum)
    BY <2>1 DEF AverageBounds
  <2>3. /\ traffic' = [requests |-> n, average |-> Average(a, n, ms)]
        /\ sum' = sum + ms /\ unread' \in SUBSET Entries
        /\ logged' = logged /\ latency' = latency
    BY <1>1 DEF CountEntry, logs
  <2> HIDE DEF a, n, ms
  <2>4. Average(a, n, ms) \in Nat /\ Within(n, Average(a, n, ms), sum + ms)
    BY <2>1, <2>2, AverageStep
  <2>5. traffic' \in [requests : Nat, average : Nat] /\ sum' \in Nat
    BY <2>1, <2>3, <2>4
  <2>6. traffic'.requests = n /\ traffic'.average = Average(a, n, ms)
    BY <2>3
  <2>7. AverageBounds'
    BY <2>3, <2>4, <2>6 DEF AverageBounds
  <2> QED BY <2>3, <2>5, <2>7
<1>2. CASE StartStats
  <2>1. traffic' = NoTraffic /\ sum' = 0 /\ unread' = logged /\ logged' = logged /\ latency' = latency
    BY <1>2 DEF StartStats, logs
  <2>2. AverageBounds'
    BY <2>1 DEF AverageBounds, Within, NoTraffic
  <2> QED BY <2>1, <2>2 DEF NoTraffic
<1>3. ASSUME NEW e \in Entries, NEW ms \in Latencies, RecordRequest(e, ms) PROVE Counted'
  BY <1>3, ReportsAssumption DEF RecordRequest, stats, AverageBounds, ReportsAssumption
<1>4. ASSUME UNCHANGED <<logged, latency, stats>> PROVE Counted'
  BY <1>4 DEF stats, AverageBounds
<1>5. CASE Tick
  BY <1>5, <1>4 DEF Tick
<1>6. ASSUME NEW e \in Entries, Arrive(e) PROVE Counted'
  BY <1>6, <1>4 DEF Arrive
<1>7. ASSUME NEW size \in Sizes, StartWalk(size) PROVE Counted'
  BY <1>7, <1>4 DEF StartWalk, logs
<1>8. CASE ListRequestLogs
  BY <1>8, <1>4 DEF ListRequestLogs, logs
<1>9. CASE EndWalk
  BY <1>9, <1>4 DEF EndWalk, logs
<1>10. CASE UNCHANGED vars
  BY <1>10, <1>4 DEF vars, logs
<1> QED BY <1>1, <1>2, <1>3, <1>5, <1>6, <1>7, <1>8, <1>9, <1>10 DEF Next

\* The average of a route, cut to an integer at each entry as stats_service.go:91
\* does it, is not above the true one, and below it by no more than half the
\* number of the entries before the last, for any latencies in any order.
THEOREM AverageIsBounded == Spec => []AverageBounds
<1>1. Counted => AverageBounds
  BY DEF Counted
<1> QED BY <1>1, CountedInit, CountedStep, PTL DEF Spec

-----------------------------------------------------------------------------
\* An int that is one stays what it is.
LEMMA WrapInt ==
    ASSUME NEW n \in Int, -MaxInt - 1 <= n, n <= MaxInt
    PROVE  Wrap(n) = n
<1>1. MaxInt \in Nat
  BY ReportsAssumption DEF ReportsAssumption
<1>2. \A x \in Nat, w \in Nat \ {0} : x < w => x % w = x
  BY SMT
<1>3. (n + MaxInt + 1) % (2 * (MaxInt + 1)) = n + MaxInt + 1
  BY <1>1, <1>2
<1> QED BY <1>1, <1>3 DEF Wrap

LEMMA Monotone ==
    ASSUME NEW a \in Nat, NEW b \in Nat, NEW c \in Nat, a <= b
    PROVE  a * c <= b * c
BY SMT

\* The numbers that a quotient is the quotient of.
LEMMA Quotient ==
    ASSUME NEW a \in Nat, NEW n \in Nat \ {0}, NEW p \in Nat
    PROVE  a \div n = p <=> p * n <= a /\ a < p * n + n
<1> DEFINE q == a \div n
<1>1. q \in Nat /\ n * q <= a /\ a - n * q <= n - 1
  BY Divided
<1>2. n * q = q * n /\ q * n \in Nat /\ p * n \in Nat
  BY <1>1, Product, SMT
<1>3. (q + 1) * n = q * n + n /\ (p + 1) * n = p * n + n
  BY <1>1, SMT
<1> HIDE DEF q
<1>4. q < p => (q + 1) * n <= p * n
  BY <1>1, Monotone
<1>5. p < q => (p + 1) * n <= q * n
  BY <1>1, Monotone
<1>6. q = p => p * n = q * n
  OBVIOUS
<1> DEFINE qn == q * n
           pn == p * n
<1>7. /\ qn \in Nat /\ pn \in Nat /\ qn <= a /\ a - qn <= n - 1
      /\ (q < p => qn + n <= pn) /\ (p < q => pn + n <= qn) /\ (q = p => pn = qn)
  BY <1>1, <1>2, <1>3, <1>4, <1>5, <1>6
<1> HIDE DEF qn, pn
<1>8. q = p <=> pn <= a /\ a < pn + n
  BY <1>1, <1>7
<1> QED BY <1>8 DEF q, pn

\* What ParsePagination lets through.
LEMMA Parsed ==
    ASSUME NEW asked \in Ints, NEW wanted \in Ints
    PROVE  /\ ParsePagination(asked, wanted).page \in 1 .. MaxInt
           /\ ParsePagination(asked, wanted).size \in 1 .. MaxSize
<1>1. DefaultSize \in Nat \ {0} /\ MaxSize \in Nat \ {0} /\ MaxInt \in Nat /\ MaxSize <= MaxInt
  <2>1. Cardinality(Entries) \in Nat
    BY ReportsAssumption, FS_CardinalityType DEF ReportsAssumption
  <2> QED BY <2>1, ReportsAssumption DEF ReportsAssumption
<1> QED BY <1>1 DEF ParsePagination, Ints

\* Where paginate cuts a list: from the page's first entry to its last, or to the
\* end of the list.
CutEnd(list, start, size) == IF start + size > Len(list) THEN Len(list) ELSE start + size
Cut(list, start, size) == SubSeq(list, start + 1, CutEnd(list, start, size))

LEMMA PageCut ==
    ASSUME NEW S, NEW list \in Seq(S), Len(list) + MaxSize <= MaxInt,
           NEW page \in 1 .. MaxInt, NEW size \in 1 .. MaxSize, (page - 1) * size <= MaxInt
    PROVE  LET start == (page - 1) * size
           IN  Paginate(list, page, size)
                 = Page(IF start >= Len(list) THEN <<>> ELSE Cut(list, start, size))
<1> DEFINE start == (page - 1) * size
           next == Wrap(start + size)
           end == IF next > Len(list) THEN Len(list) ELSE next
<1>1. /\ MaxSize \in Nat /\ MaxInt \in Nat /\ size \in Nat \ {0} /\ page - 1 \in Nat
      /\ Len(list) \in Nat
  BY ReportsAssumption DEF ReportsAssumption
<1>2. start \in Nat /\ start <= MaxInt
  BY <1>1, Product
<1>3. Wrap(page - 1) = page - 1 /\ Wrap(start) = start
  BY <1>1, <1>2, WrapInt
<1>4. Paginate(list, page, size) = IF start >= Len(list) THEN Page(<<>>)
                                   ELSE IF start < 0 \/ end < start THEN Panic
                                   ELSE Page(SubSeq(list, start + 1, end))
  BY <1>3 DEF Paginate
<1> SUFFICES Paginate(list, page, size)
               = Page(IF start >= Len(list) THEN <<>> ELSE Cut(list, start, size))
  OBVIOUS
<1> HIDE DEF start
<1>5. CASE start >= Len(list)
  BY <1>4, <1>5
<1>6. CASE start < Len(list)
  <2>1. next = start + size
    BY <1>1, <1>2, <1>6, WrapInt
  <2>2. ~(start >= Len(list)) /\ ~(start < 0 \/ end < start)
    BY <1>1, <1>2, <1>6, <2>1
  <2>3. Paginate(list, page, size) = Page(SubSeq(list, start + 1, end))
    BY <1>4, <2>2
  <2> QED BY <2>1, <2>2, <2>3 DEF Cut, CutEnd
<1> QED BY <1>1, <1>2, <1>5, <1>6

\* What is cut out is of the list, and where it was in the list.
LEMMA CutOut ==
    ASSUME NEW S, NEW list \in Seq(S), NEW start \in Nat, NEW size \in Nat \ {0},
           start < Len(list)
    PROVE  /\ CutEnd(list, start, size) \in Nat /\ start < CutEnd(list, start, size)
           /\ CutEnd(list, start, size) <= Len(list)
           /\ DOMAIN Cut(list, start, size) = 1 .. (CutEnd(list, start, size) - start)
           /\ \A i \in 1 .. (CutEnd(list, start, size) - start) :
                 Cut(list, start, size)[i] = list[start + i]
<1> DEFINE end == CutEnd(list, start, size)
<1>1. Len(list) \in Nat /\ end \in Nat /\ start < end /\ end <= Len(list)
  BY DEF CutEnd
<1> HIDE DEF end
<1>2. SubSeq(list, start + 1, end) = [i \in 1 .. (end - start) |-> list[start + i]]
  BY <1>1
<1> QED BY <1>1, <1>2 DEF Cut, end

Listed(n) == [k \in 1 .. n |-> k]

LEMMA PageHolds ==
    ASSUME NEW n \in Nat, n + MaxSize <= MaxInt, NEW page \in 1 .. MaxInt,
           NEW size \in 1 .. MaxSize, (page - 1) * size <= MaxInt
    PROVE  LET answer == Paginate(Listed(n), page, size) IN
           /\ ~answer.panic
           /\ {k \in DOMAIN Listed(n) : (k - 1) \div size = page - 1}
                = {answer.items[k] : k \in DOMAIN answer.items}
<1> DEFINE start == (page - 1) * size
           held == {k \in 1 .. n : (k - 1) \div size = page - 1}
           answer == Paginate(Listed(n), page, size)
<1>1. MaxSize \in Nat /\ MaxInt \in Nat /\ size \in Nat \ {0} /\ page - 1 \in Nat
  BY ReportsAssumption DEF ReportsAssumption
<1>2. start \in Nat /\ start <= MaxInt
  BY <1>1, Product
<1>3. Listed(n) \in Seq(Nat) /\ Len(Listed(n)) = n /\ DOMAIN Listed(n) = 1 .. n
  BY DEF Listed
<1>4. \A k \in 1 .. n : k \in held <=> start <= k - 1 /\ k - 1 < start + size
  BY <1>1, Quotient
<1> DEFINE end == CutEnd(Listed(n), start, size)
<1>5. answer = Page(IF start >= n THEN <<>> ELSE Cut(Listed(n), start, size))
  BY <1>2, <1>3, PageCut
<1> SUFFICES ~answer.panic /\ held = {answer.items[k] : k \in DOMAIN answer.items}
  BY <1>3
<1> HIDE DEF start, answer
<1>6. CASE start >= n
  <2>1. answer = Page(<<>>)
    BY <1>5, <1>6
  <2>2. held = {}
    <3>1. \A k \in 1 .. n : k \notin held
      BY <1>2, <1>4, <1>6
    <3> QED BY <3>1
  <2> QED BY <2>1, <2>2 DEF Page
<1>7. CASE start < n
  <2> DEFINE items == Cut(Listed(n), start, size)
  <2>1. /\ end \in Nat /\ start < end /\ end <= n /\ end <= start + size
        /\ end = n \/ end = start + size
    BY <1>1, <1>2, <1>3, <1>7 DEF CutEnd
  <2>2. DOMAIN items = 1 .. (end - start) /\ \A i \in 1 .. (end - start) : items[i] = start + i
    <3> DEFINE list == Listed(n)
    <3> HIDE DEF list
    <3>1. list \in Seq(Nat) /\ start < Len(list)
      BY <1>3, <1>7 DEF list
    <3>2. /\ DOMAIN Cut(list, start, size) = 1 .. (CutEnd(list, start, size) - start)
          /\ \A i \in 1 .. (CutEnd(list, start, size) - start) :
                Cut(list, start, size)[i] = list[start + i]
      BY <1>1, <1>2, <3>1, CutOut
    <3>3. /\ DOMAIN items = 1 .. (end - start)
          /\ \A i \in 1 .. (end - start) : items[i] = Listed(n)[start + i]
      BY <3>2, Zenon DEF list
    <3> HIDE DEF end, items
    <3>4. \A i \in 1 .. (end - start) : Listed(n)[start + i] = start + i
      BY <1>2, <2>1 DEF Listed
    <3> QED BY <3>3, <3>4
  <2>3. answer = Page(items)
    BY <1>2, <1>5, <1>7
  <2> HIDE DEF end, items
  <2>4. {items[k] : k \in DOMAIN items} = (start + 1) .. end
    <3>1. \A x \in (start + 1) .. end : x - start \in DOMAIN items /\ items[x - start] = x
      BY <1>2, <2>1, <2>2
    <3>2. \A k \in DOMAIN items : items[k] \in (start + 1) .. end
      BY <1>2, <2>1, <2>2
    <3> QED BY <3>1, <3>2
  <2>5. held = (start + 1) .. end
    <3>1. \A k \in 1 .. n : k \in held <=> k \in (start + 1) .. end
      BY <1>1, <1>2, <1>4, <2>1
    <3>2. (start + 1) .. end \subseteq 1 .. n /\ held \subseteq 1 .. n
      BY <1>2, <2>1
    <3> HIDE DEF held
    <3> QED BY <3>1, <3>2
  <2> QED BY <2>3, <2>4, <2>5 DEF Page
<1> QED BY <1>1, <1>2, <1>6, <1>7

\* A page holds what belongs on it, for every query and any number of entries
\* that fits: paginate (service.go:38) and ParsePagination (httpx.go:78), with
\* an int of any width.
THEOREM PagesAreExact == Spec => []PageExact
<1>1. Counted => PageExact
  <2> SUFFICES ASSUME Counted PROVE PageExact
    OBVIOUS
  <2> DEFINE n == Cardinality(logged)
  <2>1. n \in Nat /\ n + MaxSize <= MaxInt
    <3>1. IsFiniteSet(logged) /\ Cardinality(logged) <= Cardinality(Entries)
      BY ReportsAssumption, FS_Subset DEF ReportsAssumption, Counted
    <3> QED BY <3>1, FS_CardinalityType, ReportsAssumption DEF ReportsAssumption
  <2> HIDE DEF n
  <2> SUFFICES ASSUME NEW asked \in Ints, NEW wanted \in Ints
      PROVE  LET query == ParsePagination(asked, wanted)
                 answer == Paginate(Listed(n), query.page, query.size)
             IN  (query.page - 1) * query.size <= MaxInt =>
                   /\ ~answer.panic
                   /\ {k \in DOMAIN Listed(n) : (k - 1) \div query.size = query.page - 1}
                        = {answer.items[k] : k \in DOMAIN answer.items}
    BY DEF PageExact, Listed, n
  <2> QED BY <2>1, Parsed, PageHolds
<1> QED BY <1>1, CountedInit, CountedStep, PTL DEF Spec

-----------------------------------------------------------------------------
\* Whatever it is asked for, a page shows nothing that is not in the list.
LEMMA ItemsListed ==
    ASSUME NEW S, NEW list \in Seq(S), NEW page \in Int, NEW size \in Int
    PROVE  LET items == Paginate(list, page, size).items
           IN  \A k \in DOMAIN items : items[k] \in S
<1> DEFINE start == Wrap(Wrap(page - 1) * size)
           next == Wrap(start + size)
           end == IF next > Len(list) THEN Len(list) ELSE next
           items == Paginate(list, page, size).items
<1>1. /\ \A n \in Int : Wrap(n) \in Int
      /\ \A m, n \in Int : m * n \in Int
  BY ReportsAssumption DEF ReportsAssumption, Wrap
<1>2. start \in Int /\ next \in Int /\ Len(list) \in Nat
  BY <1>1
<1>3. items = IF start >= Len(list) \/ start < 0 \/ end < start THEN <<>>
              ELSE SubSeq(list, start + 1, end)
  BY DEF Paginate, Page, Panic
<1> SUFFICES \A k \in DOMAIN items : items[k] \in S
  OBVIOUS
<1> HIDE DEF start, next, items
<1>4. CASE start >= Len(list) \/ start < 0 \/ end < start
  BY <1>3, <1>4
<1>5. CASE ~(start >= Len(list) \/ start < 0 \/ end < start)
  <2>1. start \in Nat /\ end \in Nat /\ start <= end /\ end <= Len(list)
    BY <1>2, <1>5
  <2> HIDE DEF end
  <2>2. SubSeq(list, start + 1, end) \in Seq(S)
    BY <2>1, <1>2
  <2> QED BY <1>3, <1>5, <2>2
<1> QED BY <1>4, <1>5

\* The types of the log, the walk and the report.
LEMMA NoWalkIsWalk == NoWalk \in Walk /\ NoWalk.at = "idle"
BY ReportsAssumption DEF ReportsAssumption, NoWalk, Walk

LEMMA WalkFields ==
    ASSUME NEW w \in Walk
    PROVE  w.page \in Nat \ {0} /\ w.size \in Int /\ w.got \in SUBSET Entries
<1>1. w.size \in Sizes /\ w.page \in Nat \ {0} /\ w.got \in SUBSET Entries
  BY DEF Walk
<1> QED BY <1>1, ReportsAssumption DEF ReportsAssumption

LEMMA WalkMoves ==
    ASSUME NEW w \in Walk, NEW page \in Nat \ {0}, NEW got \in SUBSET Entries
    PROVE  /\ [w EXCEPT !.at = "done", !.got = got] \in Walk
           /\ [w EXCEPT !.page = page, !.got = got] \in Walk
BY DEF Walk

LEMMA TypesStep == TypeOK /\ Counted /\ [Next]_vars => TypeOK'
<1> SUFFICES ASSUME TypeOK, Counted, [Next]_vars PROVE TypeOK'
  OBVIOUS
<1> USE DEF TypeOK
<1>0. Counted'
  BY CountedStep
<1>1. traffic' \in [requests : Nat, average : Nat] /\ sum' \in Nat /\ unread' \in SUBSET Entries
  BY <1>0 DEF Counted
<1>2. ASSUME UNCHANGED logs, walk' \in Walk, present' \in SUBSET logged PROVE TypeOK'
  BY <1>1, <1>2 DEF logs
<1>3. CASE Tick
  BY <1>1, <1>3, ReportsAssumption DEF Tick, walks, stats, ReportsAssumption
<1>4. ASSUME NEW e \in Entries, Arrive(e) PROVE TypeOK'
  <2>1. /\ stamp' = [stamp EXCEPT ![e] = now] /\ now \in 1 .. MaxTime
        /\ UNCHANGED <<now, logged, latency, walk, present>>
    BY <1>4 DEF Arrive, walks
  <2>2. now \in 0 .. MaxTime /\ now # 0
    BY <2>1, ReportsAssumption DEF ReportsAssumption
  <2> QED BY <1>1, <2>1, <2>2
<1>5. ASSUME NEW e \in Entries, NEW ms \in Latencies, RecordRequest(e, ms) PROVE TypeOK'
  BY <1>1, <1>5 DEF RecordRequest, walks
<1>6. ASSUME NEW e \in Entries, CountEntry(e) PROVE TypeOK'
  BY <1>2, <1>6 DEF CountEntry, walks
<1>7. CASE StartStats
  BY <1>2, <1>7 DEF StartStats, walks
<1>8. ASSUME NEW size \in Sizes, StartWalk(size) PROVE TypeOK'
  BY <1>2, <1>8, NoWalkIsWalk DEF StartWalk, Walk, NoWalk
<1>9. CASE ListRequestLogs
  <2> DEFINE query == ParsePagination(walk.page, walk.size)
             items(list) == Paginate(list, query.page, query.size).items
  <2>1. PICK list \in Newest(logged, stamp) :
          LET got == walk.got \cup {items(list)[k] : k \in DOMAIN items(list)}
          IN  walk' = IF query.page * query.size >= Len(list)
                      THEN [walk EXCEPT !.at = "done", !.got = got]
                      ELSE [walk EXCEPT !.page = @ + 1, !.got = got]
    BY <1>9 DEF ListRequestLogs
  <2>2. list \in Seq(Entries)
    <3>1. Cardinality(logged) \in Nat
      BY ReportsAssumption, FS_Subset, FS_CardinalityType DEF ReportsAssumption
    <3>2. list \in [1 .. Cardinality(logged) -> logged]
      BY <2>1 DEF Newest, SetToSeqs
    <3> QED BY <3>1, <3>2, SMTT(30)
  <2>3. query.page \in Int /\ query.size \in Int
    <3>1. walk.page \in Int /\ walk.size \in Int
      BY WalkFields
    <3>2. \A p, z \in Int : ParsePagination(p, z).page \in Int /\ ParsePagination(p, z).size \in Int
      BY ReportsAssumption DEF ReportsAssumption, ParsePagination
    <3> QED BY <3>1, <3>2
  <2> HIDE DEF query
  <2>4. \A k \in DOMAIN items(list) : items(list)[k] \in Entries
    BY <2>2, <2>3, ItemsListed
  <2> DEFINE got == walk.got \cup {items(list)[k] : k \in DOMAIN items(list)}
             last == query.page * query.size >= Len(list)
  <2>5. got \in SUBSET Entries
    BY <2>4, WalkFields
  <2>6. walk' = IF last THEN [walk EXCEPT !.at = "done", !.got = got]
                ELSE [walk EXCEPT !.page = @ + 1, !.got = got]
    BY <2>1
  <2> HIDE DEF items, got, last
  <2>7. walk' \in Walk
    <3>1. walk.page + 1 \in Nat \ {0}
      BY WalkFields
    <3> QED BY <2>5, <2>6, <3>1, WalkMoves
  <2> QED BY <1>2, <1>9, <2>7 DEF ListRequestLogs
<1>10. CASE EndWalk
  BY <1>2, <1>10, NoWalkIsWalk DEF EndWalk
<1>11. CASE UNCHANGED vars
  BY <1>2, <1>11 DEF vars, walks
<1> QED BY <1>3, <1>4, <1>5, <1>6, <1>7, <1>8, <1>9, <1>10, <1>11 DEF Next

LEMMA TypesInit == Init => TypeOK
BY NoWalkIsWalk, ReportsAssumption DEF ReportsAssumption, Init, TypeOK, NoTraffic

\* The clock, the log, the walk and the report keep their types; only what has
\* arrived is logged, and a walk's entries are of the log (gateway_handler.go,
\* request_log_service.go).
THEOREM TypeCorrect == Spec => []TypeOK
BY TypesInit, TypesStep, CountedInit, CountedStep, PTL DEF Spec

-----------------------------------------------------------------------------
\* Why a walk misses nothing: an entry that it has yet to be shown has at least as
\* many newer ones as the walk has been shown places, and newer ones only come.
Alone(e) == \A f \in logged \ {e} : stamp[f] # stamp[e]
Newer(e) == {f \in logged : stamp[f] > stamp[e]}

AskedSize(size) == ParsePagination(1, size).size
Start == (walk.page - 1) * AskedSize(walk.size)

Ahead ==
    walk.at = "walking" =>
        /\ Start <= Cardinality(Entries)
        /\ \A e \in present : Alone(e) => e \in walk.got \/ Start <= Cardinality(Newer(e))

LEMMA AskedSizes ==
    ASSUME NEW size \in Int
    PROVE  /\ AskedSize(size) \in 1 .. MaxSize
           /\ \A page \in Nat \ {0} :
                ParsePagination(page, size) = [page |-> page, size |-> AskedSize(size)]
BY ReportsAssumption DEF ReportsAssumption, AskedSize, ParsePagination

LEMMA LogIsFinite ==
    ASSUME TypeOK
    PROVE  /\ IsFiniteSet(logged) /\ Cardinality(logged) \in Nat
           /\ Cardinality(Entries) \in Nat /\ Cardinality(logged) <= Cardinality(Entries)
BY ReportsAssumption, FS_Subset, FS_CardinalityType DEF ReportsAssumption, TypeOK

\* The sorted list is the whole log, and an entry whose timestamp is its own has
\* the newer ones before it, and only them.
LEMMA Placed ==
    ASSUME TypeOK, NEW list \in Newest(logged, stamp), NEW e \in logged, Alone(e)
    PROVE  /\ list \in Seq(logged) /\ Len(list) = Cardinality(logged)
           /\ \E k \in 1 .. Len(list) : list[k] = e /\ Cardinality(Newer(e)) = k - 1
<1> DEFINE n == Cardinality(logged)
<1>1. IsFiniteSet(logged) /\ n \in Nat
  BY LogIsFinite
<1>2. /\ list \in [1 .. n -> logged]
      /\ \A i, j \in 1 .. n : i # j => list[i] # list[j]
      /\ \A i, j \in 1 .. n : i < j => stamp[list[i]] >= stamp[list[j]]
  BY DEF Newest, SetToSeqs
<1>3. list \in Seq(logged) /\ Len(list) = n
  BY <1>1, <1>2
<1>4. list \in Surjection(1 .. n, logged)
  <2>1. IsFiniteSet(1 .. n) /\ Cardinality(1 .. n) = n
    BY <1>1, FS_Interval
  <2>2. list \in Injection(1 .. n, logged)
    BY <1>2 DEF Injection, IsInjective
  <2> QED BY <1>1, <2>1, <2>2, FS_Injection
<1>5. PICK k \in 1 .. n : list[k] = e
  BY <1>4 DEF Surjection
<1>6. \A i \in 1 .. n : i < k <=> stamp[list[i]] > stamp[e]
  <2> TAKE i \in 1 .. n
  <2>1. stamp[list[i]] \in Nat /\ stamp[e] \in Nat
    BY <1>2 DEF TypeOK
  <2>2. i # k => stamp[list[i]] # stamp[e]
    BY <1>2, <1>5 DEF Alone
  <2>3. i < k \/ i = k \/ k < i
    BY <1>1, <1>5
  <2> QED BY <1>1, <1>2, <1>5, <2>1, <2>2, <2>3
<1>7. ExistsBijection(1 .. (k - 1), Newer(e))
  <2> DEFINE g == [i \in 1 .. (k - 1) |-> list[i]]
  <2>1. \A i \in 1 .. (k - 1) : i \in 1 .. n /\ i < k
    BY <1>1, <1>5
  <2>2. g \in [1 .. (k - 1) -> Newer(e)]
    BY <1>2, <1>6, <2>1 DEF Newer
  <2>3. \A i, j \in 1 .. (k - 1) : i # j => g[i] # g[j]
    BY <1>2, <2>1
  <2>4. \A f \in Newer(e) : \E i \in 1 .. (k - 1) : g[i] = f
    <3> TAKE f \in Newer(e)
    <3>1. PICK i \in 1 .. n : list[i] = f
      BY <1>4 DEF Surjection, Newer
    <3>2. i < k
      BY <1>6, <3>1 DEF Newer
    <3> QED BY <1>1, <1>5, <3>1, <3>2
  <2> QED BY <2>2, <2>3, <2>4 DEF ExistsBijection, Bijection, Injection, Surjection, IsInjective
<1>8. IsFiniteSet(1 .. (k - 1)) /\ Cardinality(1 .. (k - 1)) = k - 1
  <2>1. k - 1 \in Nat
    BY <1>1, <1>5
  <2> HIDE DEF n
  <2>2. Cardinality(1 .. (k - 1)) = IF 1 > k - 1 THEN 0 ELSE (k - 1) - 1 + 1
    BY <2>1, FS_Interval
  <2>3. IsFiniteSet(1 .. (k - 1))
    BY <2>1, FS_Interval
  <2> QED BY <2>1, <2>2, <2>3
<1>9. Cardinality(Newer(e)) = k - 1
  BY <1>7, <1>8, FS_Bijection
<1> QED BY <1>3, <1>5, <1>9

\* A page shows what has its place in the list on it.
LEMMA PageShows ==
    ASSUME NEW S, NEW list \in Seq(S), Len(list) + MaxSize <= MaxInt,
           NEW page \in 1 .. MaxInt, NEW size \in 1 .. MaxSize, (page - 1) * size <= MaxInt,
           NEW k \in 1 .. Len(list),
           (page - 1) * size <= k - 1, k - 1 < (page - 1) * size + size
    PROVE  LET items == Paginate(list, page, size).items
           IN  \E i \in DOMAIN items : items[i] = list[k]
<1> DEFINE start == (page - 1) * size
           end == CutEnd(list, start, size)
           items == Paginate(list, page, size).items
<1>1. /\ MaxSize \in Nat /\ MaxInt \in Nat /\ size \in Nat \ {0} /\ page - 1 \in Nat
      /\ Len(list) \in Nat
  BY ReportsAssumption DEF ReportsAssumption
<1>2. start \in Nat /\ start <= k - 1 /\ k - 1 < start + size
  BY <1>1, Product
<1>3. items = IF start >= Len(list) THEN <<>> ELSE Cut(list, start, size)
  BY PageCut DEF Page
<1> SUFFICES \E i \in DOMAIN items : items[i] = list[k]
  OBVIOUS
<1> HIDE DEF start, items
<1>4. start < Len(list)
  BY <1>1, <1>2
<1>5. /\ DOMAIN items = 1 .. (end - start)
      /\ \A i \in 1 .. (end - start) : items[i] = list[start + i]
  <2>1. items = Cut(list, start, size)
    BY <1>1, <1>2, <1>3, <1>4
  <2>2. start \in Nat /\ size \in Nat \ {0}
    BY <1>1, <1>2
  <2>3. /\ DOMAIN Cut(list, start, size) = 1 .. (end - start)
        /\ \A i \in 1 .. (end - start) : Cut(list, start, size)[i] = list[start + i]
    BY <1>4, <2>2, CutOut
  <2> QED BY <2>1, <2>3
<1>6. k - start \in 1 .. (end - start) /\ start + (k - start) = k
  BY <1>1, <1>2, <1>4 DEF CutEnd
<1> QED BY <1>5, <1>6

\* What is logged meanwhile only puts entries off.
LEMMA PutOff ==
    ASSUME TypeOK, TypeOK', UNCHANGED <<walk, present>>, logged \subseteq logged',
           \A e \in logged : stamp'[e] = stamp[e],
           Ahead, WalkComplete
    PROVE  Ahead' /\ WalkComplete'
<1>1. \A e \in present : Alone(e)' => Alone(e)
  BY DEF TypeOK, Alone
<1>2. WalkComplete'
  BY <1>1 DEF WalkComplete, Alone
<1>3. ASSUME NEW e \in present
      PROVE  /\ Cardinality(Newer(e)) \in Nat /\ Cardinality(Newer(e)') \in Nat
             /\ Cardinality(Newer(e)) <= Cardinality(Newer(e)')
  <2>1. Newer(e) \subseteq Newer(e)' /\ Newer(e)' \subseteq logged'
    BY DEF TypeOK, Newer
  <2>2. IsFiniteSet(logged')
    BY ReportsAssumption, FS_Subset DEF ReportsAssumption, TypeOK
  <2>3. IsFiniteSet(Newer(e)')
    BY <2>1, <2>2, FS_Subset
  <2> QED BY <2>1, <2>3, FS_Subset, FS_CardinalityType
<1>4. Start' = Start
  BY DEF Start
<1>5. Start \in Int
  <2>1. walk.page - 1 \in Int /\ AskedSize(walk.size) \in Int
    BY WalkFields, AskedSizes DEF TypeOK
  <2>2. \A m, n \in Int : m * n \in Int
    BY SMT
  <2> QED BY <2>1, <2>2 DEF Start
<1>6. ASSUME walk.at = "walking", NEW e \in present, Alone(e)', e \notin walk.got
      PROVE  Start <= Cardinality(Newer(e)')
  <2>1. Start <= Cardinality(Newer(e))
    BY <1>1, <1>6 DEF Ahead
  <2> HIDE DEF Start
  <2> QED BY <1>3, <1>5, <2>1
<1> QED BY <1>2, <1>4, <1>6 DEF Ahead

\* The next page: what it does not show has a place on a later one.
LEMMA NextPage ==
    ASSUME TypeOK, TypeOK', Ahead, ListRequestLogs
    PROVE  Ahead' /\ WalkComplete'
<1> DEFINE query == ParsePagination(walk.page, walk.size)
           page == query.page
           size == query.size
           items(list) == Paginate(list, page, size).items
           got(list) == walk.got \cup {items(list)[k] : k \in DOMAIN items(list)}
<1>1. walk \in Walk /\ walk.page \in Nat \ {0} /\ walk.size \in Int /\ walk.at = "walking"
  BY WalkFields DEF TypeOK, ListRequestLogs
<1>2. size \in 1 .. MaxSize /\ size = AskedSize(walk.size) /\ page = walk.page
  <2>1. query = [page |-> walk.page, size |-> AskedSize(walk.size)]
    BY <1>1, AskedSizes
  <2>2. AskedSize(walk.size) \in 1 .. MaxSize
    BY <1>1, AskedSizes
  <2> HIDE DEF query
  <2> QED BY <2>1, <2>2
<1>3. PICK list \in Newest(logged, stamp) :
        walk' = IF page * size >= Len(list)
                THEN [walk EXCEPT !.at = "done", !.got = got(list)]
                ELSE [walk EXCEPT !.page = @ + 1, !.got = got(list)]
  BY DEF ListRequestLogs
<1> HIDE DEF query, page, size
<1>4. UNCHANGED <<present, logged, stamp>>
  BY DEF ListRequestLogs, logs
<1>5. \A e \in logged : Alone(e)' = Alone(e) /\ Newer(e)' = Newer(e)
  BY <1>4 DEF Alone, Newer
<1> DEFINE n == Cardinality(logged)
           start == (page - 1) * size
<1>6. /\ n \in Nat /\ n <= Cardinality(Entries) /\ Cardinality(Entries) \in Nat
      /\ MaxInt \in Nat /\ MaxSize \in Nat \ {0} /\ Cardinality(Entries) + MaxSize <= MaxInt
      /\ size \in Nat \ {0} /\ page \in Nat \ {0} /\ page - 1 \in Nat
  BY <1>1, <1>2, LogIsFinite, ReportsAssumption DEF ReportsAssumption
<1>7. start \in Nat /\ start <= Cardinality(Entries) /\ page * size = start + size
  BY <1>1, <1>2, <1>6, Product DEF Ahead, Start
<1>8. page \in 1 .. MaxInt
  <2>1. page - 1 <= start
    BY <1>6, SMT
  <2> HIDE DEF start
  <2> QED BY <1>1, <1>6, <1>7, <2>1
<1>9. ASSUME NEW e \in present, Alone(e), e \notin got(list)
      PROVE  start + size <= Cardinality(Newer(e)) /\ start + size < n
  <2>1. e \in logged /\ e \notin walk.got
    BY <1>9 DEF TypeOK
  <2>2. PICK k \in 1 .. Len(list) : list[k] = e /\ Cardinality(Newer(e)) = k - 1
    BY <1>9, <2>1, Placed
  <2>3. list \in Seq(logged) /\ Len(list) = n
    BY <1>9, <2>1, Placed
  <2>4. start <= k - 1
    BY <1>1, <1>2, <1>9, <2>1, <2>2 DEF Ahead, Start
  <2>5. ~(k - 1 < start + size)
    <3> SUFFICES ASSUME k - 1 < start + size PROVE FALSE
      OBVIOUS
    <3>1. n + MaxSize <= MaxInt /\ start <= MaxInt
      <4> HIDE DEF n, start
      <4> QED BY <1>6, <1>7
    <3>2. \E i \in DOMAIN items(list) : items(list)[i] = list[k]
      BY <1>2, <1>8, <2>3, <2>4, <3>1, PageShows, ZenonT(40)
    <3> QED BY <1>9, <2>2, <3>2
  <2> HIDE DEF n, start
  <2> QED BY <1>6, <1>7, <2>2, <2>3, <2>5
<1>10. Len(list) = n
  <2>1. list \in [1 .. n -> logged]
    BY DEF Newest, SetToSeqs
  <2> QED BY <1>6, <2>1
<1> HIDE DEF n, start, got
<1>11. CASE page * size >= n
  <2>1. walk'.at = "done" /\ walk'.got = got(list)
    BY <1>1, <1>3, <1>10, <1>11 DEF Walk
  <2>2. \A e \in present : Alone(e) => e \in got(list)
    BY <1>6, <1>7, <1>9, <1>11
  <2>3. Ahead'
    BY <2>1 DEF Ahead
  <2>4. WalkComplete'
    BY <1>4, <2>1, <2>2 DEF WalkComplete, Alone
  <2> QED BY <2>3, <2>4
<1>12. CASE ~(page * size >= n)
  <2>1. /\ walk'.at = "walking" /\ walk'.got = got(list)
        /\ walk'.page = walk.page + 1 /\ walk'.size = walk.size
    BY <1>1, <1>3, <1>10, <1>12 DEF Walk
  <2>2. Start' = start + size
    BY <1>1, <1>2, <1>7, <2>1 DEF Start
  <2>3. start + size <= Cardinality(Entries)
    BY <1>6, <1>7, <1>12
  <2>4. present \subseteq logged
    BY DEF TypeOK
  <2>5. Ahead'
    BY <1>4, <1>5, <1>9, <2>1, <2>2, <2>3, <2>4 DEF Ahead
  <2>6. WalkComplete'
    BY <2>1 DEF WalkComplete
  <2> QED BY <2>5, <2>6
<1> QED BY <1>11, <1>12

LEMMA AheadStep == TypeOK /\ Ahead /\ WalkComplete /\ TypeOK' /\ [Next]_vars => Ahead' /\ WalkComplete'
<1> SUFFICES ASSUME TypeOK, Ahead, WalkComplete, TypeOK', [Next]_vars
             PROVE  Ahead' /\ WalkComplete'
  OBVIOUS
<1>1. ASSUME UNCHANGED <<walks, stamp, logged>> PROVE Ahead' /\ WalkComplete'
  BY <1>1, PutOff DEF walks
<1>2. CASE Tick
  BY <1>1, <1>2 DEF Tick
<1>3. ASSUME NEW e \in Entries, Arrive(e) PROVE Ahead' /\ WalkComplete'
  <2>1. \A f \in logged : stamp'[f] = stamp[f]
    BY <1>3 DEF Arrive, TypeOK
  <2> QED BY <1>3, <2>1, PutOff DEF Arrive, walks
<1>4. ASSUME NEW e \in Entries, NEW ms \in Latencies, RecordRequest(e, ms)
      PROVE  Ahead' /\ WalkComplete'
  BY <1>4, PutOff DEF RecordRequest, walks
<1>5. ASSUME NEW e \in Entries, CountEntry(e) PROVE Ahead' /\ WalkComplete'
  BY <1>1, <1>5 DEF CountEntry, logs
<1>6. CASE StartStats
  BY <1>1, <1>6 DEF StartStats, logs
<1>7. ASSUME NEW size \in Sizes, StartWalk(size) PROVE Ahead' /\ WalkComplete'
  <2>1. walk'.at = "walking" /\ walk'.page = 1 /\ walk'.size = size
    BY <1>7 DEF StartWalk, NoWalk
  <2>2. AskedSize(size) \in Int
    BY AskedSizes, ReportsAssumption DEF ReportsAssumption
  <2>3. Start' = 0
    BY <2>1, <2>2 DEF Start
  <2>4. Cardinality(Entries) \in Nat
    BY LogIsFinite
  <2>5. \A e \in present' : Cardinality(Newer(e)') \in Nat
    <3>1. IsFiniteSet(logged')
      BY ReportsAssumption, FS_Subset DEF ReportsAssumption, TypeOK
    <3> QED BY <3>1, FS_Subset, FS_CardinalityType DEF Newer
  <2> QED BY <2>1, <2>3, <2>4, <2>5 DEF Ahead, WalkComplete
<1>8. CASE ListRequestLogs
  BY <1>8, NextPage
<1>9. CASE EndWalk
  BY <1>9 DEF EndWalk, NoWalk, Ahead, WalkComplete
<1>10. CASE UNCHANGED vars
  BY <1>1, <1>10 DEF vars, logs
<1> QED BY <1>2, <1>3, <1>4, <1>5, <1>6, <1>7, <1>8, <1>9, <1>10 DEF Next

\* The pages of the log (request_log_service.go, paginate in service.go:38) are
\* cut out of a list that is sorted anew for each of them, while requests are
\* logged, in the middle of it too: a walk of them still misses no entry that
\* was there when it began, unless its timestamp is another's too.
THEOREM WalksAreComplete == Spec => []WalkComplete
<1>1. Init => Ahead /\ WalkComplete
  BY NoWalkIsWalk DEF Init, Ahead, WalkComplete
<1> QED BY <1>1, AheadStep, TypesInit, TypesStep, CountedInit, CountedStep, PTL DEF Spec

-----------------------------------------------------------------------------
\* What a route refers to was there when it was found, and is, or is deleted.
ServiceFound(t) == route[t].service \in services \cup gone
RuleFound(t) == route[t].rule \in rules \cup gone

Typed ==
    /\ services \in SUBSET Services /\ DOMAIN name = Services /\ rules \in SUBSET Rules
    /\ route \in [Routes -> [service : Services, rule : Rules]]
    /\ creating \in [Routes -> {"none", "serviceFound", "ruleFound", "stored", "over"}]
    /\ taken \in 0 .. 3
    /\ lists \in [services : SUBSET Services, routes : SUBSET Routes, rules : SUBSET Rules]

\* What a route passes on its way into the store, and then into a list.
Referring ==
    /\ \A t \in Routes \ rewritten :
          /\ creating[t] \in {"serviceFound", "ruleFound", "stored"} => ServiceFound(t)
          /\ creating[t] \in {"ruleFound", "stored"} => RuleFound(t)
    /\ \A t \in lists.routes : creating[t] \in {"stored", "over"}
    /\ \A t \in lists.routes \ rewritten : ServiceFound(t) /\ RuleFound(t)

\* What the lists that have been taken still tell of the store.
Listing ==
    /\ taken >= 1 => services \subseteq lists.services \cup since \cup gone
    /\ taken = 3 => \A t \in lists.routes \ rewritten : route[t].rule \in lists.rules \cup gone

Inv == Typed /\ Referring /\ Listing

LEMMA InvStep == Inv /\ [ExportNext]_exportVars => Inv'
<1> SUFFICES ASSUME Inv, [ExportNext]_exportVars PROVE Inv'
  OBVIOUS
<1>0. Typed /\ Referring /\ Listing
  BY DEF Inv
<1> USE DEF Referring, Listing, ServiceFound, RuleFound
<1>1. ASSUME NEW s \in Services, NEW n, StoreService(s, n), UNCHANGED exports PROVE Inv'
  <2>1. /\ services' = services \cup {s} /\ (taken # 0 => since' = since \cup {s})
        /\ DOMAIN name' = DOMAIN name
        /\ UNCHANGED <<rules, route, creating, gone, rewritten, taken, lists>>
    BY <1>1 DEF StoreService, exports
  <2>2. Typed' /\ Referring'
    BY <1>0, <2>1 DEF Typed
  <2>3. Listing'
    <3>1. taken \in 0 .. 3 /\ Listing
      BY <1>0 DEF Typed
    <3> QED BY <2>1, <3>1
  <2> QED BY <2>2, <2>3 DEF Inv
<1>2. ASSUME NEW s \in Services, NEW n \in Names, CreateService(s, n) PROVE Inv'
  BY <1>0, <1>1, <1>2 DEF Inv, Typed, CreateService
<1>3. ASSUME NEW s \in Services, NEW n \in Names, UpdateService(s, n) PROVE Inv'
  BY <1>0, <1>3 DEF Inv, Typed, UpdateService, exports
<1>4. ASSUME NEW s \in Services, DeleteService(s) PROVE Inv'
  BY <1>0, <1>4 DEF Inv, Typed, DeleteService, exports
<1>5. ASSUME NEW r \in Rules, CreateRule(r) PROVE Inv'
  BY <1>0, <1>5 DEF Inv, Typed, CreateRule, exports
<1>6. ASSUME NEW r \in Rules, DeleteRule(r) PROVE Inv'
  BY <1>0, <1>6 DEF Inv, Typed, DeleteRule, exports
<1>7. ASSUME NEW t \in Routes, NEW s \in Services, NEW r \in Rules, FindService(t, s, r) PROVE Inv'
  BY <1>0, <1>7 DEF Inv, Typed, FindService, exports
<1>8. ASSUME NEW t \in Routes, FindRule(t) PROVE Inv'
  BY <1>0, <1>8 DEF Inv, Typed, FindRule, exports
<1>9. ASSUME NEW t \in Routes, StoreRoute(t) PROVE Inv'
  BY <1>0, <1>9 DEF Inv, Typed, StoreRoute, exports
<1>10. ASSUME NEW t \in Routes, DeleteRoute(t) PROVE Inv'
  BY <1>0, <1>10 DEF Inv, Typed, DeleteRoute, exports
<1>11. ASSUME NEW t \in Routes, NEW s \in Services, NEW r \in Rules, UpdateRoute(t, s, r) PROVE Inv'
  BY <1>0, <1>11 DEF Inv, Typed, UpdateRoute, exports
<1>12. CASE TakeList
  <2> DEFINE kind == Order[taken + 1]
  <2>1. /\ taken < 3 /\ taken' = taken + 1
        /\ lists' = [lists EXCEPT ![kind] = Stored[kind]]
        /\ since' = IF taken = 0 THEN {} ELSE since
        /\ UNCHANGED <<services, name, rules, route, creating, gone, rewritten>>
    BY <1>12 DEF TakeList, configs
  <2> HIDE DEF kind
  <2>2. CASE taken = 0
    <3>1. kind = "services" /\ Stored.services = services
      BY <2>2 DEF kind, Order, Stored
    <3>2. lists' = [lists EXCEPT !["services"] = services]
      BY <2>1, <3>1
    <3>3. /\ lists'.services = services /\ lists'.routes = lists.routes
          /\ lists'.rules = lists.rules
      BY <1>0, <3>2 DEF Typed
    <3>4. Typed'
      BY <1>0, <2>1, <2>2, <3>2 DEF Typed
    <3>5. Referring'
      BY <1>0, <2>1, <3>3
    <3>6. Listing'
      BY <2>1, <2>2, <3>3
    <3> QED BY <3>4, <3>5, <3>6 DEF Inv
  <2>3. CASE taken = 1
    <3>1. kind = "routes" /\ Stored.routes = {t \in Routes : creating[t] = "stored"}
      BY <2>3 DEF kind, Order, Stored
    <3>2. lists' = [lists EXCEPT !["routes"] = Stored.routes]
      BY <2>1, <3>1
    <3>3. /\ lists'.services = lists.services
          /\ lists'.routes = {t \in Routes : creating[t] = "stored"}
      BY <1>0, <3>1, <3>2 DEF Typed
    <3>4. Typed'
      BY <1>0, <2>1, <2>3, <3>1, <3>2 DEF Typed
    <3>5. Referring'
      BY <1>0, <2>1, <3>3
    <3>6. Listing'
      BY <1>0, <2>1, <2>3, <3>3
    <3> QED BY <3>4, <3>5, <3>6 DEF Inv
  <2>4. CASE taken = 2
    <3>1. kind = "rules" /\ Stored.rules = rules
      BY <2>4 DEF kind, Order, Stored
    <3>2. lists' = [lists EXCEPT !["rules"] = rules]
      BY <2>1, <3>1
    <3>3. /\ lists'.services = lists.services /\ lists'.routes = lists.routes
          /\ lists'.rules = rules
      BY <1>0, <3>2 DEF Typed
    <3>4. Typed'
      BY <1>0, <2>1, <2>4, <3>2 DEF Typed
    <3>5. Referring'
      BY <1>0, <2>1, <3>3
    <3>6. Listing'
      BY <1>0, <2>1, <2>4, <3>3
    <3> QED BY <3>4, <3>5, <3>6 DEF Inv
  <2>5. taken = 0 \/ taken = 1 \/ taken = 2
    BY <1>0, <2>1 DEF Typed
  <2> QED BY <2>2, <2>3, <2>4, <2>5
<1>13. CASE EndExport
  <2>1. /\ taken' = 0 /\ lists' = NoLists
        /\ UNCHANGED <<services, name, rules, route, creating, gone, rewritten>>
    BY <1>13 DEF EndExport, configs
  <2>2. Typed'
    BY <1>0, <2>1 DEF Typed, NoLists
  <2>3. Referring' /\ Listing'
    BY <1>0, <2>1 DEF NoLists
  <2> QED BY <2>2, <2>3 DEF Inv
<1>14. ASSUME NEW p \in Importers, NEW s \in Services, ImportCreates(p, s) PROVE Inv'
  BY <1>0, <1>1, <1>14 DEF Inv, Typed, ImportCreates
<1>15. ASSUME UNCHANGED <<configs, exports, since>> PROVE Inv'
  BY <1>0, <1>15 DEF Inv, Typed, configs, exports
<1>16. ASSUME NEW p \in Importers, NEW list \in Lists, StartImport(p, list) PROVE Inv'
  BY <1>0, <1>15, <1>16 DEF Inv, Typed, StartImport
<1>17. ASSUME NEW p \in Importers, ImportFails(p) \/ EndImport(p) PROVE Inv'
  BY <1>0, <1>15, <1>17 DEF Inv, Typed, ImportFails, EndImport
<1>18. CASE UNCHANGED exportVars
  BY <1>0, <1>15, <1>18 DEF Inv, Typed, exportVars
<1> QED
  BY <1>2, <1>3, <1>4, <1>5, <1>6, <1>7, <1>8, <1>9, <1>10, <1>11, <1>12, <1>13,
     <1>14, <1>16, <1>17, <1>18
  DEF ExportNext, ServiceStep, RouteStep, ImportStep

LEMMA InitInv == ExportInit => Inv
<1> SUFFICES ASSUME ExportInit PROVE Inv
  OBVIOUS
<1>1. Typed
  BY ExportAssumption DEF ExportInit, Typed, NoLists, ExportAssumption
<1>2. Referring /\ Listing
  BY DEF ExportInit, Referring, Listing, NoLists
<1> QED BY <1>1, <1>2 DEF Inv

\* An export takes its lists one after another (export_service.go:22) while what
\* is in them comes and goes: what an exported route refers to is exported, or
\* is new, or deleted, unless an update has written the route.
THEOREM ExportIsClosed == ExportSpec => []ExportClosed
<1>1. Inv => ExportClosed
  BY DEF Inv, Typed, Referring, Listing, ServiceFound, ExportClosed
<1> QED BY <1>1, InitInv, InvStep, PTL DEF ExportSpec

-----------------------------------------------------------------------------
Elements(list) == {list[k] : k \in DOMAIN list}

LEMMA HeadAndTail ==
    ASSUME NEW S, NEW list \in Seq(S), list # <<>>
    PROVE  /\ Tail(list) \in Seq(S) /\ Head(list) \in S
           /\ Elements(list) = {Head(list)} \cup Elements(Tail(list))
<1>1. /\ Len(list) \in Nat \ {0} /\ Len(Tail(list)) = Len(list) - 1
      /\ Tail(list) \in Seq(S) /\ Head(list) \in S /\ Head(list) = list[1]
      /\ DOMAIN list = 1 .. Len(list) /\ DOMAIN Tail(list) = 1 .. Len(Tail(list))
  OBVIOUS
<1>2. \A k \in DOMAIN Tail(list) : Tail(list)[k] = list[k + 1] /\ k + 1 \in DOMAIN list
  BY <1>1
<1>3. \A k \in DOMAIN list : k = 1 \/ (k - 1 \in DOMAIN Tail(list) /\ (k - 1) + 1 = k)
  BY <1>1
<1>4. Elements(list) \subseteq {Head(list)} \cup Elements(Tail(list))
  BY <1>1, <1>2, <1>3 DEF Elements
<1>5. {Head(list)} \cup Elements(Tail(list)) \subseteq Elements(list)
  BY <1>1, <1>2 DEF Elements
<1> QED BY <1>1, <1>4, <1>5

\* A name that an import was sent is illegal, has been met, or is yet to come.
Settling ==
    /\ import \in [Importers -> Import] /\ DOMAIN met = Importers
    /\ \A p \in Importers : import[p].running =>
          Elements(import[p].list) \subseteq BadNames \cup met[p] \cup Elements(import[p].rest)

LEMMA SettlingStep == Typed /\ Settling /\ [ExportNext]_exportVars => Settling'
<1> SUFFICES ASSUME Typed, Settling, [ExportNext]_exportVars PROVE Settling'
  OBVIOUS
<1> DEFINE stored == {name[s] : s \in services}
<1>1. CASE UNCHANGED exportVars
  BY <1>1 DEF Settling, exportVars
<1>2. ASSUME ExportNext PROVE Settling'
  <2>1. \A p \in Importers : met'[p] = IF import'[p].running THEN met[p] \cup stored' ELSE {}
    BY <1>2 DEF ExportNext, Meet
  <2>2. DOMAIN met' = Importers
    BY <1>2 DEF ExportNext, Meet
  <2>3. ASSUME UNCHANGED import PROVE Settling'
    BY <2>1, <2>2, <2>3 DEF Settling
  <2> HIDE DEF stored
  \* An import that goes on by one name, which is illegal or met.
  <2>4. ASSUME NEW p \in Importers, Unfinished(p),
               import' = [import EXCEPT ![p].rest = Tail(@)],
               Head(import[p].rest) \in BadNames \cup stored'
        PROVE  Settling'
    <3>1. import[p].rest \in Seq(Names) /\ import[p].rest # <<>> /\ import[p].running
      BY <2>4 DEF Settling, Import, Unfinished
    <3>2. /\ Tail(import[p].rest) \in Seq(Names)
          /\ Elements(import[p].rest)
               = {Head(import[p].rest)} \cup Elements(Tail(import[p].rest))
      BY <3>1, HeadAndTail
    <3>3. import' \in [Importers -> Import]
      BY <2>4, <3>2 DEF Settling, Import
    <3>4. /\ import'[p].list = import[p].list /\ import'[p].running
          /\ import'[p].rest = Tail(import[p].rest)
          /\ \A q \in Importers \ {p} : import'[q] = import[q]
      BY <2>4, <3>1 DEF Settling, Import
    <3>5. ASSUME NEW q \in Importers, import'[q].running
          PROVE  Elements(import'[q].list) \subseteq BadNames \cup met'[q] \cup Elements(import'[q].rest)
      <4>1. met'[q] = met[q] \cup stored'
        BY <2>1, <3>5
      <4>2. CASE q = p
        BY <2>4, <3>1, <3>2, <3>4, <4>1, <4>2 DEF Settling
      <4>3. CASE q # p
        BY <3>4, <3>5, <4>1, <4>3 DEF Settling
      <4> QED BY <4>2, <4>3
    <3> QED BY <2>2, <3>3, <3>5 DEF Settling
  <2>5. ASSUME NEW p \in Importers, NEW s \in Services, ImportCreates(p, s) PROVE Settling'
    <3>1. Head(import[p].rest) \in stored'
      <4>1. /\ Unfinished(p) /\ services' = services \cup {s}
            /\ name' = [name EXCEPT ![s] = Head(import[p].rest)]
        BY <2>5 DEF ImportCreates, StoreService
      <4>2. s \in DOMAIN name
        BY DEF Typed
      <4> QED BY <4>1, <4>2 DEF stored
    <3> QED BY <2>4, <2>5, <3>1 DEF ImportCreates
  <2>6. ASSUME NEW p \in Importers, ImportFails(p) PROVE Settling'
    <3>1. Head(import[p].rest) \in BadNames \cup stored'
      BY <2>6 DEF ImportFails, Creatable, configs, stored
    <3> QED BY <2>4, <2>6, <3>1 DEF ImportFails
  <2>7. ASSUME NEW p \in Importers, NEW list \in Lists, StartImport(p, list) PROVE Settling'
    <3>1. list \in Seq(Names)
      BY ExportAssumption DEF ExportAssumption
    <3>2. /\ import' \in [Importers -> Import]
          /\ import'[p].list = list /\ import'[p].rest = list
          /\ \A q \in Importers \ {p} : import'[q] = import[q]
      BY <2>7, <3>1 DEF StartImport, Settling, Import
    <3> QED BY <2>1, <2>2, <3>2 DEF Settling
  <2>8. ASSUME NEW p \in Importers, EndImport(p) PROVE Settling'
    <3>1. /\ import' \in [Importers -> Import] /\ ~import'[p].running
          /\ \A q \in Importers \ {p} : import'[q] = import[q]
      BY <2>8 DEF EndImport, NoImport, Settling, Import
    <3> QED BY <2>1, <2>2, <3>1 DEF Settling
  <2>9. \/ UNCHANGED import
        \/ \E p \in Importers : ImportFails(p) \/ EndImport(p)
        \/ \E p \in Importers, s \in Services : ImportCreates(p, s)
        \/ \E p \in Importers, list \in Lists : StartImport(p, list)
    BY <1>2
    DEF ExportNext, ServiceStep, RouteStep, ImportStep, CreateService, UpdateService, DeleteService,
        CreateRule, DeleteRule, FindService, FindRule, StoreRoute, DeleteRoute, UpdateRoute,
        TakeList, EndExport
  <2> QED BY <2>3, <2>5, <2>6, <2>7, <2>8, <2>9
<1> QED BY <1>1, <1>2

\* ImportServices goes on after an error (export_service.go:36), while services
\* are created, renamed and deleted by others: no legal name is passed over.
THEOREM ImportsSettle == ExportSpec => []ImportSettled
<1>1. ExportInit => Inv /\ Settling
  BY InitInv DEF ExportInit, Settling, Import, NoImport
<1>2. Settling => ImportSettled
  BY DEF Settling, ImportSettled, Elements
<1>3. Inv => Typed
  BY DEF Inv
<1> QED BY <1>1, <1>2, <1>3, InvStep, SettlingStep, PTL DEF ExportSpec

-----------------------------------------------------------------------------
\* The rest of what ExportTypeOK says: ids come from creations, names are names.
Naming ==
    /\ name \in [Services -> Names]
    /\ services \subseteq born /\ rules \subseteq born /\ gone \subseteq born
    /\ born \subseteq Services \cup Rules
    /\ since \subseteq Services /\ rewritten \subseteq Routes
    /\ met \in [Importers -> SUBSET Names]

LEMMA NamingInit == ExportInit => Naming
<1>1. (CHOOSE n \in Names : TRUE) \in Names
  BY ExportAssumption DEF ExportAssumption
<1> QED BY <1>1 DEF ExportInit, Naming

\* What Meet notes is names.
LEMMA MeetKeepsType ==
    ASSUME Naming, Meet, name' \in [Services -> Names], services' \subseteq Services
    PROVE  met' \in [Importers -> SUBSET Names]
<1>1. {name'[s] : s \in services'} \subseteq Names
  OBVIOUS
<1>2. \A p \in Importers :
        (IF import'[p].running THEN met[p] \cup {name'[s] : s \in services'} ELSE {})
          \in SUBSET Names
  BY <1>1 DEF Naming
<1> QED BY <1>2 DEF Meet

LEMMA NamingStep == Naming /\ Typed /\ Typed' /\ Settling /\ [ExportNext]_exportVars => Naming'
<1> SUFFICES ASSUME Naming, Typed, Typed', Settling, [ExportNext]_exportVars PROVE Naming'
  OBVIOUS
<1>1. CASE UNCHANGED exportVars
  BY <1>1 DEF Naming, exportVars, configs
<1>2. ASSUME ExportNext PROVE Naming'
  <2> DEFINE Ids == /\ services' \subseteq born' /\ rules' \subseteq born' /\ gone' \subseteq born'
                    /\ born' \subseteq Services \cup Rules
                    /\ since' \subseteq Services /\ rewritten' \subseteq Routes
  <2>1. ASSUME name' \in [Services -> Names], Ids PROVE Naming'
    <3>1. services' \subseteq Services
      BY DEF Typed
    <3>2. Meet
      BY <1>2 DEF ExportNext
    <3> QED BY <2>1, <3>1, <3>2, MeetKeepsType DEF Naming
  <2>2. ASSUME NEW s \in Services, NEW n \in Names, StoreService(s, n) PROVE Naming'
    BY <2>1, <2>2 DEF Naming, StoreService
  <2>3. ASSUME NEW s \in Services, DeleteService(s) PROVE Naming'
    BY <2>1, <2>3 DEF Naming, DeleteService
  <2>4. ASSUME NEW s \in Services, NEW n \in Names, CreateService(s, n) \/ UpdateService(s, n)
        PROVE  Naming'
    BY <2>1, <2>2, <2>4 DEF Naming, CreateService, UpdateService
  <2>5. ASSUME NEW r \in Rules, CreateRule(r) \/ DeleteRule(r) PROVE Naming'
    BY <2>1, <2>5 DEF Naming, CreateRule, DeleteRule
  <2>6. ASSUME RouteStep PROVE Naming'
    BY <2>1, <2>6
    DEF Naming, RouteStep, FindService, FindRule, StoreRoute, DeleteRoute, UpdateRoute
  <2>7. ASSUME TakeList \/ EndExport PROVE Naming'
    BY <2>1, <2>7 DEF Naming, TakeList, EndExport, configs
  <2>8. ASSUME ImportStep PROVE Naming'
    <3>1. ASSUME NEW p \in Importers, NEW s \in Services, ImportCreates(p, s) PROVE Naming'
      <4>1. import[p].rest \in Seq(Names) /\ import[p].rest # <<>>
        BY <3>1 DEF ImportCreates, Unfinished, Settling, Import
      <4>2. Head(import[p].rest) \in Names
        BY <4>1
      <4> QED BY <2>2, <3>1, <4>2 DEF ImportCreates
    <3>2. ASSUME UNCHANGED <<configs, since>> PROVE Naming'
      BY <2>1, <3>2 DEF Naming, configs
    <3> QED BY <2>8, <3>1, <3>2 DEF ImportStep, StartImport, ImportFails, EndImport
  <2> QED BY <1>2, <2>3, <2>4, <2>5, <2>6, <2>7, <2>8 DEF ExportNext, ServiceStep
<1> QED BY <1>1, <1>2

\* Whatever is stored or deleted has been created, and an import goes through
\* names only, at any point of any export and import.
THEOREM ExportTypeCorrect == ExportSpec => []ExportTypeOK
<1>1. ExportInit => Inv /\ Settling
  BY InitInv DEF ExportInit, Settling, Import, NoImport
<1>2. Inv => Typed
  BY DEF Inv
<1>3. Typed /\ Settling /\ Naming => ExportTypeOK
  BY DEF Typed, Settling, Naming, ExportTypeOK
<1> QED BY <1>1, <1>2, <1>3, InvStep, SettlingStep, NamingInit, NamingStep, PTL DEF ExportSpec
=============================================================================
