--------------------------- MODULE HealthCheckProofs ---------------------------
(***************************************************************************)
(* Proofs about HealthCheck, for any probers and any failure limit.            *)
(***************************************************************************)
EXTENDS HealthCheck, FiniteSetTheorems, TLAPS

\* Probes of record h with a failed ping that Record has yet to look at.
Bad(h) == {p \in Probers : probe[p] = "bad" /\ hc[p] = h}

\* A record that is blamed for too few failures has room in its blame for its
\* count, or the count that a probe is about to write, and for every probe that
\* has yet to count its failure; and it is not unhealthy.
Owes(h) ==
    /\ failures[h] + Cardinality(Bad(h)) <= blamed[h]
    /\ \A p \in Probers : probe[p] = "counting" /\ hc[p] = h =>
          read[p] + 1 + Cardinality(Bad(h)) <= blamed[h]
    /\ status[h] # "unhealthy"

Ledger ==
    \A h \in Records :
        IsFiniteSet(Bad(h)) /\ (blamed[h] < FailureLimit => Owes(h))

IInv == TypeOK /\ Ledger

\* What Owes speaks of.
counted == <<status, failures, probe, hc, read, blamed>>

-----------------------------------------------------------------------------
LEMMA SaturateCounts ==
    ASSUME NEW n \in Nat
    PROVE  Saturate(n) \in Counts /\ Saturate(n) <= n /\ (n <= FailureLimit => Saturate(n) = n)
<1>1. FailureLimit \in Nat
    BY HealthAssumption DEF HealthAssumption
<1>2. CASE n > FailureLimit
    <2>1. Saturate(n) = FailureLimit
        BY <1>2 DEF Saturate
    <2> QED BY <1>1, <1>2, <2>1 DEF Counts
<1>3. CASE ~(n > FailureLimit)
    <2>1. Saturate(n) = n
        BY <1>3 DEF Saturate
    <2> QED BY <1>1, <1>3, <2>1 DEF Counts
<1> QED BY <1>2, <1>3

LEMMA InitTyped == Init => IInv
<1> SUFFICES ASSUME Init PROVE IInv
    OBVIOUS
<1>1. TypeOK
    <2>1. 0 \in Counts /\ Creator \in Records
        BY HealthAssumption DEF HealthAssumption, Counts, Records
    <2> QED BY <2>1 DEF Init, TypeOK, Places
<1>2. \A h \in Records : Bad(h) = {}
    BY DEF Init, Bad
<1>3. \A h \in Records : IsFiniteSet(Bad(h)) /\ Cardinality(Bad(h)) = 0
    BY <1>2, FS_EmptySet
<1> QED BY <1>1, <1>3 DEF Init, IInv, Ledger, Owes

\* A step that writes nothing Owes speaks of.
LEMMA LedgerUntouched ==
    ASSUME Ledger, UNCHANGED counted
    PROVE  Ledger'
<1>1. \A h \in Records : Bad(h)' = Bad(h)
    BY DEF counted, Bad
<1> QED BY <1>1 DEF counted, Ledger, Owes

\* A step of one probe that neither has a new failure to count nor reads one:
\* what it writes to a record must still fit.
LEMMA LedgerKept ==
    ASSUME IInv, NEW p \in Probers, probe[p] # "bad",
           probe'[p] \notin {"bad", "counting"},
           \A q \in Probers \ {p} : probe'[q] = probe[q] /\ hc'[q] = hc[q] /\ read'[q] = read[q],
           blamed' = blamed,
           \A h \in Records : blamed[h] < FailureLimit =>
               /\ failures'[h] + Cardinality(Bad(h)) <= blamed[h]
               /\ status'[h] # "unhealthy"
    PROVE  Ledger'
<1>1. \A h \in Records : Bad(h)' = Bad(h)
    BY DEF Bad
<1>2. ASSUME NEW h \in Records, blamed'[h] < FailureLimit PROVE Owes(h)'
    <2>1. Owes(h) /\ Bad(h)' = Bad(h)
        BY <1>1, <1>2 DEF IInv, Ledger
    <2>2. \A q \in Probers : probe'[q] = "counting" /\ hc'[q] = h =>
              q # p /\ read'[q] + 1 + Cardinality(Bad(h)) <= blamed'[h]
        BY <2>1 DEF Owes
    <2> QED BY <1>2, <2>1, <2>2 DEF Owes
<1> QED BY <1>1, <1>2 DEF IInv, Ledger

\* The same, when the step writes no record either.
LEMMA ProbeMoves ==
    ASSUME IInv, NEW p \in Probers, probe[p] # "bad",
           probe'[p] \notin {"bad", "counting"},
           \A q \in Probers \ {p} : probe'[q] = probe[q] /\ hc'[q] = hc[q],
           UNCHANGED <<read, blamed, failures, status>>
    PROVE  Ledger'
<1>1. \A h \in Records : blamed[h] < FailureLimit =>
          /\ failures'[h] + Cardinality(Bad(h)) <= blamed[h]
          /\ status'[h] # "unhealthy"
    BY DEF IInv, Ledger, Owes
<1> QED BY <1>1, LedgerKept

-----------------------------------------------------------------------------
\* Every step leaves well-typed values.
LEMMA TypeKept == TypeOK /\ [Next]_vars => TypeOK'
<1> SUFFICES ASSUME TypeOK, [Next]_vars PROVE TypeOK'
    OBVIOUS
<1>0. FailureLimit \in Nat \ {0} /\ 0 \in Counts
    BY HealthAssumption DEF HealthAssumption, Counts
<1>1. CASE UNCHANGED vars
    BY <1>1 DEF vars, memory, TypeOK
<1>2. CASE Signal \/ Start
    BY <1>2 DEF Signal, Start, memory, TypeOK
<1>3. CASE Exit
    BY <1>3, <1>0 DEF Exit, TypeOK, Records, Places
<1>4. ASSUME Operate PROVE TypeOK'
    <2>1. CASE StoreService \/ StoreHealthCheck \/ UpdateService \/ DeleteService
               \/ UpstreamToggles
        BY <1>4, <2>1 DEF Operate, TypeOK, Records, StoreService, StoreHealthCheck,
                          UpdateService, DeleteService, UpstreamToggles
    <2>2. CASE Pick \/ StopChecker
        BY <1>4, <2>2 DEF Operate, TypeOK, Places, Pick, StopChecker
    <2>3. ASSUME NEW p \in Probers, FindService(p) \/ ServiceMissing(p) \/ NoRecord(p)
          PROVE  TypeOK'
        BY <1>4, <2>3 DEF Operate, TypeOK, Places, FindService, ServiceMissing, NoRecord
    <2>4. ASSUME NEW p \in Probers, FindRecord(p) \/ CreateRecord(p) PROVE TypeOK'
        BY <1>4, <2>4 DEF Operate, TypeOK, Places, Records, FindRecord, CreateRecord
    <2>5. ASSUME NEW p \in Probers, Ping(p) PROVE TypeOK'
        <3>1. Saturate(streak + 1) \in Counts /\ Saturate(blamed[hc[p]] + 1) \in Counts
            BY SaturateCounts DEF TypeOK, Counts
        <3>2. overlapped' \in BOOLEAN
            BY <2>5 DEF Ping
        <3>3. CASE up
            BY <1>4, <1>0, <2>5, <3>2, <3>3 DEF Operate, TypeOK, Places, Ping
        <3>4. CASE ~up
            BY <1>4, <1>0, <2>5, <3>1, <3>2, <3>4 DEF Operate, TypeOK, Places, Ping
        <3> QED BY <3>3, <3>4
    <2>6. ASSUME NEW p \in Probers, RecordOk(p) \/ Judge(p) PROVE TypeOK'
        BY <1>4, <2>6 DEF Operate, TypeOK, Places, Records, RecordOk, Judge, Return
    <2>7. ASSUME NEW p \in Probers, ClearCount(p) PROVE TypeOK'
        BY <1>4, <1>0, <2>7 DEF Operate, TypeOK, Places, Records, ClearCount, Return
    <2>8. ASSUME NEW p \in Probers, ReadCount(p) PROVE TypeOK'
        BY <1>4, <2>8 DEF Operate, TypeOK, Places, ReadCount
    <2>9. ASSUME NEW p \in Probers, WriteCount(p) PROVE TypeOK'
        <3>1. Saturate(read[p] + 1) \in Counts
            BY SaturateCounts DEF TypeOK, Counts
        <3> QED BY <1>4, <1>0, <2>9, <3>1 DEF Operate, TypeOK, Places, WriteCount
    <2> QED BY <1>4, <2>1, <2>2, <2>3, <2>4, <2>5, <2>6, <2>7, <2>8, <2>9 DEF Operate, GoOn
<1> QED BY <1>1, <1>2, <1>3, <1>4 DEF Next

\* Every value is of its type, whatever the probes, the administrators and the
\* signals do in which order.
THEOREM TypeCorrect == Spec => []TypeOK
BY InitTyped, TypeKept, PTL DEF Spec, IInv

-----------------------------------------------------------------------------
\* A failed ping is held against the record, which so can owe one failure more.
LEMMA FailedPing ==
    ASSUME IInv, NEW p \in Probers, Ping(p), ~up
    PROVE  Ledger'
<1> DEFINE r == hc[p]
<1>1. /\ probe[p] = "pinging" /\ probe' = [probe EXCEPT ![p] = "bad"]
      /\ blamed' = [blamed EXCEPT ![r] = Saturate(@ + 1)]
      /\ UNCHANGED <<status, failures, hc, read>>
    BY DEF Ping
<1>2. r \in Records /\ p \notin Bad(r) /\ TypeOK
    BY <1>1 DEF IInv, TypeOK, Bad
<1>3. Bad(r)' = Bad(r) \cup {p} /\ \A h \in Records \ {r} : Bad(h)' = Bad(h)
    BY <1>1, <1>2 DEF TypeOK, Bad
<1>4. /\ IsFiniteSet(Bad(r)) /\ IsFiniteSet(Bad(r) \cup {p})
      /\ Cardinality(Bad(r)) \in Nat
      /\ Cardinality(Bad(r) \cup {p}) = Cardinality(Bad(r)) + 1
    <2>1. IsFiniteSet(Bad(r))
        BY <1>2 DEF IInv, Ledger
    <2> HIDE DEF r
    <2> QED BY <1>2, <2>1, FS_AddElement, FS_CardinalityType
<1>5. ASSUME NEW h \in Records, blamed'[h] < FailureLimit PROVE Owes(h)'
    <2>1. CASE h # r
        BY <1>1, <1>2, <1>3, <1>5, <2>1 DEF IInv, TypeOK, Ledger, Owes
    <2>2. CASE h = r
        <3>1. blamed[r] \in Nat /\ blamed'[r] = blamed[r] + 1 /\ blamed[r] < FailureLimit
            BY <1>1, <1>2, <1>5, <2>2, HealthAssumption
               DEF HealthAssumption, TypeOK, Counts, Saturate
        <3>2. Owes(r) /\ failures[r] \in Nat /\ \A q \in Probers : read[q] \in Nat
            BY <1>2, <3>1 DEF IInv, Ledger, TypeOK, Counts
        <3>3. failures'[r] + Cardinality(Bad(r)') <= blamed'[r]
            BY <1>1, <1>3, <1>4, <3>1, <3>2 DEF Owes
        <3>4. ASSUME NEW q \in Probers, probe'[q] = "counting", hc'[q] = r
              PROVE  read'[q] + 1 + Cardinality(Bad(r)') <= blamed'[r]
            <4>1. probe[q] = "counting" /\ hc[q] = r
                BY <1>1, <1>2, <3>4 DEF TypeOK
            <4>2. read[q] + 1 + Cardinality(Bad(r)) <= blamed[r]
                BY <3>2, <4>1 DEF Owes
            <4> QED BY <1>1, <1>3, <1>4, <3>1, <3>2, <4>2
        <3> QED BY <1>1, <2>2, <3>2, <3>3, <3>4 DEF Owes
    <2> QED BY <2>1, <2>2
<1>6. ASSUME NEW h \in Records PROVE IsFiniteSet(Bad(h)')
    <2>1. CASE h = r
        BY <1>1, <1>3, <1>4, <2>1 DEF Bad
    <2>2. CASE h # r
        BY <1>3, <2>2 DEF IInv, Ledger
    <2> QED BY <2>1, <2>2
<1> QED BY <1>5, <1>6 DEF Ledger

\* Reading the count moves a failure from those yet to be counted to what the
\* probe is about to write.
LEMMA CountRead ==
    ASSUME IInv, NEW p \in Probers, ReadCount(p)
    PROVE  Ledger'
<1> DEFINE r == hc[p]
<1>1. /\ probe[p] = "bad" /\ probe' = [probe EXCEPT ![p] = "counting"]
      /\ read' = [read EXCEPT ![p] = failures[r]]
      /\ UNCHANGED <<status, failures, hc, blamed>>
    BY DEF ReadCount
<1>2. r \in Records /\ p \in Bad(r) /\ TypeOK
    BY <1>1 DEF IInv, TypeOK, Bad
<1>3. Bad(r)' = Bad(r) \ {p} /\ \A h \in Records \ {r} : Bad(h)' = Bad(h)
    BY <1>1, <1>2 DEF TypeOK, Bad
<1>4. /\ IsFiniteSet(Bad(r)) /\ IsFiniteSet(Bad(r) \ {p})
      /\ Cardinality(Bad(r)) \in Nat /\ Cardinality(Bad(r) \ {p}) \in Nat
      /\ Cardinality(Bad(r) \ {p}) = Cardinality(Bad(r)) - 1
    <2>1. IsFiniteSet(Bad(r))
        BY <1>2 DEF IInv, Ledger
    <2> HIDE DEF r
    <2> QED BY <1>2, <2>1, FS_RemoveElement, FS_CardinalityType
<1>5. ASSUME NEW h \in Records, blamed'[h] < FailureLimit PROVE Owes(h)'
    <2>0. Owes(h) /\ \A q \in Probers : read[q] \in Nat
        BY <1>1, <1>2, <1>5 DEF IInv, Ledger, TypeOK, Counts
    <2>1. CASE h # r
        BY <1>1, <1>2, <1>3, <1>5, <2>0, <2>1 DEF TypeOK, Owes
    <2>2. CASE h = r
        <3>1. failures[r] \in Nat /\ blamed[r] \in Nat
            BY <1>2 DEF TypeOK, Counts
        <3>2. failures'[r] + Cardinality(Bad(r)') <= blamed'[r]
            BY <1>1, <1>3, <1>4, <2>0, <2>2, <3>1 DEF Owes
        <3>3. ASSUME NEW q \in Probers, probe'[q] = "counting", hc'[q] = r
              PROVE  read'[q] + 1 + Cardinality(Bad(r)') <= blamed'[r]
            <4>1. CASE q = p
                <5>1. read'[q] = failures[r]
                    BY <1>1, <1>2, <4>1 DEF TypeOK
                <5>2. failures[r] + Cardinality(Bad(r)) <= blamed[r]
                    BY <2>0, <2>2 DEF Owes
                <5> QED BY <1>1, <1>3, <1>4, <3>1, <5>1, <5>2
            <4>2. CASE q # p
                <5>1. probe[q] = "counting" /\ hc[q] = r /\ read'[q] = read[q]
                    BY <1>1, <1>2, <3>3, <4>2 DEF TypeOK
                <5>2. read[q] + 1 + Cardinality(Bad(r)) <= blamed[r] /\ read[q] \in Nat
                    BY <2>0, <2>2, <5>1 DEF Owes
                <5> QED BY <1>1, <1>3, <1>4, <3>1, <5>1, <5>2
            <4> QED BY <4>1, <4>2
        <3> QED BY <1>1, <2>0, <2>2, <3>2, <3>3 DEF Owes
    <2> QED BY <2>1, <2>2
<1>6. ASSUME NEW h \in Records PROVE IsFiniteSet(Bad(h)')
    <2>1. CASE h = r
        BY <1>1, <1>3, <1>4, <2>1 DEF Bad
    <2>2. CASE h # r
        BY <1>3, <2>2 DEF IInv, Ledger
    <2> QED BY <2>1, <2>2
<1> QED BY <1>5, <1>6 DEF Ledger

-----------------------------------------------------------------------------
LEMMA LedgerStep == IInv /\ [Next]_vars => Ledger'
<1> SUFFICES ASSUME IInv, [Next]_vars PROVE Ledger'
    OBVIOUS
<1>0. TypeOK /\ Ledger /\ FailureLimit \in Nat \ {0}
    BY HealthAssumption DEF HealthAssumption, IInv
<1>1. CASE UNCHANGED vars
    BY <1>0, <1>1, LedgerUntouched DEF vars, memory, counted
<1>2. CASE Signal \/ Start
    BY <1>0, <1>2, LedgerUntouched DEF Signal, Start, memory, counted
<1>3. CASE Exit
    <2>1. \A h \in Records : Bad(h)' = {}
        BY <1>3 DEF Exit, Bad
    <2>2. \A h \in Records : IsFiniteSet(Bad(h)') /\ Cardinality(Bad(h)') = 0
        BY <2>1, FS_EmptySet
    <2> QED BY <1>3, <2>2 DEF Exit, Ledger, Owes
<1>4. ASSUME Operate PROVE Ledger'
    <2>1. CASE StoreService \/ StoreHealthCheck \/ UpdateService \/ DeleteService
               \/ UpstreamToggles
        BY <1>0, <2>1, LedgerUntouched
           DEF StoreService, StoreHealthCheck, UpdateService, DeleteService, UpstreamToggles,
               counted
    <2>2. CASE Pick \/ StopChecker
        BY <1>0, <2>2, ProbeMoves, HealthAssumption
           DEF HealthAssumption, TypeOK, Pick, StopChecker
    <2>3. ASSUME NEW p \in Probers, FindService(p) \/ ServiceMissing(p) PROVE Ledger'
        BY <1>0, <2>3, ProbeMoves DEF TypeOK, FindService, ServiceMissing, CallsProbe
    <2>4. ASSUME NEW p \in Probers, GoOn(p) PROVE Ledger'
        <3>1. CASE FindRecord(p) \/ NoRecord(p) \/ CreateRecord(p)
            BY <1>0, <3>1, ProbeMoves DEF TypeOK, FindRecord, NoRecord, CreateRecord
        <3>2. CASE Ping(p) /\ up
            BY <1>0, <3>2, ProbeMoves DEF TypeOK, Ping
        <3>3. CASE Ping(p) /\ ~up
            BY <3>3, FailedPing
        <3>4. CASE RecordOk(p)
            <4>1. /\ probe[p] = "good" /\ probe' = [probe EXCEPT ![p] = "clearing"]
                  /\ status' = [status EXCEPT ![hc[p]] = "healthy"]
                  /\ UNCHANGED <<hc, read, failures, blamed>>
                BY <3>4 DEF RecordOk
            <4>2. \A h \in Records : blamed[h] < FailureLimit =>
                      /\ failures'[h] + Cardinality(Bad(h)) <= blamed[h]
                      /\ status'[h] # "unhealthy"
                BY <1>0, <4>1 DEF TypeOK, Ledger, Owes
            <4> QED BY <1>0, <4>1, <4>2, LedgerKept DEF TypeOK
        <3>5. CASE ClearCount(p)
            <4>1. /\ probe[p] = "clearing" /\ probe' = [probe EXCEPT ![p] = "idle"]
                  /\ hc' = [hc EXCEPT ![p] = Creator]
                  /\ failures' = [failures EXCEPT ![hc[p]] = 0]
                  /\ UNCHANGED <<read, status, blamed>>
                BY <3>5 DEF ClearCount, Return
            <4>2. ASSUME NEW h \in Records, blamed[h] < FailureLimit
                  PROVE  /\ failures'[h] + Cardinality(Bad(h)) <= blamed[h]
                         /\ status'[h] # "unhealthy"
                <5>1. Owes(h) /\ failures[h] \in Nat /\ blamed[h] \in Nat
                      /\ Cardinality(Bad(h)) \in Nat
                    BY <1>0, <4>2, FS_CardinalityType DEF Ledger, TypeOK, Counts
                <5>2. failures'[h] = failures[h] \/ failures'[h] = 0
                    BY <1>0, <4>1 DEF TypeOK
                <5> QED BY <4>1, <5>1, <5>2 DEF Owes
            <4> QED BY <1>0, <4>1, <4>2, LedgerKept DEF TypeOK
        <3>6. CASE ReadCount(p)
            BY <3>6, CountRead
        <3>7. CASE WriteCount(p)
            <4>1. /\ probe[p] = "counting" /\ probe' = [probe EXCEPT ![p] = "judging"]
                  /\ failures' = [failures EXCEPT ![hc[p]] = Saturate(read[p] + 1)]
                  /\ read' = [read EXCEPT ![p] = 0]
                  /\ UNCHANGED <<hc, status, blamed>>
                BY <3>7 DEF WriteCount
            <4>2. ASSUME NEW h \in Records, blamed[h] < FailureLimit
                  PROVE  /\ failures'[h] + Cardinality(Bad(h)) <= blamed[h]
                         /\ status'[h] # "unhealthy"
                <5>1. /\ Owes(h) /\ blamed[h] \in Nat /\ read[p] \in Nat
                      /\ Cardinality(Bad(h)) \in Nat
                    BY <1>0, <4>2, FS_CardinalityType DEF Ledger, TypeOK, Counts
                <5>2. CASE h = hc[p]
                    <6>1. read[p] + 1 + Cardinality(Bad(h)) <= blamed[h]
                        BY <4>1, <5>1, <5>2 DEF Owes
                    <6>2. Saturate(read[p] + 1) \in Nat /\ Saturate(read[p] + 1) <= read[p] + 1
                        BY <5>1, SaturateCounts DEF Counts
                    <6>3. failures'[h] = Saturate(read[p] + 1)
                        BY <1>0, <4>1, <5>2 DEF TypeOK
                    <6> QED BY <4>1, <5>1, <6>1, <6>2, <6>3 DEF Owes
                <5>3. CASE h # hc[p]
                    BY <1>0, <4>1, <5>1, <5>3 DEF TypeOK, Owes
                <5> QED BY <5>2, <5>3
            <4> QED BY <1>0, <4>1, <4>2, LedgerKept DEF TypeOK
        <3>8. CASE Judge(p)
            <4>1. /\ probe[p] = "judging" /\ probe' = [probe EXCEPT ![p] = "idle"]
                  /\ hc' = [hc EXCEPT ![p] = Creator]
                  /\ status' = IF failures[hc[p]] >= FailureLimit
                               THEN [status EXCEPT ![hc[p]] = "unhealthy"] ELSE status
                  /\ UNCHANGED <<read, failures, blamed>>
                BY <3>8 DEF Judge, Return
            <4>2. ASSUME NEW h \in Records, blamed[h] < FailureLimit
                  PROVE  /\ failures'[h] + Cardinality(Bad(h)) <= blamed[h]
                         /\ status'[h] # "unhealthy"
                <5>1. /\ Owes(h) /\ failures[h] \in Nat /\ blamed[h] \in Nat
                      /\ Cardinality(Bad(h)) \in Nat
                    BY <1>0, <4>2, FS_CardinalityType DEF Ledger, TypeOK, Counts
                <5>2. ~(failures[h] >= FailureLimit)
                    BY <1>0, <4>2, <5>1 DEF Owes
                <5>3. status'[h] = status[h]
                    BY <1>0, <4>1, <5>2 DEF TypeOK
                <5> QED BY <4>1, <5>1, <5>3 DEF Owes
            <4> QED BY <1>0, <4>1, <4>2, LedgerKept DEF TypeOK
        <3> QED BY <2>4, <3>1, <3>2, <3>3, <3>4, <3>5, <3>6, <3>7, <3>8 DEF GoOn
    <2> QED BY <1>4, <2>1, <2>2, <2>3, <2>4 DEF Operate
<1> QED BY <1>1, <1>2, <1>3, <1>4 DEF Next

\* However probes and Record's unlocked increments (model/health_check.go) overlap,
\* no failure is counted twice: an unhealthy record has had as many failed pings
\* as the limit asks for.
THEOREM NeverBlamedForFewer == Spec => []NeverBlamedEarly
<1>1. IInv /\ [Next]_vars => IInv'
    BY TypeKept, LedgerStep DEF IInv
<1>2. IInv => NeverBlamedEarly
    <2> SUFFICES ASSUME IInv, NEW h \in Records, status[h] = "unhealthy"
                 PROVE  blamed[h] >= FailureLimit
        BY DEF NeverBlamedEarly
    <2>1. ~(blamed[h] < FailureLimit)
        BY DEF IInv, Ledger, Owes
    <2>2. blamed[h] \in Nat /\ FailureLimit \in Nat
        BY HealthAssumption DEF HealthAssumption, IInv, TypeOK, Counts
    <2> QED BY <2>1, <2>2
<1> QED BY InitTyped, <1>1, <1>2, PTL DEF Spec
-----------------------------------------------------------------------------
\* Who pings or records holds a record of the store; a record that is not there
\* is as new; and without one, no ping counts.
Grounded ==
    /\ IsFiniteSet(exists)
    /\ \A p \in Probers : (probe[p] = "pinging" \/ Recording(p)) => hc[p] \in exists
    /\ \A h \in Records \ exists : failures[h] = 0 /\ status[h] = "healthy"
    /\ exists = {} => streak = 0

Single == \A h, k \in exists : h = k

Alone == \A p, q \in Probers : Recording(p) /\ Recording(q) => p = q

Shown(h, n) == (status[h] = "unhealthy") <=> (n >= FailureLimit)

\* What a record holds at each place in Record of the one probe that is there.
AtPlace(h, p) ==
    /\ probe[p] = "good" => streak = 0
    /\ probe[p] = "clearing" => streak = 0 /\ status[h] = "healthy"
    /\ probe[p] \in {"bad", "counting"} =>
          streak = Saturate(failures[h] + 1) /\ Shown(h, failures[h])
    /\ probe[p] = "counting" => read[p] = failures[h]
    /\ probe[p] = "judging" =>
          failures[h] = streak /\ (status[h] = "unhealthy" => streak >= FailureLimit)

\* Without overlap, the service's only record counts what the streak counts.
InStep ==
    ~overlapped =>
        /\ Alone
        /\ Single => \A h \in exists :
              /\ Settled => failures[h] = streak /\ Shown(h, streak)
              /\ \A p \in Probers : AtPlace(h, p)

StreakInv == TypeOK /\ Grounded /\ InStep

-----------------------------------------------------------------------------
LEMMA StreakInit == Init => StreakInv
<1> SUFFICES ASSUME Init PROVE StreakInv
    OBVIOUS
<1>1. TypeOK
    BY InitTyped DEF IInv
<1>2. Grounded
    BY FS_EmptySet DEF Init, Grounded, Recording
<1>3. Alone /\ exists = {}
    BY DEF Init, Alone, Recording
<1> QED BY <1>1, <1>2, <1>3 DEF StreakInv, InStep

LEMMA OnlyOne ==
    ASSUME Grounded
    PROVE  OneRecord => Single
<1> SUFFICES ASSUME OneRecord, NEW h \in exists, NEW k \in exists, h # k PROVE FALSE
    BY DEF Single
<1>1. IsFiniteSet(exists) /\ Cardinality(exists) <= 1 /\ Cardinality(exists) \in Nat
    BY FS_CardinalityType DEF Grounded, OneRecord
<1>2. /\ IsFiniteSet(exists \ {h})
      /\ Cardinality(exists \ {h}) = Cardinality(exists) - 1
      /\ Cardinality(exists \ {h}) \in Nat
    BY <1>1, FS_RemoveElement, FS_CardinalityType
<1>3. Cardinality(exists \ {h}) = 0
    BY <1>1, <1>2
<1>4. exists \ {h} = {}
    BY <1>2, <1>3, FS_EmptySet
<1> QED BY <1>4

\* A step that leaves records and recorders alone.
LEMMA InStepUntouched ==
    ASSUME StreakInv, UNCHANGED <<exists, status, failures, read, streak, overlapped>>,
           \A p \in Probers : (Recording(p) \/ Recording(p)') => probe'[p] = probe[p]
    PROVE  InStep'
<1>1. \A p \in Probers : Recording(p)' = Recording(p)
    BY DEF Recording
<1>2. Settled' = Settled /\ Alone' = Alone /\ Single' = Single
    BY <1>1 DEF Settled, Alone, Single
<1>3. \A h \in exists, n \in Counts : Shown(h, n)' = Shown(h, n)
    BY DEF Shown
<1>4. ASSUME NEW h \in exists, NEW p \in Probers, AtPlace(h, p) PROVE AtPlace(h, p)'
    <2>1. CASE Recording(p)'
        <3>1. probe'[p] = probe[p]
            BY <2>1
        <3> QED BY <1>4, <3>1 DEF AtPlace, Shown
    <2>2. CASE ~Recording(p)'
        BY <2>2 DEF Recording, AtPlace
    <2> QED BY <2>1, <2>2
<1>5. \A h \in exists : Shown(h, streak)' = Shown(h, streak)
    BY DEF Shown
<1> QED BY <1>1, <1>2, <1>4, <1>5 DEF StreakInv, InStep

\* One more record: it is the first, and as new, or no longer the only one.
LEMMA InStepStored ==
    ASSUME StreakInv, NEW k \in Records, exists' = exists \cup {k},
           UNCHANGED <<status, failures, read, streak, overlapped>>,
           \A p \in Probers : (Recording(p) \/ Recording(p)') => probe'[p] = probe[p]
    PROVE  InStep'
<1>1. CASE k \in exists
    <2>1. exists' = exists
        BY <1>1
    <2> QED BY <2>1, InStepUntouched
<1>2. CASE k \notin exists /\ exists # {}
    <2>1. \A p \in Probers : Recording(p)' = Recording(p)
        BY DEF Recording
    <2>2. ~Single'
        BY <1>2 DEF Single
    <2> QED BY <2>1, <2>2 DEF StreakInv, InStep, Alone
<1>3. CASE exists = {}
    <2>1. \A p \in Probers : ~Recording(p)
        BY <1>3 DEF StreakInv, Grounded
    <2>2. \A p \in Probers : ~Recording(p)'
        BY <2>1 DEF Recording
    <2>3. failures'[k] = streak' /\ streak' = 0 /\ status'[k] = "healthy"
        BY <1>3 DEF StreakInv, Grounded
    <2>4. Shown(k, streak)'
        BY <2>3, HealthAssumption DEF HealthAssumption, Shown
    <2>5. \A p \in Probers : AtPlace(k, p)'
        BY <2>2 DEF Recording, AtPlace
    <2> QED BY <1>3, <2>2, <2>3, <2>4, <2>5 DEF InStep, Alone
<1> QED BY <1>1, <1>2, <1>3

\* A step of the probe that records: where it leaves its record is all that counts.
LEMMA InStepRecorded ==
    ASSUME StreakInv, NEW p \in Probers, Recording(p),
           UNCHANGED <<exists, streak, overlapped>>,
           \A q \in Probers \ {p} : probe'[q] = probe[q],
           ASSUME ~overlapped, Single, NEW h \in exists, h = hc[p], AtPlace(h, p)
           PROVE  /\ AtPlace(h, p)'
                  /\ Recording(p)' \/ (failures'[h] = streak /\ Shown(h, streak)')
    PROVE  InStep'
<1> SUFFICES ASSUME ~overlapped PROVE Alone' /\ (Single' => \A h \in exists' :
                          /\ Settled' => failures'[h] = streak' /\ Shown(h, streak)'
                          /\ \A q \in Probers : AtPlace(h, q)')
    BY DEF InStep
<1>1. \A q \in Probers \ {p} : ~Recording(q)
    BY DEF StreakInv, InStep, Alone
<1>2. \A q \in Probers \ {p} : ~Recording(q)'
    BY <1>1 DEF Recording
<1>3. Alone'
    BY <1>2 DEF Alone
<1>4. ASSUME Single', NEW h \in exists'
      PROVE  /\ Settled' => failures'[h] = streak' /\ Shown(h, streak)'
             /\ \A q \in Probers : AtPlace(h, q)'
    <2>1. Single /\ h = hc[p] /\ h \in exists
        BY <1>4 DEF StreakInv, Grounded, Single
    <2>2. AtPlace(h, p)
        BY <2>1 DEF StreakInv, InStep
    <2>3. /\ AtPlace(h, p)'
          /\ Recording(p)' \/ (failures'[h] = streak /\ Shown(h, streak)')
        BY <2>1, <2>2
    <2>4. \A q \in Probers \ {p} : AtPlace(h, q)'
        BY <1>2 DEF Recording, AtPlace
    <2> QED BY <2>3, <2>4 DEF Settled
<1> QED BY <1>3, <1>4

-----------------------------------------------------------------------------
\* A step that takes no record away and writes only to records of the store.
LEMMA GroundedKept ==
    ASSUME Grounded, exists' = exists,
           \A h \in Records \ exists : failures'[h] = failures[h] /\ status'[h] = status[h],
           \A p \in Probers : probe'[p] = "pinging" \/ Recording(p)' => hc'[p] \in exists,
           exists # {} \/ streak' = streak
    PROVE  Grounded'
BY DEF Grounded

LEMMA GroundedStep == TypeOK /\ Grounded /\ [Next]_vars => Grounded'
<1> SUFFICES ASSUME TypeOK, Grounded, [Next]_vars PROVE Grounded'
    OBVIOUS
<1>1. CASE UNCHANGED vars \/ Signal \/ Start
    BY <1>1 DEF vars, memory, Signal, Start, Grounded, Recording
<1>2. CASE Exit
    BY <1>2, FS_EmptySet DEF Exit, Grounded, Recording
<1>3. ASSUME Operate PROVE Grounded'
    <2>1. CASE StoreService \/ UpdateService \/ DeleteService \/ UpstreamToggles
        BY <2>1 DEF StoreService, UpdateService, DeleteService, UpstreamToggles,
                    Grounded, Recording
    <2>2. CASE StoreHealthCheck
        BY <2>2, FS_AddElement DEF StoreHealthCheck, Grounded, Recording
    <2>3. CASE Pick \/ StopChecker
        BY <2>3, HealthAssumption, GroundedKept
           DEF HealthAssumption, TypeOK, Pick, StopChecker, Grounded, Recording
    <2>4. ASSUME NEW p \in Probers, FindService(p) \/ ServiceMissing(p) PROVE Grounded'
        BY <2>4, GroundedKept DEF TypeOK, FindService, ServiceMissing, Grounded, Recording
    <2>5. ASSUME NEW p \in Probers, GoOn(p) PROVE Grounded'
        <3>1. CASE NoRecord(p)
            BY <3>1, GroundedKept DEF TypeOK, NoRecord, Grounded, Recording
        <3>2. CASE FindRecord(p)
            BY <3>2, GroundedKept DEF TypeOK, FindRecord, Grounded, Recording
        <3>3. CASE CreateRecord(p)
            BY <3>3, FS_AddElement DEF TypeOK, CreateRecord, Grounded, Recording
        <3>4. CASE Ping(p)
            <4>1. hc[p] \in exists
                BY <3>4 DEF Ping, Grounded
            <4>2. \A q \in Probers : probe'[q] = "pinging" \/ Recording(q)' => hc'[q] \in exists
                BY <3>4, <4>1 DEF TypeOK, Ping, Grounded, Recording
            <4> QED BY <3>4, <4>1, <4>2, GroundedKept DEF Ping
        <3>5. ASSUME Recording(p), UNCHANGED <<exists, streak>>,
                     probe'[p] = "idle" \/ hc'[p] = hc[p],
                     \A q \in Probers \ {p} : probe'[q] = probe[q] /\ hc'[q] = hc[q],
                     \A h \in Records \ {hc[p]} :
                         failures'[h] = failures[h] /\ status'[h] = status[h]
              PROVE  Grounded'
            <4>1. hc[p] \in exists
                BY <3>5 DEF Grounded
            <4>2. \A q \in Probers : probe'[q] = "pinging" \/ Recording(q)' => hc'[q] \in exists
                BY <3>5, <4>1 DEF Grounded, Recording
            <4> QED BY <3>5, <4>1, <4>2, GroundedKept
        <3>6. CASE RecordOk(p) \/ ReadCount(p) \/ WriteCount(p)
            BY <3>5, <3>6 DEF TypeOK, RecordOk, ReadCount, WriteCount, Recording
        <3>7. CASE ClearCount(p) \/ Judge(p)
            BY <3>5, <3>7 DEF TypeOK, ClearCount, Judge, Return, Recording
        <3> QED BY <2>5, <3>1, <3>2, <3>3, <3>4, <3>6, <3>7 DEF GoOn
    <2> QED BY <1>3, <2>1, <2>2, <2>3, <2>4, <2>5 DEF Operate
<1> QED BY <1>1, <1>2, <1>3 DEF Next

\* A ping while nobody records: the streak goes on from the record's count.
LEMMA InStepPinged ==
    ASSUME StreakInv, NEW p \in Probers, Ping(p)
    PROVE  InStep'
<1> SUFFICES ASSUME ~overlapped' PROVE Alone' /\ (Single' => \A h \in exists' :
                          /\ Settled' => failures'[h] = streak' /\ Shown(h, streak)'
                          /\ \A q \in Probers : AtPlace(h, q)')
    BY DEF InStep
<1>1. ~overlapped /\ \A q \in Probers : ~Recording(q)
    BY DEF Ping
<1>2. Settled /\ probe'[p] \in {"good", "bad"}
    BY <1>1 DEF StreakInv, TypeOK, Settled, Ping
<1>3. \A q \in Probers \ {p} : ~Recording(q)'
    BY <1>1 DEF StreakInv, TypeOK, Ping, Recording
<1>4. Alone' /\ ~Settled'
    BY <1>2, <1>3 DEF Alone, Settled, Recording
<1>5. ASSUME Single', NEW h \in exists' PROVE \A q \in Probers : AtPlace(h, q)'
    <2>1. Single /\ h \in exists
        BY <1>5 DEF Ping, Single
    <2>2. failures[h] = streak /\ Shown(h, streak)
        BY <1>1, <1>2, <2>1 DEF StreakInv, InStep
    <2>3. \A q \in Probers \ {p} : AtPlace(h, q)'
        BY <1>3 DEF Recording, AtPlace
    <2>4. CASE up
        BY <2>3, <2>4 DEF StreakInv, TypeOK, Ping, AtPlace
    <2>5. CASE ~up
        <3>1. /\ probe'[p] = "bad" /\ UNCHANGED <<failures, status>>
              /\ streak' = Saturate(failures'[h] + 1)
            BY <2>2, <2>5 DEF StreakInv, TypeOK, Ping
        <3>2. Shown(h, failures[h])'
            BY <2>2, <3>1 DEF Shown
        <3>3. AtPlace(h, p)'
            BY <3>1, <3>2 DEF AtPlace
        <3> QED BY <2>3, <3>3
    <2> QED BY <2>4, <2>5
<1> QED BY <1>4, <1>5

\* What Record does to the record of the one probe that is there.
LEMMA InStepGoesOn ==
    ASSUME StreakInv, NEW p \in Probers,
           RecordOk(p) \/ ClearCount(p) \/ ReadCount(p) \/ WriteCount(p) \/ Judge(p)
    PROVE  InStep'
<1> USE DEF StreakInv, TypeOK, Recording
<1>0. FailureLimit \in Nat \ {0}
    BY HealthAssumption DEF HealthAssumption
<1>1. ASSUME NEW h \in Records
      PROVE  streak \in Nat /\ failures[h] \in Nat /\ failures[h] <= FailureLimit
    BY <1>0 DEF Counts
<1>2. ASSUME NEW n \in Nat, n <= FailureLimit
      PROVE  n >= FailureLimit => Saturate(n + 1) = FailureLimit
    BY <1>0, <1>2 DEF Saturate
<1>3. CASE RecordOk(p)
    BY <1>3, InStepRecorded DEF RecordOk, AtPlace
<1>4. CASE ClearCount(p)
    <2>1. /\ Recording(p) /\ UNCHANGED <<exists, streak, overlapped>>
          /\ \A q \in Probers \ {p} : probe'[q] = probe[q]
        BY <1>4 DEF ClearCount, Return
    <2>2. ASSUME ~overlapped, Single, NEW h \in exists, h = hc[p], AtPlace(h, p)
          PROVE  /\ AtPlace(h, p)'
                 /\ Recording(p)' \/ (failures'[h] = streak /\ Shown(h, streak)')
        <3>1. streak = 0 /\ status[h] = "healthy"
            BY <1>4, <2>2 DEF ClearCount, AtPlace
        <3>2. failures'[h] = 0 /\ UNCHANGED <<streak, status>> /\ probe'[p] = "idle"
            BY <1>4, <2>2 DEF ClearCount, Return
        <3> QED BY <1>0, <3>1, <3>2 DEF AtPlace, Shown
    <2> QED BY <2>1, <2>2, InStepRecorded
<1>5. CASE ReadCount(p)
    BY <1>5, InStepRecorded DEF ReadCount, AtPlace, Shown
<1>6. CASE WriteCount(p)
    <2>1. /\ Recording(p) /\ UNCHANGED <<exists, streak, overlapped>>
          /\ \A q \in Probers \ {p} : probe'[q] = probe[q]
        BY <1>6 DEF WriteCount
    <2>2. ASSUME ~overlapped, Single, NEW h \in exists, h = hc[p], AtPlace(h, p)
          PROVE  /\ AtPlace(h, p)'
                 /\ Recording(p)' \/ (failures'[h] = streak /\ Shown(h, streak)')
        <3>1. /\ streak = Saturate(failures[h] + 1) /\ read[p] = failures[h]
              /\ (status[h] = "unhealthy") <=> (failures[h] >= FailureLimit)
            BY <1>6, <2>2 DEF WriteCount, AtPlace, Shown
        <3>2. /\ failures'[h] = Saturate(read[p] + 1) /\ probe'[p] = "judging"
              /\ UNCHANGED <<streak, status>>
            BY <1>6, <2>2 DEF WriteCount
        <3>3. status[h] = "unhealthy" => streak = FailureLimit
            BY <1>1, <1>2, <3>1
        <3> QED BY <1>0, <3>1, <3>2, <3>3 DEF AtPlace
    <2> QED BY <2>1, <2>2, InStepRecorded
<1>7. CASE Judge(p)
    <2>1. /\ Recording(p) /\ UNCHANGED <<exists, streak, overlapped>>
          /\ \A q \in Probers \ {p} : probe'[q] = probe[q]
        BY <1>7 DEF Judge, Return
    <2>2. ASSUME ~overlapped, Single, NEW h \in exists, h = hc[p], AtPlace(h, p)
          PROVE  /\ AtPlace(h, p)'
                 /\ Recording(p)' \/ (failures'[h] = streak /\ Shown(h, streak)')
        <3>1. failures[h] = streak /\ (status[h] = "unhealthy" => streak >= FailureLimit)
            BY <1>7, <2>2 DEF Judge, AtPlace
        <3>2. /\ status'[h] = IF failures[h] >= FailureLimit THEN "unhealthy" ELSE status[h]
              /\ UNCHANGED <<streak, failures>> /\ probe'[p] = "idle"
            BY <1>7, <2>2 DEF Judge, Return
        <3> QED BY <3>1, <3>2 DEF AtPlace, Shown
    <2> QED BY <2>1, <2>2, InStepRecorded
<1> QED BY <1>3, <1>4, <1>5, <1>6, <1>7

LEMMA InStepStep == StreakInv /\ [Next]_vars => InStep'
<1> SUFFICES ASSUME StreakInv, [Next]_vars PROVE InStep'
    OBVIOUS
<1>1. CASE UNCHANGED vars \/ Signal \/ Start
    BY <1>1, InStepUntouched DEF vars, memory, Signal, Start
<1>2. CASE Exit
    BY <1>2 DEF Exit, InStep, Alone, Recording
<1>3. ASSUME Operate PROVE InStep'
    <2>1. CASE StoreService \/ UpdateService \/ DeleteService \/ UpstreamToggles
        BY <2>1, InStepUntouched DEF StoreService, UpdateService, DeleteService, UpstreamToggles
    <2>2. CASE StoreHealthCheck
        BY <2>2, InStepStored DEF StoreHealthCheck, Records
    <2>3. CASE Pick \/ StopChecker
        BY <2>3, HealthAssumption, InStepUntouched
           DEF HealthAssumption, StreakInv, TypeOK, Recording, Pick, StopChecker
    <2>4. ASSUME NEW p \in Probers, FindService(p) \/ ServiceMissing(p) PROVE InStep'
        BY <2>4, InStepUntouched
           DEF CallsProbe, StreakInv, TypeOK, Recording, FindService, ServiceMissing
    <2>5. ASSUME NEW p \in Probers, FindRecord(p) \/ NoRecord(p) PROVE InStep'
        BY <2>5, InStepUntouched DEF StreakInv, TypeOK, Recording, FindRecord, NoRecord
    <2>6. ASSUME NEW p \in Probers, CreateRecord(p) PROVE InStep'
        BY <2>6, InStepStored DEF StreakInv, TypeOK, Records, Recording, CreateRecord
    <2> QED BY <1>3, <2>1, <2>2, <2>3, <2>4, <2>5, <2>6, InStepPinged, InStepGoesOn
            DEF Operate, GoOn
<1> QED BY <1>1, <1>2, <1>3 DEF Next

\* While probes do not overlap and CreateService and the probes have made one
\* record between them, Record's separate writes of status and count say exactly
\* whether the last FailureLimit pings failed, whatever the upstream, the
\* administrators and the signals do in between.
THEOREM StreakIsShown == Spec => []StreakDecides
<1>1. StreakInv /\ [Next]_vars => StreakInv'
    BY TypeKept, GroundedStep, InStepStep DEF StreakInv
<1>2. StreakInv => StreakDecides
    BY OnlyOne DEF StreakInv, InStep, StreakDecides, Shown
<1> QED BY StreakInit, <1>1, <1>2, PTL DEF Spec
=============================================================================
