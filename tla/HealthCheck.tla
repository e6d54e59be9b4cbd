------------------------------ MODULE HealthCheck ------------------------------
(***************************************************************************)
(* The health record of one upstream service.                                *)
(*                                                                           *)
(* CreateService stores the service and then, in a second step, its health    *)
(* record.  ProbeService looks the record up, creates one if it finds none,   *)
(* pings the upstream, and applies HealthCheck.Record to the shared object    *)
(* without a lock: Record is a sequence of reads and writes here.  Probes     *)
(* come from the background checker and from POST /api/health/{id}/probe.     *)
(*                                                                           *)
(* FailureCount is only compared with the limit, so it saturates there.       *)
(*                                                                           *)
(* The process is stopped by a signal, which cancels the checker's context,    *)
(* and exits when Shutdown has waited; all it stored goes with it, and the next *)
(* one starts with an empty store.                                            *)
(***************************************************************************)
EXTENDS Naturals, FiniteSets

CONSTANTS
    Probers,        \* goroutines that may probe the service
    Checker,        \* the one of them that is the background checker
    Creator,        \* names the record that CreateService makes
    FailureLimit    \* consecutive failures that make it unhealthy (3)

ASSUME HealthAssumption ==
    /\ Checker \in Probers /\ Creator \notin Probers
    /\ FailureLimit \in Nat \ {0}

VARIABLES
    process,        \* serving, stopping after a signal, or exited
    service,        \* the service: not yet, stored, or deleted
    creating,       \* CreateService has yet to store the health record
    active,         \* Service.Status is active
    exists,         \* health records in the store, by who made them
    status,         \* HealthCheck.Status of each record
    failures,       \* HealthCheck.FailureCount of each record
    probe,          \* where each probe is
    hc,             \* the record each probe holds
    read,           \* the FailureCount a probe has read, to increment it
    up,             \* whether the upstream answers below 500
    \* What the properties watch.
    streak,         \* failed pings since the last good one, until two overlap
    blamed,         \* failed pings held against each record
    overlapped      \* two probes have pinged or recorded at the same time

memory == <<service, creating, active, exists, status, failures, probe, hc, read, up,
            streak, blamed, overlapped>>

vars == <<process, memory>>

Records == Probers \cup {Creator}

Counts == 0 .. FailureLimit

Places == {"idle", "picked", "looking", "creating", "pinging", "good",
           "clearing", "bad", "counting", "judging", "stopped"}

TypeOK ==
    /\ process \in {"serving", "stopping", "exited"}
    /\ service \in {"none", "stored", "deleted"} /\ creating \in BOOLEAN /\ active \in BOOLEAN
    /\ exists \in SUBSET Records
    /\ status \in [Records -> {"healthy", "unhealthy"}]
    /\ failures \in [Records -> Counts]
    /\ probe \in [Probers -> Places]
    /\ hc \in [Probers -> Records]
    /\ read \in [Probers -> Counts]
    /\ up \in BOOLEAN
    /\ streak \in Counts /\ blamed \in [Records -> Counts]
    /\ overlapped \in BOOLEAN

Init ==
    /\ process = "serving"
    /\ service = "none" /\ creating = FALSE /\ active = TRUE /\ exists = {}
    /\ status = [h \in Records |-> "healthy"]
    /\ failures = [h \in Records |-> 0]
    /\ probe = [p \in Probers |-> "idle"]
    /\ hc = [p \in Probers |-> Creator]
    /\ read = [p \in Probers |-> 0]
    /\ streak = 0 /\ blamed = [h \in Records |-> 0] /\ overlapped = FALSE
    /\ up \in BOOLEAN

Saturate(n) == IF n > FailureLimit THEN FailureLimit ELSE n

-----------------------------------------------------------------------------
\* CreateService: the service is visible before its health record is.
StoreService ==
    /\ service = "none"
    /\ service' = "stored" /\ creating' = TRUE
    /\ UNCHANGED <<active, exists, status, failures, probe, hc, read, up, streak, blamed, overlapped>>

StoreHealthCheck ==
    /\ creating
    /\ creating' = FALSE /\ exists' = exists \cup {Creator}
    /\ UNCHANGED <<service, active, status, failures, probe, hc, read, up, streak, blamed, overlapped>>

\* UpdateService may change the status, of the shared object.
UpdateService ==
    /\ service = "stored"
    /\ active' = ~active
    /\ UNCHANGED <<service, creating, exists, status, failures, probe, hc, read, up,
                   streak, blamed, overlapped>>

\* DeleteService leaves the health record behind.  (The status of a deleted
\* service is not read again.)
DeleteService ==
    /\ service = "stored"
    /\ service' = "deleted" /\ active' = TRUE
    /\ UNCHANGED <<creating, exists, status, failures, probe, hc, read, up,
                   streak, blamed, overlapped>>

UpstreamToggles ==
    /\ up' = ~up
    /\ UNCHANGED <<service, creating, active, exists, status, failures, probe, hc, read,
                   streak, blamed, overlapped>>

-----------------------------------------------------------------------------
\* main: SIGINT or SIGTERM, and cancel().
Signal == process = "serving" /\ process' = "stopping" /\ UNCHANGED memory

\* Shutdown has waited for requests, or for its timeout, and main returns,
\* whatever the checker is doing; or the server failed, and os.Exit.
Exit ==
    /\ process # "exited" /\ process' = "exited"
    /\ service' = "none" /\ creating' = FALSE /\ active' = TRUE /\ exists' = {}
    /\ status' = [h \in Records |-> "healthy"]
    /\ failures' = [h \in Records |-> 0]
    /\ probe' = [p \in Probers |-> "idle"]
    /\ hc' = [p \in Probers |-> Creator]
    /\ read' = [p \in Probers |-> 0]
    /\ streak' = 0 /\ blamed' = [h \in Records |-> 0] /\ overlapped' = FALSE
    /\ UNCHANGED up

Start == process = "exited" /\ process' = "serving" /\ UNCHANGED memory

-----------------------------------------------------------------------------
\* Faulty select, for the checks: Done is never looked at before a tick.
StopUnpicked ==
    /\ probe[Checker] = "idle" /\ process = "stopping" /\ ~(service = "stored" /\ active)
    /\ probe' = [probe EXCEPT ![Checker] = "stopped"]
    /\ UNCHANGED <<service, creating, active, exists, status, failures, hc, read, up,
                   streak, blamed, overlapped>>

\* The checker's select, when its context is done.  It may take a tick instead.
StopChecker ==
    /\ probe[Checker] = "idle" /\ process = "stopping"
    /\ probe' = [probe EXCEPT ![Checker] = "stopped"]
    /\ UNCHANGED <<service, creating, active, exists, status, failures, hc, read, up,
                   streak, blamed, overlapped>>

\* A tick: it picks the services that its list shows active.
Pick ==
    /\ probe[Checker] = "idle" /\ service = "stored" /\ active
    /\ probe' = [probe EXCEPT ![Checker] = "picked"]
    /\ UNCHANGED <<service, creating, active, exists, status, failures, hc, read, up,
                   streak, blamed, overlapped>>

CallsProbe(p) == probe[p] = IF p = Checker THEN "picked" ELSE "idle"

\* ProbeService: the service must be there, active or not ...
FindService(p) ==
    /\ CallsProbe(p) /\ service = "stored"
    /\ probe' = [probe EXCEPT ![p] = "looking"]
    /\ UNCHANGED <<service, creating, active, exists, status, failures, hc, read, up,
                   streak, blamed, overlapped>>

\* ... or nothing is done ...
ServiceMissing(p) ==
    /\ CallsProbe(p) /\ service # "stored"
    /\ probe' = [probe EXCEPT ![p] = "idle"]
    /\ UNCHANGED <<service, creating, active, exists, status, failures, hc, read, up,
                   streak, blamed, overlapped>>

\* ... any record of the service will do ...
FindRecord(p) ==
    /\ probe[p] = "looking"
    /\ \E h \in exists : hc' = [hc EXCEPT ![p] = h]
    /\ probe' = [probe EXCEPT ![p] = "pinging"]
    /\ UNCHANGED <<service, creating, active, exists, status, failures, read, up,
                   streak, blamed, overlapped>>

NoRecord(p) ==
    /\ probe[p] = "looking" /\ exists = {}
    /\ probe' = [probe EXCEPT ![p] = "creating"]
    /\ UNCHANGED <<service, creating, active, exists, status, failures, hc, read, up,
                   streak, blamed, overlapped>>

\* ... and failing that a new one, stored without looking again.
CreateRecord(p) ==
    /\ probe[p] = "creating"
    /\ exists' = exists \cup {p}
    /\ hc' = [hc EXCEPT ![p] = p]
    /\ probe' = [probe EXCEPT ![p] = "pinging"]
    /\ UNCHANGED <<service, creating, active, status, failures, read, up, streak, blamed, overlapped>>

Recording(p) == probe[p] \in {"good", "clearing", "bad", "counting", "judging"}

\* ping: the answer decides what will be recorded.
Ping(p) ==
    /\ probe[p] = "pinging"
    /\ overlapped' = (overlapped \/ \E q \in Probers : Recording(q))
    /\ IF up
       THEN /\ probe' = [probe EXCEPT ![p] = "good"]
            /\ streak' = 0
            /\ UNCHANGED blamed
       ELSE /\ probe' = [probe EXCEPT ![p] = "bad"]
            /\ streak' = IF overlapped' THEN 0 ELSE Saturate(streak + 1)
            /\ blamed' = [blamed EXCEPT ![hc[p]] = Saturate(@ + 1)]
    /\ UNCHANGED <<service, creating, active, exists, status, failures, hc, read, up>>

-----------------------------------------------------------------------------
\* After Record, UpdateHealthCheck puts the same object back where it is.
Return(p) ==
    /\ probe' = [probe EXCEPT ![p] = "idle"]
    /\ hc' = [hc EXCEPT ![p] = Creator]

\* Faulty Record steps, for the checks: success keeps the count; the limit is
\* off by one, either way.
RecordOkKeepsCount(p) ==
    /\ probe[p] = "good"
    /\ status' = [status EXCEPT ![hc[p]] = "healthy"]
    /\ Return(p)
    /\ UNCHANGED <<service, creating, active, exists, failures, read, up, streak, blamed, overlapped>>

RecordOkKeepsStatus(p) ==
    /\ probe[p] = "good"
    /\ probe' = [probe EXCEPT ![p] = "clearing"]
    /\ UNCHANGED <<service, creating, active, exists, status, failures, hc, read, up,
                   streak, blamed, overlapped>>

JudgeEarly(p) ==
    /\ probe[p] = "judging"
    /\ status' = IF failures[hc[p]] + 1 >= FailureLimit
                 THEN [status EXCEPT ![hc[p]] = "unhealthy"] ELSE status
    /\ Return(p)
    /\ UNCHANGED <<service, creating, active, exists, failures, read, up, streak, blamed, overlapped>>

RecordOkForgets(p) ==
    /\ probe[p] = "good"
    /\ status' = [status EXCEPT ![hc[p]] = ""]
    /\ probe' = [probe EXCEPT ![p] = "clearing"]
    /\ UNCHANGED <<service, creating, active, exists, failures, hc, read, up, streak, blamed, overlapped>>

\* Record(true): healthy, then the count back to zero.
RecordOk(p) ==
    /\ probe[p] = "good"
    /\ status' = [status EXCEPT ![hc[p]] = "healthy"]
    /\ probe' = [probe EXCEPT ![p] = "clearing"]
    /\ UNCHANGED <<service, creating, active, exists, failures, hc, read, up, streak, blamed, overlapped>>

ClearCount(p) ==
    /\ probe[p] = "clearing"
    /\ failures' = [failures EXCEPT ![hc[p]] = 0]
    /\ Return(p)
    /\ UNCHANGED <<service, creating, active, exists, status, read, up, streak, blamed, overlapped>>

\* Record(false): FailureCount++ reads and writes, then the count is judged.
ReadCount(p) ==
    /\ probe[p] = "bad"
    /\ read' = [read EXCEPT ![p] = failures[hc[p]]]
    /\ probe' = [probe EXCEPT ![p] = "counting"]
    /\ UNCHANGED <<service, creating, active, exists, status, failures, hc, up, streak, blamed, overlapped>>

WriteCount(p) ==
    /\ probe[p] = "counting"
    /\ failures' = [failures EXCEPT ![hc[p]] = Saturate(read[p] + 1)]
    /\ probe' = [probe EXCEPT ![p] = "judging"]
    /\ read' = [read EXCEPT ![p] = 0]
    /\ UNCHANGED <<service, creating, active, exists, status, hc, up, streak, blamed, overlapped>>

Judge(p) ==
    /\ probe[p] = "judging"
    /\ status' = IF failures[hc[p]] >= FailureLimit
                 THEN [status EXCEPT ![hc[p]] = "unhealthy"] ELSE status
    /\ Return(p)
    /\ UNCHANGED <<service, creating, active, exists, failures, read, up, streak, blamed, overlapped>>

GoOn(p) ==
    \/ FindRecord(p) \/ NoRecord(p) \/ CreateRecord(p) \/ Ping(p)
    \/ RecordOk(p) \/ ClearCount(p) \/ ReadCount(p) \/ WriteCount(p) \/ Judge(p)

Operate ==
    /\ process # "exited" /\ UNCHANGED process
    /\ \/ StoreService \/ StoreHealthCheck \/ UpdateService \/ DeleteService
       \/ UpstreamToggles \/ Pick \/ StopChecker
       \/ \E p \in Probers : FindService(p) \/ GoOn(p) \/ ServiceMissing(p)

Next == Operate \/ Signal \/ Exit \/ Start

Spec == Init /\ [][Next]_vars

\* The checker's ticker keeps probing, and its select does not pass over a done
\* context for ever; every probe that has begun goes on (a ping has a client
\* timeout); other probes need not come, and no signal.
FairSpec ==
    /\ Spec
    /\ WF_memory(Pick) /\ SF_memory(StopChecker)
    /\ WF_memory(FindService(Checker) \/ ServiceMissing(Checker))
    /\ \A p \in Probers : WF_memory(GoOn(p))
    /\ WF_memory(StoreHealthCheck)

-----------------------------------------------------------------------------
\* No interleaving of probes counts a failure twice: a record that is marked
\* unhealthy has had FailureLimit failed pings held against it.
NeverBlamedEarly ==
    \A h \in Records : status[h] = "unhealthy" => blamed[h] >= FailureLimit

OneRecord == Cardinality(exists) <= 1

Settled == \A p \in Probers : ~Recording(p)

\* As long as probes do not overlap and the service has one record, the record
\* says unhealthy exactly when the last FailureLimit pings failed.
StreakDecides ==
    (Settled /\ ~overlapped /\ OneRecord) =>
        \A h \in exists : (status[h] = "unhealthy") <=> (streak >= FailureLimit)

\* Even with overlapping probes that overwrite each other's counts, an
\* active upstream that stays down is noticed in the end, and one that stays
\* up, while the process serves.
Watched == process = "serving" /\ service = "stored" /\ active /\ OneRecord

Noticed ==
    /\ <>[](Watched /\ ~up) => <>[](\A h \in exists : status[h] = "unhealthy")
    /\ <>[](Watched /\ up) => <>[](\A h \in exists : status[h] = "healthy")

\* Once a signal has come, the checker stops, whatever it was probing, unless
\* the process is gone before that; the select may go on to another tick, but
\* not for ever.
CheckerStops ==
    process = "stopping" ~> (process = "exited" \/ probe[Checker] = "stopped")
=============================================================================
