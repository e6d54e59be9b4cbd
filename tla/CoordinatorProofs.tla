--------------------------- MODULE CoordinatorProofs ---------------------------
(***************************************************************************)
(* Proofs about the flow coordinator: about Fanout, for any finite number of   *)
(* workers, and about Flow, for any callers of each sequence.                  *)
(***************************************************************************)
EXTENDS Fanout, Flow, TLAPS

\* Every goroutine is somewhere in its code, and the channels hold what they can.
THEOREM TypeCorrect == Spec => []TypeOK
<1>1. Init => TypeOK
  <2> SUFFICES ASSUME Init PROVE TypeOK
    OBVIOUS
  <2>1. failAt \in SUBSET Workers /\ worker \in [Workers -> {"running", "failing", "done"}]
    BY DEF Init
  <2>2. results \in SUBSET Workers /\ out \in SUBSET Workers /\ errs \in 0 .. 1
    BY DEF Init
  <2>3. closed \in BOOLEAN /\ cancelled \in BOOLEAN /\ parentDone \in BOOLEAN
    BY Zenon DEF Init
  <2> QED BY <2>1, <2>2, <2>3 DEF Init, TypeOK
<1>2. TypeOK /\ [Next]_vars => TypeOK'
  <2> SUFFICES ASSUME TypeOK, [Next]_vars PROVE TypeOK'
    OBVIOUS
  <2> USE DEF TypeOK
  <2>1. ASSUME NEW w \in Workers, Send(w) \/ GiveUp(w) PROVE TypeOK'
    BY <2>1 DEF Send, GiveUp
  <2>2. ASSUME NEW w \in Workers, Fail(w) PROVE TypeOK'
    BY <2>2 DEF Fail
  <2>3. ASSUME NEW w \in Workers, FailCancel(w) PROVE TypeOK'
    BY <2>3 DEF FailCancel
  <2>4. CASE Close
    BY <2>4 DEF Close
  <2>5. CASE Collect
    BY <2>5 DEF Collect
  <2>6. CASE CollectClosed
    BY <2>6 DEF CollectClosed, Return
  <2>7. CASE CollectError
    BY <2>7 DEF CollectError, Return
  <2>8. CASE CollectDone
    BY <2>8 DEF CollectDone
  <2>9. CASE Stop
    <3>1. CASE errs > 0
      BY <2>9, <3>1 DEF Stop, Return
    <3>2. CASE ~(errs > 0)
      BY <2>9, <3>2 DEF Stop, Return
    <3> QED BY <3>1, <3>2
  <2>10. CASE ParentDone
    BY <2>10 DEF ParentDone
  <2>11. CASE UNCHANGED vars
    BY <2>11 DEF vars
  <2> QED BY <2>1, <2>2, <2>3, <2>4, <2>5, <2>6, <2>7, <2>8, <2>9, <2>10, <2>11
          DEF Next, WorkerStep, MainStep, Terminated
<1> QED BY <1>1, <1>2, PTL DEF Spec

-----------------------------------------------------------------------------
\* While the caller collects, whoever has cancelled, or is about to, has left
\* its error in errs, and nobody but the caller takes it out.
ErrorWaits ==
    /\ main # "returned" =>
          /\ cancelled => errs = 1
          /\ \A w \in Workers : worker[w] = "failing" => errs = 1
    /\ main = "stopping" => CtxDone
    /\ err = "context" => parentDone

\* A failure is never reported as the caller's own cancellation.
THEOREM FailureNotMasked == Spec => []ErrorNotMasked
<1>1. Init => ErrorWaits
  BY DEF Init, ErrorWaits
<1>2. TypeOK /\ ErrorWaits /\ [Next]_vars => ErrorWaits'
  <2> SUFFICES ASSUME TypeOK, ErrorWaits, [Next]_vars PROVE ErrorWaits'
    OBVIOUS
  <2> USE DEF TypeOK, ErrorWaits, CtxDone
  <2>1. ASSUME NEW w \in Workers, Send(w) \/ GiveUp(w) PROVE ErrorWaits'
    BY <2>1 DEF Send, GiveUp
  <2>2. ASSUME NEW w \in Workers, Fail(w) PROVE ErrorWaits'
    BY <2>2 DEF Fail
  <2>3. ASSUME NEW w \in Workers, FailCancel(w) PROVE ErrorWaits'
    BY <2>3 DEF FailCancel
  <2>4. CASE Close
    BY <2>4 DEF Close
  <2>5. CASE Collect
    BY <2>5 DEF Collect
  <2>6. CASE CollectClosed
    BY <2>6 DEF CollectClosed, Return
  <2>7. CASE CollectError
    BY <2>7 DEF CollectError, Return
  <2>8. CASE CollectDone
    BY <2>8 DEF CollectDone
  \* The second look at errs finds what a cancelling worker has left.
  <2>9. CASE Stop
    <3>1. CASE errs > 0
      BY <2>9, <3>1 DEF Stop, Return
    <3>2. CASE errs = 0
      BY <2>9, <3>2 DEF Stop, Return
    <3> QED BY <3>1, <3>2
  <2>10. CASE ParentDone
    BY <2>10 DEF ParentDone
  <2>11. CASE UNCHANGED vars
    BY <2>11 DEF vars
  <2> QED BY <2>1, <2>2, <2>3, <2>4, <2>5, <2>6, <2>7, <2>8, <2>9, <2>10, <2>11
          DEF Next, WorkerStep, MainStep, Terminated
<1>3. ErrorWaits => ErrorNotMasked
  BY DEF ErrorWaits, ErrorNotMasked
<1> QED BY <1>1, <1>2, <1>3, TypeCorrect, PTL DEF Spec

-----------------------------------------------------------------------------
\* In a run that nobody disturbs no worker fails or gives up, so the value of
\* each worker that is done is in the channel or collected; and the channel is
\* closed only when they all are done.
NothingLost ==
    /\ closed => \A w \in Workers : worker[w] = "done"
    /\ failAt = {} /\ ~parentDone =>
          /\ main # "returned" => ~cancelled
          /\ main # "stopping"
          /\ main # "returned" =>
                \A w \in Workers : /\ worker[w] # "failing"
                                   /\ worker[w] = "done" => w \in results \cup out
          /\ main # "returned" => err = "none"
          /\ err = "nil" => out = Workers

\* A fan-out that nothing disturbs returns every value.
THEOREM CleanRunIsComplete == Spec => []CleanRunComplete
<1>1. Init => NothingLost
  BY DEF Init, NothingLost
<1>2. TypeOK /\ NothingLost /\ [Next]_vars => NothingLost'
  <2> SUFFICES ASSUME TypeOK, NothingLost, [Next]_vars PROVE NothingLost'
    OBVIOUS
  <2> USE DEF TypeOK, NothingLost
  <2>1. ASSUME NEW w \in Workers, Send(w) PROVE NothingLost'
    BY <2>1 DEF Send
  <2>2. ASSUME NEW w \in Workers, GiveUp(w) PROVE NothingLost'
    BY <2>2 DEF GiveUp, CtxDone
  <2>3. ASSUME NEW w \in Workers, Fail(w) PROVE NothingLost'
    BY <2>3 DEF Fail
  <2>4. ASSUME NEW w \in Workers, FailCancel(w) PROVE NothingLost'
    BY <2>4 DEF FailCancel
  <2>5. CASE Close
    BY <2>5 DEF Close
  <2>6. CASE Collect
    BY <2>6 DEF Collect
  <2>7. CASE CollectClosed
    BY <2>7 DEF CollectClosed, Return
  <2>8. CASE CollectError
    BY <2>8 DEF CollectError, Return
  <2>9. CASE CollectDone
    BY <2>9 DEF CollectDone, CtxDone
  <2>10. CASE Stop
    BY <2>10 DEF Stop, Return
  <2>11. CASE ParentDone
    BY <2>11 DEF ParentDone
  <2>12. CASE UNCHANGED vars
    BY <2>12 DEF vars
  <2> QED BY <2>1, <2>2, <2>3, <2>4, <2>5, <2>6, <2>7, <2>8, <2>9, <2>10, <2>11, <2>12
          DEF Next, WorkerStep, MainStep, Terminated
<1>3. NothingLost => CleanRunComplete
  BY DEF NothingLost, CleanRunComplete
<1> QED BY <1>1, <1>2, <1>3, TypeCorrect, PTL DEF Spec

-----------------------------------------------------------------------------
\* A part of Flow that the step of another part leaves alone.
LEMMA PartSteps ==
    ASSUME [FlowNext]_flowVars
    PROVE  /\ AttemptStep \/ UNCHANGED attempts
           /\ EventStep \/ UNCHANGED events
           /\ BuildStep \/ UNCHANGED builds
           /\ RequestStep \/ UNCHANGED requests
BY DEF FlowNext, flowVars

\* Attempts: only tries that succeeded are about to be committed, version 2 is
\* always done, and whoever has saved one finds nothing older from then on.
AttemptInv ==
    /\ attempt \in Attempt /\ retry \in [Retriers -> Retry] /\ finish \in [Finishers -> Finish]
    /\ attempt.version = 2 => attempt.state = "done"
    /\ attempt.committed => attempt.version \in succeeded
    /\ \A r \in Retriers :
          /\ retry[r].at = "saving" => retry[r].try \in succeeded
          /\ retry[r].at = "reading" => attempt.version >= retry[r].try
          /\ retry[r].at = "nil" => retry[r].seen.version >= retry[r].try
    /\ \A f \in Finishers :
          /\ finish[f].at \in {"late", "reading"} => attempt.version = 2
          /\ finish[f].at = "returned" =>
                finish[f].seen.version = 2 /\ finish[f].seen.state = "done"

\* What a save does to the stored attempt.
LEMMA SaveKeepsNewest ==
    ASSUME attempt \in Attempt, attempt.version = 2 => attempt.state = "done",
           NEW next \in Attempt, next.version = 2 => next.state = "done", SaveAttempt(next)
    PROVE  /\ attempt' \in Attempt /\ attempt' \in {attempt, next}
           /\ attempt'.version = 2 => attempt'.state = "done"
           /\ attempt'.version >= attempt.version /\ attempt'.version >= next.version
<1>1. attempt.version \in 0 .. 2 /\ next.version \in 0 .. 2
    BY DEF Attempt, Versions
<1>2. NoAttempt.version = 0
    BY DEF NoAttempt
<1> QED BY <1>1, <1>2 DEF SaveAttempt, CanReplace

LEMMA NothingYet ==
    /\ NoAttempt \in Attempt /\ NoAttempt.version = 0 /\ ~NoAttempt.committed
    /\ NoRetry \in Retry /\ NoRetry.at = "idle" /\ NoRetry.try = 1
    /\ NoFinish \in Finish /\ NoFinish.at = "idle"
<1>1. NoAttempt \in Attempt /\ NoAttempt.version = 0 /\ ~NoAttempt.committed
    BY DEF NoAttempt, Attempt, Versions
<1>2. NoRetry \in Retry /\ NoRetry.at = "idle" /\ NoRetry.try = 1
    BY <1>1 DEF NoRetry, Retry
<1>3. NoFinish \in Finish /\ NoFinish.at = "idle"
    BY <1>1 DEF NoFinish, Finish
<1> QED BY <1>1, <1>2, <1>3

\* The attempts and events that are saved.
AttemptOf(v, state, committed) == [version |-> v, state |-> state, committed |-> committed]
EventOf(v, status) == [version |-> v, status |-> status]

LEMMA SavedFields ==
    ASSUME NEW v \in 1 .. 2
    PROVE  /\ AttemptOf(v, "done", TRUE) \in Attempt /\ AttemptOf(v, "done", TRUE).version = v
           /\ AttemptOf(v, "done", TRUE).state = "done"
           /\ EventOf(v, "committed") \in Event /\ EventOf(v, "committed").version = v
           /\ EventOf(v, "committed").status = "committed"
BY DEF AttemptOf, EventOf, Attempt, Event, Versions

LEMMA FixedFields ==
    /\ AttemptOf(2, "done", FALSE) \in Attempt /\ AttemptOf(2, "done", FALSE).version = 2
    /\ AttemptOf(2, "done", FALSE).state = "done" /\ ~AttemptOf(2, "done", FALSE).committed
    /\ AttemptOf(1, "running", FALSE) \in Attempt
    /\ AttemptOf(1, "running", FALSE).version = 1 /\ AttemptOf(1, "running", FALSE).version # 2
    /\ ~AttemptOf(1, "running", FALSE).committed
    /\ EventOf(1, "pending") \in Event /\ EventOf(1, "pending").version = 1
BY DEF AttemptOf, EventOf, Attempt, Event, Versions

LEMMA AttemptInit == FlowInit => AttemptInv
BY NothingYet DEF FlowInit, InitAttempts, AttemptInv

LEMMA AttemptKept == AttemptInv /\ (AttemptStep \/ UNCHANGED attempts) => AttemptInv'
<1> SUFFICES ASSUME AttemptInv, AttemptStep \/ UNCHANGED attempts PROVE AttemptInv'
    OBVIOUS
<1> USE DEF AttemptInv
<1>0. attempt.version \in 0 .. 2
    BY DEF Attempt, Versions
<1>1. CASE UNCHANGED attempts
    BY <1>1 DEF attempts
<1>2. ASSUME NEW r \in Retriers, StartRetry(r) PROVE AttemptInv'
    BY <1>2 DEF StartRetry, Retry
<1>3. ASSUME NEW r \in Retriers, CallSucceeds(r) PROVE AttemptInv'
    BY <1>3 DEF CallSucceeds, Retry
<1>4. ASSUME NEW r \in Retriers, CallFails(r) PROVE AttemptInv'
    <2>1. CASE retry' = [retry EXCEPT ![r].try = 2]
        BY <1>4, <2>1 DEF CallFails, Retry
    <2>2. CASE retry' = [retry EXCEPT ![r].at = "failed"]
        BY <1>4, <2>2 DEF CallFails, Retry
    <2> QED BY <1>4, <2>1, <2>2 DEF CallFails
<1>5. ASSUME NEW r \in Retriers, SaveDone(r) PROVE AttemptInv'
    <2> DEFINE next == AttemptOf(retry[r].try, "done", TRUE)
    <2>1. next \in Attempt /\ next.state = "done" /\ next.version = retry[r].try
          /\ next.version \in succeeded
        <3>1. retry[r].at = "saving" /\ retry[r].try \in 1 .. 2
            BY <1>5 DEF SaveDone, Retry
        <3> QED BY <3>1, SavedFields
    <2>2. SaveAttempt(next) /\ UNCHANGED <<finish, succeeded>>
          /\ retry' = [retry EXCEPT ![r].at = "reading"]
        BY <1>5 DEF SaveDone, AttemptOf
    <2> HIDE DEF next
    <2>3. /\ attempt' \in Attempt /\ attempt' \in {attempt, next}
          /\ attempt'.version = 2 => attempt'.state = "done"
          /\ attempt'.version >= attempt.version /\ attempt'.version >= next.version
        BY <2>1, <2>2, SaveKeepsNewest
    <2>4. attempt'.version \in 0 .. 2
        BY <2>3 DEF Attempt, Versions
    <2>5. \A p \in Retriers : retry[p].try \in 1 .. 2
        BY DEF Retry
    <2>6. retry' \in [Retriers -> Retry]
        BY <2>2 DEF Retry
    <2>7. attempt'.committed => attempt'.version \in succeeded'
        BY <2>1, <2>2, <2>3
    <2>8. ASSUME NEW p \in Retriers PROVE
              /\ retry'[p].at = "saving" => retry'[p].try \in succeeded'
              /\ retry'[p].at = "reading" => attempt'.version >= retry'[p].try
              /\ retry'[p].at = "nil" => retry'[p].seen.version >= retry'[p].try
        BY <1>0, <2>1, <2>2, <2>3, <2>4, <2>5
    <2>9. ASSUME NEW f \in Finishers, finish[f].at \in {"late", "reading"}
          PROVE  attempt'.version = 2
        BY <1>0, <2>3, <2>4, <2>9
    <2> QED BY <2>2, <2>3, <2>6, <2>7, <2>8, <2>9
<1>6. ASSUME NEW r \in Retriers, ReadAttempt(r) PROVE AttemptInv'
    BY <1>6 DEF ReadAttempt, Retry
<1>7. ASSUME NEW r \in Retriers, RetryReturns(r) PROVE AttemptInv'
    <2>1. retry' = [retry EXCEPT ![r] = NoRetry] /\ UNCHANGED <<attempt, finish, succeeded>>
        BY <1>7 DEF RetryReturns
    <2>2. retry' \in [Retriers -> Retry]
        BY <2>1, NothingYet
    <2> QED BY <2>1, <2>2, NothingYet
\* The three saves of VersionSequence.
<1>8. ASSUME NEW f \in Finishers, NEW next \in Attempt, SaveAttempt(next),
             ~next.committed, next.version = 2 => next.state = "done",
             NEW where \in {"retrying", "late", "reading"}, UNCHANGED <<retry, succeeded>>,
             finish' = [finish EXCEPT ![f].at = where],
             where \in {"late", "reading"} => next.version = 2 \/ attempt.version = 2
      PROVE  AttemptInv'
    <2>1. /\ attempt' \in Attempt /\ attempt' \in {attempt, next}
          /\ attempt'.version = 2 => attempt'.state = "done"
          /\ attempt'.version >= attempt.version /\ attempt'.version >= next.version
        BY <1>8, SaveKeepsNewest
    <2>2. attempt'.version \in 0 .. 2 /\ next.version \in 0 .. 2
        BY <2>1 DEF Attempt, Versions
    <2>3. attempt.version = 2 \/ next.version = 2 => attempt'.version = 2
        BY <2>1, <2>2
    <2>4. finish' \in [Finishers -> Finish]
        BY <1>8 DEF Finish
    <2>5. attempt'.committed => attempt'.version \in succeeded'
        BY <1>8, <2>1
    <2>6. ASSUME NEW r \in Retriers PROVE
              /\ retry'[r].at = "saving" => retry'[r].try \in succeeded'
              /\ retry'[r].at = "reading" => attempt'.version >= retry'[r].try
              /\ retry'[r].at = "nil" => retry'[r].seen.version >= retry'[r].try
        <3>1. retry[r].try \in 1 .. 2
            BY DEF Retry
        <3> QED BY <1>0, <1>8, <2>1, <2>2, <3>1
    <2>7. ASSUME NEW g \in Finishers PROVE
              /\ finish'[g].at \in {"late", "reading"} => attempt'.version = 2
              /\ finish'[g].at = "returned" =>
                    finish'[g].seen.version = 2 /\ finish'[g].seen.state = "done"
        <3>1. CASE g = f
            <4>1. finish'[g].at = where
                BY <1>8, <3>1 DEF Finish
            <4> QED BY <1>8, <2>3, <4>1
        <3>2. CASE g # f
            <4>1. finish'[g] = finish[g]
                BY <1>8, <3>2
            <4> QED BY <2>3, <4>1
        <3> QED BY <3>1, <3>2
    <2> QED BY <1>8, <2>1, <2>4, <2>5, <2>6, <2>7
<1>9. ASSUME NEW f \in Finishers, FinishFirst(f) PROVE AttemptInv'
    <2> DEFINE next == AttemptOf(1, "running", FALSE)
    <2>1. next \in Attempt /\ next.version = 1 /\ next.version # 2 /\ ~next.committed
        BY FixedFields
    <2>2. /\ SaveAttempt(next) /\ UNCHANGED <<retry, succeeded>>
          /\ finish' = [finish EXCEPT ![f].at = "retrying"]
        BY <1>9 DEF FinishFirst, AttemptOf
    <2> HIDE DEF next, AttemptInv
    <2> QED BY <1>8, <2>1, <2>2
<1>10. ASSUME NEW f \in Finishers, FinishRetry(f) PROVE AttemptInv'
    <2> DEFINE next == AttemptOf(2, "done", FALSE)
    <2>1. next \in Attempt /\ next.version = 2 /\ next.state = "done" /\ ~next.committed
        BY FixedFields
    <2>2. /\ SaveAttempt(next) /\ UNCHANGED <<retry, succeeded>>
          /\ finish' = [finish EXCEPT ![f].at = "late"]
        BY <1>10 DEF FinishRetry, AttemptOf
    <2> HIDE DEF next, AttemptInv
    <2> QED BY <1>8, <2>1, <2>2
<1>11. ASSUME NEW f \in Finishers, FinishLate(f) PROVE AttemptInv'
    <2> DEFINE next == AttemptOf(1, "running", FALSE)
    <2>1. next \in Attempt /\ next.version = 1 /\ next.version # 2 /\ ~next.committed
        BY FixedFields
    <2>2. /\ SaveAttempt(next) /\ UNCHANGED <<retry, succeeded>>
          /\ finish' = [finish EXCEPT ![f].at = "reading"] /\ finish[f].at = "late"
        BY <1>11 DEF FinishLate, AttemptOf
    <2>3. attempt.version = 2
        BY <2>2
    <2> HIDE DEF next, AttemptInv
    <2> QED BY <1>8, <2>1, <2>2, <2>3
<1>12. ASSUME NEW f \in Finishers, ReadFinished(f) PROVE AttemptInv'
    BY <1>12 DEF ReadFinished, Finish
<1>13. ASSUME NEW f \in Finishers, FinishReturns(f) PROVE AttemptInv'
    <2>1. finish' = [finish EXCEPT ![f] = NoFinish] /\ UNCHANGED <<attempt, retry, succeeded>>
        BY <1>13 DEF FinishReturns
    <2>2. finish' \in [Finishers -> Finish]
        BY <2>1, NothingYet
    <2> QED BY <2>1, <2>2, NothingYet
<1> QED BY <1>1, <1>2, <1>3, <1>4, <1>5, <1>6, <1>7, <1>9, <1>10, <1>11, <1>12, <1>13
        DEF AttemptStep

-----------------------------------------------------------------------------
\* Events: version 2 is always a committed one, and once saved it stays.
EventInv ==
    /\ event \in Event /\ publish \in [Publishers -> Publish]
    /\ event.version = 2 => event.status = "committed"
    /\ \A p \in Publishers :
          /\ (publish[p].at \in {"pending", "reading"} /\ publish[p].committed = 2) =>
                event.version = 2
          /\ publish[p].at \in {"idle", "publishing", "saving"} => publish[p].committed = 0
          /\ (publish[p].at = "returned" /\ publish[p].committed = 2) =>
                publish[p].seen = [version |-> 2, status |-> "committed"]

LEMMA NothingPublished ==
    /\ NoEvent \in Event /\ NoEvent.version = 0
    /\ NoPublish \in Publish /\ NoPublish.at = "idle" /\ NoPublish.committed = 0
<1>1. NoEvent \in Event /\ NoEvent.version = 0
    BY DEF NoEvent, Event, Versions
<1>2. NoPublish \in Publish /\ NoPublish.at = "idle" /\ NoPublish.committed = 0
    BY <1>1 DEF NoPublish, Publish, Versions
<1> QED BY <1>1, <1>2

LEMMA EventInit == FlowInit => EventInv
BY NothingPublished DEF FlowInit, InitEvents, EventInv

LEMMA EventKept == EventInv /\ (EventStep \/ UNCHANGED events) => EventInv'
<1> SUFFICES ASSUME EventInv, EventStep \/ UNCHANGED events PROVE EventInv'
    OBVIOUS
<1> USE DEF EventInv
<1>1. CASE UNCHANGED events
    BY <1>1 DEF events
<1>2. ASSUME NEW p \in Publishers, StartPublish(p) \/ PublishSucceeds(p) PROVE EventInv'
    BY <1>2 DEF StartPublish, PublishSucceeds, Publish
<1>3. ASSUME NEW p \in Publishers, PublishFails(p) PROVE EventInv'
    BY <1>3 DEF PublishFails, Publish
<1>4. ASSUME NEW p \in Publishers, SaveCommitted(p) PROVE EventInv'
    <2> DEFINE next == EventOf(publish[p].try, "committed")
    <2>1. next \in Event /\ next.version = publish[p].try /\ next.status = "committed"
          /\ publish[p].try \in 1 .. 2
        <3>1. publish[p].try \in 1 .. 2
            BY DEF Publish
        <3> QED BY <3>1, SavedFields
    <2>2. /\ publish[p].at = "saving"
          /\ event' = IF next.version < event.version THEN event ELSE next
          /\ publish' = [publish EXCEPT ![p].at = "pending", ![p].committed = publish[p].try]
        BY <1>4 DEF SaveCommitted, SaveEvent, EventOf
    <2> HIDE DEF next
    <2>3. event' \in Event /\ event' \in {event, next} /\ publish' \in [Publishers -> Publish]
        BY <2>1, <2>2 DEF Publish
    <2>4. event'.version = 2 => event'.status = "committed"
        BY <2>1, <2>3
    <2>5. event.version = 2 \/ publish[p].try = 2 => event'.version = 2
        <3>1. event.version \in 0 .. 2
            BY DEF Event, Versions
        <3> QED BY <2>1, <2>2, <3>1
    <2>6. publish'[p].at = "pending" /\ publish'[p].committed = publish[p].try
        BY <2>2 DEF Publish
    <2>7. \A o \in Publishers \ {p} : publish'[o] = publish[o]
        BY <2>2
    <2> QED BY <2>3, <2>4, <2>5, <2>6, <2>7
<1>5. ASSUME NEW p \in Publishers, SavePending(p) PROVE EventInv'
    <2> DEFINE next == EventOf(1, "pending")
    <2>1. next \in Event /\ next.version = 1
        BY FixedFields
    <2>2. /\ publish[p].at = "pending"
          /\ event' = IF next.version < event.version THEN event ELSE next
          /\ publish' = [publish EXCEPT ![p].at = "reading"]
        BY <1>5 DEF SavePending, SaveEvent, EventOf
    <2> HIDE DEF next
    <2>3. event' \in Event /\ event' \in {event, next} /\ publish' \in [Publishers -> Publish]
        BY <2>1, <2>2 DEF Publish
    <2>4. event.version = 2 => event'.version = 2
        BY <2>1, <2>2
    <2>5. event'.version = 2 => event'.status = "committed"
        BY <2>1, <2>3
    <2>6. publish'[p].at = "reading" /\ publish'[p].committed = publish[p].committed
        BY <2>2 DEF Publish
    <2>7. \A o \in Publishers \ {p} : publish'[o] = publish[o]
        BY <2>2
    <2> QED BY <2>2, <2>3, <2>4, <2>5, <2>6, <2>7
<1>6. ASSUME NEW p \in Publishers, ReadEvent(p) PROVE EventInv'
    <2>1. /\ publish[p].at = "reading" /\ event' = event
          /\ publish' = [publish EXCEPT ![p].at = "returned", ![p].seen = event]
        BY <1>6 DEF ReadEvent
    <2>2. publish' \in [Publishers -> Publish]
        BY <2>1 DEF Publish
    <2>3. /\ publish'[p].at = "returned" /\ publish'[p].seen = event
          /\ publish'[p].committed = publish[p].committed
        BY <2>1 DEF Publish
    <2>4. publish[p].committed = 2 => event = [version |-> 2, status |-> "committed"]
        BY <2>1 DEF Event
    <2>5. \A o \in Publishers \ {p} : publish'[o] = publish[o]
        BY <2>1
    <2> QED BY <2>1, <2>2, <2>3, <2>4, <2>5
<1>7. ASSUME NEW p \in Publishers, PublishReturns(p) PROVE EventInv'
    <2>1. publish' = [publish EXCEPT ![p] = NoPublish] /\ event' = event
        BY <1>7 DEF PublishReturns
    <2>2. publish' \in [Publishers -> Publish]
        BY <2>1, NothingPublished
    <2> QED BY <2>1, <2>2, NothingPublished
<1> QED BY <1>1, <1>2, <1>3, <1>4, <1>5, <1>6, <1>7 DEF EventStep

\* Whatever else VersionSequence, RetrySequence and PublishSequence (coordinator.go)
\* save under a key at the same time, what one of them reads at its end is not older
\* than what it saved.
THEOREM SavesAreSeen == FlowSpec => []OwnSaveSeen
<1>1. AttemptInv /\ EventInv /\ [FlowNext]_flowVars => AttemptInv' /\ EventInv'
    BY PartSteps, AttemptKept, EventKept
<1>2. AttemptInv /\ EventInv => OwnSaveSeen
    BY DEF AttemptInv, EventInv, OwnSaveSeen
<1> QED BY AttemptInit, EventInit, <1>1, <1>2, PTL DEF FlowSpec

-----------------------------------------------------------------------------
\* Builds: what a builder works on is its own, and complete when it is ready.
BuildInv ==
    /\ DOMAIN working = Builders /\ DOMAIN building = Builders
    /\ \A b \in Builders :
          /\ building[b] \in {"idle", "building", "ready"}
          /\ building[b] = "ready" => working[b] = {b} \X Fields
    /\ build = {} \/ \E b \in Builders : build = {b} \X Fields

LEMMA BuildInit == FlowInit => BuildInv
BY DEF FlowInit, InitBuilds, BuildInv

LEMMA BuildKept == BuildInv /\ (BuildStep \/ UNCHANGED builds) => BuildInv'
<1> SUFFICES ASSUME BuildInv, BuildStep \/ UNCHANGED builds PROVE BuildInv'
    OBVIOUS
<1> USE DEF BuildInv
<1>1. CASE UNCHANGED builds
    BY <1>1 DEF builds
<1>2. ASSUME NEW b \in Builders, StartBuild(b) \/ Built(b) \/ Panic(b) PROVE BuildInv'
    BY <1>2 DEF StartBuild, Built, Panic
<1>3. ASSUME NEW b \in Builders, PublishBuild(b) PROVE BuildInv'
    BY <1>3 DEF PublishBuild
<1>4. ASSUME NEW b \in Builders, NEW field \in Fields, FillField(b, field) PROVE BuildInv'
    BY <1>4 DEF FillField
<1> QED BY <1>1, <1>2, <1>3, <1>4 DEF BuildStep

\* A call rejected or exhausted commits no attempt (ExecuteWithRetry, workflows.go),
\* and a panic publishes no part of a build (BuildSafely).
THEOREM HalfDoneIsDropped == FlowSpec => []NothingHalfDoneKept
<1>1. /\ AttemptInv /\ BuildInv /\ [FlowNext]_flowVars => AttemptInv' /\ BuildInv'
    BY PartSteps, AttemptKept, BuildKept
<1>2. AttemptInv /\ BuildInv => NothingHalfDoneKept
    BY DEF AttemptInv, BuildInv, NothingHalfDoneKept
<1> QED BY AttemptInit, BuildInit, <1>1, <1>2, PTL DEF FlowSpec

-----------------------------------------------------------------------------
\* Requests: whoever is not idle has its object to itself, and has written to it
\* what its place says.
Sole(c) ==
    place[c] # "idle" =>
        /\ held[c] \notin pool
        /\ \A d \in Callers \ {c} : place[d] # "idle" => held[d] # held[c]

Written(c) ==
    /\ place[c] \in {"set tenant", "add headers"} => headers[held[c]] = {}
    /\ place[c] = "holding" => headers[held[c]] = {c}
    /\ place[c] \in {"add headers", "holding"} => tenant[held[c]] = c

RequestInv ==
    /\ pool \in SUBSET Objects /\ DOMAIN tenant = Objects /\ DOMAIN headers = Objects
    /\ DOMAIN place = Callers /\ held \in [Callers -> Objects]
    /\ \A c \in Callers : Sole(c) /\ Written(c)

LEMMA RequestInit == FlowInit => RequestInv
<1>1. AnyObject \in Objects
    BY FlowAssumption DEF FlowAssumption, AnyObject
<1> QED BY <1>1 DEF FlowInit, InitRequests, RequestInv, Sole, Written

\* A caller that writes its object disturbs nobody else.
LEMMA WriteKept ==
    ASSUME RequestInv, NEW c \in Callers, place[c] # "idle", NEW to,
           place' = [place EXCEPT ![c] = to], UNCHANGED <<pool, held>>,
           DOMAIN tenant' = Objects, DOMAIN headers' = Objects,
           \A o \in Objects \ {held[c]} : tenant'[o] = tenant[o] /\ headers'[o] = headers[o],
           Written(c)'
    PROVE  RequestInv'
<1>1. DOMAIN place' = Callers /\ \A d \in Callers \ {c} : place'[d] = place[d]
    BY DEF RequestInv
<1>2. \A d \in Callers : Sole(d)'
    BY <1>1 DEF RequestInv, Sole
<1>3. ASSUME NEW d \in Callers \ {c} PROVE Written(d)'
    <2>1. place[d] # "idle" => held[d] # held[c]
        BY DEF RequestInv, Sole
    <2>2. Written(d) /\ held[d] \in Objects
        BY DEF RequestInv
    <2> QED BY <1>1, <2>1, <2>2 DEF Written
<1> QED BY <1>1, <1>2, <1>3 DEF RequestInv

\* Get hands out an object that nobody has.
LEMMA TakeKept ==
    ASSUME RequestInv, NEW c \in Callers, place[c] = "idle", NEW o \in Objects, o \notin Used,
           Take(c, o),
           DOMAIN tenant' = Objects, DOMAIN headers' = Objects,
           \A p \in Objects \ {o} : tenant'[p] = tenant[p] /\ headers'[p] = headers[p]
    PROVE  RequestInv'
<1>1. /\ place' = [place EXCEPT ![c] = "clear tenant"] /\ held' = [held EXCEPT ![c] = o]
      /\ pool' = pool \ {o}
    BY DEF Take
<1>2. \A d \in Callers : place[d] # "idle" => held[d] # o
    BY DEF Used
<1>3. /\ place'[c] = "clear tenant" /\ held'[c] = o
      /\ \A d \in Callers \ {c} : place'[d] = place[d] /\ held'[d] = held[d]
    BY <1>1 DEF RequestInv
<1>4. ASSUME NEW d \in Callers PROVE Sole(d)'
    <2>1. CASE d = c
        <3>1. held'[c] \notin pool'
            <4>1. held'[c] = o /\ o \notin pool'
                BY <1>1, <1>3
            <4> QED BY Zenon, <4>1
        <3>2. \A e \in Callers \ {c} : place'[e] # "idle" => held'[e] # held'[c]
            BY <1>2, <1>3
        <3> QED BY <2>1, <3>1, <3>2 DEF Sole
    <2>2. CASE d # c
        <3>1. place[d] # "idle" => held[d] \notin pool' /\ held[d] # o
            BY <1>1, <1>2 DEF RequestInv, Sole
        <3>2. place[d] # "idle" => \A e \in Callers \ {c, d} :
                  place[e] # "idle" => held[e] # held[d]
            BY DEF RequestInv, Sole
        <3> QED BY <1>3, <2>2, <3>1, <3>2 DEF Sole
    <2> QED BY <2>1, <2>2
<1>5. ASSUME NEW d \in Callers PROVE Written(d)'
    <2>1. CASE d = c
        BY <1>3, <2>1 DEF Written
    <2>2. CASE d # c
        <3>1. Written(d) /\ held[d] \in Objects /\ (place[d] # "idle" => held[d] # o)
            BY <1>2 DEF RequestInv
        <3> QED BY <1>3, <2>2, <3>1 DEF Written
    <2> QED BY <2>1, <2>2
<1> QED BY <1>1, <1>4, <1>5 DEF RequestInv

LEMMA RequestKept == RequestInv /\ (RequestStep \/ UNCHANGED requests) => RequestInv'
<1> SUFFICES ASSUME RequestInv, RequestStep \/ UNCHANGED requests PROVE RequestInv'
    OBVIOUS
<1>1. CASE UNCHANGED requests
    BY <1>1 DEF requests, RequestInv, Sole, Written
<1>2. CASE Drop
    BY <1>2 DEF Drop, RequestInv, Sole, Written
<1>3. ASSUME NEW c \in Callers, CallerStep(c) PROVE RequestInv'
    <2>0. held[c] \in Objects /\ Sole(c) /\ Written(c)
        BY DEF RequestInv
    <2>1. CASE GetPooled(c)
        <3>1. PICK o \in pool : Take(c, o)
            BY <2>1 DEF GetPooled
        <3>2. o \in Objects /\ o \notin Used
            BY DEF RequestInv, Sole, Used
        <3>3. place[c] = "idle" /\ UNCHANGED <<tenant, headers>>
            BY <2>1 DEF GetPooled
        <3>4. DOMAIN tenant' = Objects /\ DOMAIN headers' = Objects
            BY <3>3 DEF RequestInv
        <3> QED BY <3>1, <3>2, <3>3, <3>4, TakeKept
    <2>2. CASE GetNew(c)
        <3>1. PICK o \in Objects \ (pool \cup Used) :
                 /\ Take(c, o)
                 /\ tenant' = [tenant EXCEPT ![o] = Nobody]
                 /\ headers' = [headers EXCEPT ![o] = {}]
            BY <2>2 DEF GetNew
        <3>2. place[c] = "idle"
            BY <2>2 DEF GetNew
        <3>3. /\ DOMAIN tenant' = Objects /\ DOMAIN headers' = Objects
              /\ \A p \in Objects \ {o} : tenant'[p] = tenant[p] /\ headers'[p] = headers[p]
            BY <3>1 DEF RequestInv
        <3> QED BY <3>1, <3>2, <3>3, TakeKept
    <2>3. ASSUME NEW value, NEW to, place[c] # "idle", SetTenant(c, value, to),
                 \/ to = "clear headers"
                 \/ to = "drop headers"
                 \/ to = "add headers" /\ value = c /\ place[c] = "set tenant"
          PROVE  RequestInv'
        <3>1. /\ tenant' = [tenant EXCEPT ![held[c]] = value]
              /\ place' = [place EXCEPT ![c] = to] /\ UNCHANGED <<pool, headers, held>>
            BY <2>3 DEF SetTenant
        <3>2. /\ DOMAIN tenant' = Objects /\ DOMAIN headers' = Objects /\ place'[c] = to
              /\ tenant'[held[c]] = value
              /\ \A o \in Objects \ {held[c]} :
                    tenant'[o] = tenant[o] /\ headers'[o] = headers[o]
            BY <2>0, <3>1 DEF RequestInv
        <3>3. Written(c)'
            BY <2>0, <2>3, <3>1, <3>2 DEF Written
        <3> QED BY <2>3, <3>1, <3>2, <3>3, WriteKept
    <2>4. ASSUME NEW value, NEW to, place[c] # "idle", SetHeaders(c, value, to),
                 \/ to = "put"
                 \/ to = "set tenant" /\ value = {}
                 \/ to = "holding" /\ value = {c} /\ place[c] = "add headers"
          PROVE  RequestInv'
        <3>1. /\ headers' = [headers EXCEPT ![held[c]] = value]
              /\ place' = [place EXCEPT ![c] = to] /\ UNCHANGED <<pool, tenant, held>>
            BY <2>4 DEF SetHeaders
        <3>2. /\ DOMAIN tenant' = Objects /\ DOMAIN headers' = Objects /\ place'[c] = to
              /\ headers'[held[c]] = value
              /\ \A o \in Objects \ {held[c]} :
                    tenant'[o] = tenant[o] /\ headers'[o] = headers[o]
            BY <2>0, <3>1 DEF RequestInv
        <3>3. Written(c)'
            BY <2>0, <2>4, <3>1, <3>2 DEF Written
        <3> QED BY <2>4, <3>1, <3>2, <3>3, WriteKept
    <2>5. CASE ClearTenant(c) \/ FillTenant(c) \/ Release(c)
        <3>1. CASE ClearTenant(c)
            BY <2>3, <3>1 DEF ClearTenant
        <3>2. CASE FillTenant(c)
            <4>1. place[c] = "set tenant" /\ SetTenant(c, c, "add headers")
                BY <3>2 DEF FillTenant
            <4> QED BY <2>3, <4>1
        <3>3. CASE Release(c)
            BY <2>3, <3>3 DEF Release
        <3> QED BY <2>5, <3>1, <3>2, <3>3
    <2>6. CASE ClearHeaders(c) \/ DropHeaders(c)
        BY <2>4, <2>6 DEF ClearHeaders, DropHeaders
    <2>7. CASE AddHeaders(c)
        <3>1. place[c] = "add headers" /\ SetHeaders(c, headers[held[c]] \cup {c}, "holding")
            BY <2>7 DEF AddHeaders
        <3>2. headers[held[c]] \cup {c} = {c}
            BY <2>0, <3>1 DEF Written
        <3> QED BY <2>4, <3>1, <3>2
    <2>8. CASE Put(c)
        <3>1. /\ place[c] = "put" /\ pool' = pool \cup {held[c]}
              /\ place' = [place EXCEPT ![c] = "idle"]
              /\ held' = [held EXCEPT ![c] = AnyObject] /\ UNCHANGED <<tenant, headers>>
            BY <2>8 DEF Put
        <3>2. AnyObject \in Objects
            BY FlowAssumption DEF FlowAssumption, AnyObject
        <3>3. /\ place'[c] = "idle"
              /\ \A d \in Callers \ {c} : place'[d] = place[d] /\ held'[d] = held[d]
            BY <3>1 DEF RequestInv
        <3>4. \A d \in Callers : Sole(d)'
            BY <2>0, <3>1, <3>3 DEF RequestInv, Sole
        <3>5. \A d \in Callers : Written(d)'
            BY <3>1, <3>3 DEF RequestInv, Written
        <3> QED BY <2>0, <3>1, <3>2, <3>4, <3>5 DEF RequestInv
    <2> QED BY <1>3, <2>1, <2>2, <2>5, <2>6, <2>7, <2>8 DEF CallerStep
<1> QED BY <1>1, <1>2, <1>3 DEF RequestStep

\* However AcquireRequest and ReleaseRequest (workflows.go) of any number of callers
\* interleave, and whatever the pool drops, a caller finds in its request its own
\* tenant and headers and nobody else's.
THEOREM TenantsAreIsolated == FlowSpec => []TenantIsolation
<1>1. RequestInv /\ [FlowNext]_flowVars => RequestInv'
    BY PartSteps, RequestKept
<1>2. RequestInv => TenantIsolation
    BY DEF RequestInv, Written, TenantIsolation
<1> QED BY RequestInit, <1>1, <1>2, PTL DEF FlowSpec

-----------------------------------------------------------------------------
\* The types that the invariants of the parts leave out.
BuildTypes ==
    /\ build \in SUBSET (Builders \X Fields)
    /\ working \in [Builders -> SUBSET (Builders \X Fields)]
    /\ building \in [Builders -> {"idle", "building", "ready"}]

RequestTypes ==
    /\ tenant \in [Objects -> Callers \cup {Nobody}]
    /\ headers \in [Objects -> SUBSET Callers]
    /\ place \in [Callers -> Places]

LoopTypes == loop \in [Loops -> {"selecting", "calling", "returned"}] /\ done \in SUBSET Loops

OtherTypes == succeeded \in SUBSET (1 .. 2) /\ BuildTypes /\ RequestTypes /\ LoopTypes

LEMMA BuildTypesKept == BuildTypes /\ (BuildStep \/ UNCHANGED builds) => BuildTypes'
<1> SUFFICES ASSUME BuildTypes, BuildStep \/ UNCHANGED builds PROVE BuildTypes'
    OBVIOUS
<1> USE DEF BuildTypes
<1>1. CASE UNCHANGED builds
    BY <1>1 DEF builds
<1>2. ASSUME NEW b \in Builders, StartBuild(b) \/ Built(b) \/ Panic(b) \/ PublishBuild(b)
      PROVE  BuildTypes'
    BY <1>2 DEF StartBuild, Built, Panic, PublishBuild
<1>3. ASSUME NEW b \in Builders, NEW field \in Fields, FillField(b, field) PROVE BuildTypes'
    BY <1>3 DEF FillField
<1> QED BY <1>1, <1>2, <1>3 DEF BuildStep

LEMMA RequestTypesKept ==
    RequestTypes /\ RequestInv /\ (RequestStep \/ UNCHANGED requests) => RequestTypes'
<1> SUFFICES ASSUME RequestTypes, RequestInv, RequestStep \/ UNCHANGED requests
             PROVE  RequestTypes'
    OBVIOUS
<1> USE DEF RequestTypes, Places
<1>1. CASE Drop \/ UNCHANGED requests
    BY <1>1 DEF Drop, requests
<1>2. ASSUME NEW c \in Callers, CallerStep(c) PROVE RequestTypes'
    <2>1. held[c] \in Objects
        BY DEF RequestInv
    <2>2. CASE GetPooled(c) \/ GetNew(c)
        BY <2>2, ZenonT(40) DEF GetPooled, GetNew, Take
    <2> DEFINE WritesTenant == \E value \in Callers \cup {Nobody}, next \in Places :
                             SetTenant(c, value, next)
    <2>7. ASSUME WritesTenant PROVE RequestTypes'
        BY <2>1, <2>7, ZenonT(40) DEF SetTenant
    <2>8. ASSUME ClearTenant(c) \/ FillTenant(c) \/ Release(c) PROVE WritesTenant
        BY <2>8 DEF ClearTenant, FillTenant, Release
    <2> HIDE DEF WritesTenant
    <2>3. CASE ClearTenant(c) \/ FillTenant(c) \/ Release(c)
        BY <2>3, <2>7, <2>8
    <2>4. CASE ClearHeaders(c) \/ DropHeaders(c)
        BY <2>1, <2>4 DEF ClearHeaders, DropHeaders, SetHeaders
    <2>5. CASE AddHeaders(c)
        BY <2>1, <2>5 DEF AddHeaders, SetHeaders
    <2>6. CASE Put(c)
        BY <2>6 DEF Put
    <2> QED BY <1>2, <2>2, <2>3, <2>4, <2>5, <2>6 DEF CallerStep
<1> QED BY <1>1, <1>2 DEF RequestStep

LEMMA LoopTypesKept == LoopTypes /\ [FlowNext]_flowVars => LoopTypes'
BY DEF LoopTypes, FlowNext, flowVars, loops, LoopsEnded, LoopStep, ReturnDone, TakeTick,
       CallReturns, EndContext, LoopTo

LEMMA SucceededKept ==
    AttemptInv /\ succeeded \in SUBSET (1 .. 2) /\ (AttemptStep \/ UNCHANGED attempts)
      => succeeded' \in SUBSET (1 .. 2)
<1> SUFFICES ASSUME AttemptInv, succeeded \in SUBSET (1 .. 2), AttemptStep \/ UNCHANGED attempts
             PROVE  succeeded' \in SUBSET (1 .. 2)
    OBVIOUS
<1>1. ASSUME NEW r \in Retriers, CallSucceeds(r) PROVE succeeded' \in SUBSET (1 .. 2)
    BY <1>1 DEF CallSucceeds, AttemptInv, Retry
<1>2. ASSUME UNCHANGED succeeded PROVE succeeded' \in SUBSET (1 .. 2)
    BY <1>2
<1> QED BY <1>1, <1>2
        DEF AttemptStep, attempts, StartRetry, CallFails, SaveDone, ReadAttempt, RetryReturns,
            FinishFirst, FinishRetry, FinishLate, ReadFinished, FinishReturns

\* Every sequence is somewhere in its code, within its two tries, and what the
\* flow store and the pool hold is what a sequence may save there (workflows.go).
THEOREM FlowTypeCorrect == FlowSpec => []FlowTypeOK
<1>1. FlowInit => OtherTypes
    BY DEF FlowInit, InitAttempts, InitBuilds, InitRequests, InitLoops, OtherTypes, BuildTypes,
           RequestTypes, Places, LoopTypes
<1>2. AttemptInv /\ EventInv /\ RequestInv /\ OtherTypes /\ [FlowNext]_flowVars
        => AttemptInv' /\ EventInv' /\ RequestInv' /\ OtherTypes'
    BY PartSteps, AttemptKept, EventKept, RequestKept, SucceededKept, BuildTypesKept,
       RequestTypesKept, LoopTypesKept
    DEF OtherTypes
<1>3. AttemptInv /\ EventInv /\ RequestInv /\ OtherTypes => FlowTypeOK
    BY DEF AttemptInv, EventInv, RequestInv, OtherTypes, BuildTypes, RequestTypes, LoopTypes,
           FlowTypeOK
<1> QED BY AttemptInit, EventInit, RequestInit, <1>1, <1>2, <1>3, PTL DEF FlowSpec
=============================================================================
