-------------------------------- MODULE Fanout --------------------------------
(***************************************************************************)
(* Coordinator.Fanout (flowhandler/coordinator.go: 67-113): one goroutine per *)
(* value, a goroutine that closes results when they are all done, and the     *)
(* caller collecting.  At most one worker, failAt, fails: it puts an error     *)
(* into errs and then cancels the context the others watch.                   *)
(*                                                                           *)
(* results is kept as the set of values it holds: the order in which they     *)
(* come out does not matter here.                                            *)
(***************************************************************************)
EXTENDS Naturals, FiniteSets

CONSTANT Workers        \* one for each value

ASSUME WorkersAssumption == IsFiniteSet(Workers)

VARIABLES
    failAt,         \* the worker that fails, as a set of at most one
    worker,         \* where each worker is
    results,        \* values in the buffered channel
    closed,         \* results has been closed
    errs,           \* errors in the channel of capacity 1
    cancelled,      \* cancel() has been called
    parentDone,     \* the caller's own context is done
    main,           \* where the caller is
    out,            \* what it has collected
    err             \* what it returned

vars == <<failAt, worker, results, closed, errs, cancelled, parentDone, main, out, err>>

TypeOK ==
    /\ failAt \in SUBSET Workers
    /\ worker \in [Workers -> {"running", "failing", "done"}]
    /\ results \in SUBSET Workers
    /\ closed \in BOOLEAN
    /\ errs \in 0 .. 1
    /\ cancelled \in BOOLEAN /\ parentDone \in BOOLEAN
    /\ main \in {"collecting", "stopping", "returned"}
    /\ out \in SUBSET Workers
    /\ err \in {"none", "nil", "upstream", "context"}

Init ==
    /\ failAt \in {{}} \cup {{w} : w \in Workers}
    /\ worker = [w \in Workers |-> "running"]
    /\ results = {} /\ closed = FALSE
    /\ errs = 0
    /\ cancelled = FALSE /\ parentDone \in BOOLEAN
    /\ main = "collecting" /\ out = {} /\ err = "none"

CtxDone == cancelled \/ parentDone

-----------------------------------------------------------------------------
\* A worker's select: the buffer has room for every value, so sending is
\* always ready; a done context makes the other case ready too.
Send(w) ==
    /\ worker[w] = "running" /\ w \notin failAt
    /\ results' = results \cup {w}
    /\ worker' = [worker EXCEPT ![w] = "done"]
    /\ UNCHANGED <<failAt, closed, errs, cancelled, parentDone, main, out, err>>

GiveUp(w) ==
    /\ worker[w] = "running" /\ w \notin failAt
    /\ CtxDone
    /\ worker' = [worker EXCEPT ![w] = "done"]
    /\ UNCHANGED <<failAt, results, closed, errs, cancelled, parentDone, main, out, err>>

\* Faulty Fail, for the checks: cancels before it reports.
FailCancelling(w) ==
    /\ worker[w] = "running" /\ w \in failAt
    /\ cancelled' = TRUE
    /\ worker' = [worker EXCEPT ![w] = "failing"]
    /\ UNCHANGED <<failAt, results, closed, errs, parentDone, main, out, err>>

\* The failing worker reports, unless errs is full, and then cancels.
Fail(w) ==
    /\ worker[w] = "running" /\ w \in failAt
    /\ errs' = 1
    /\ worker' = [worker EXCEPT ![w] = "failing"]
    /\ UNCHANGED <<failAt, results, closed, cancelled, parentDone, main, out, err>>

FailCancel(w) ==
    /\ worker[w] = "failing"
    /\ cancelled' = TRUE
    /\ worker' = [worker EXCEPT ![w] = "done"]
    /\ UNCHANGED <<failAt, results, closed, errs, parentDone, main, out, err>>

\* Faulty Close, for the checks: does not wait for every worker.
CloseEarly ==
    /\ ~closed
    /\ \E w \in Workers : worker[w] = "done"
    /\ closed' = TRUE
    /\ UNCHANGED <<failAt, worker, results, errs, cancelled, parentDone, main, out, err>>

\* wg.Wait() and close(results).
Close ==
    /\ ~closed
    /\ \A w \in Workers : worker[w] = "done"
    /\ closed' = TRUE
    /\ UNCHANGED <<failAt, worker, results, errs, cancelled, parentDone, main, out, err>>

-----------------------------------------------------------------------------
\* Returning runs the deferred cancel.
Return(e) == main' = "returned" /\ err' = e /\ cancelled' = TRUE

\* The caller's select: any ready case may be taken.
Collect ==
    /\ main = "collecting"
    /\ \E w \in results : results' = results \ {w} /\ out' = out \cup {w}
    /\ UNCHANGED <<failAt, worker, closed, errs, cancelled, parentDone, main, err>>

\* Receiving from the closed channel ends the loop.
CollectClosed ==
    /\ main = "collecting" /\ closed /\ results = {}
    /\ Return("nil")
    /\ UNCHANGED <<failAt, worker, results, closed, errs, parentDone, out>>

\* A worker's error has arrived.
CollectError ==
    /\ main = "collecting" /\ errs > 0
    /\ errs' = errs - 1
    /\ Return("upstream")
    /\ UNCHANGED <<failAt, worker, results, closed, parentDone, out>>

\* The context is done: look for an error once more, without waiting.
CollectDone ==
    /\ main = "collecting" /\ CtxDone
    /\ main' = "stopping"
    /\ UNCHANGED <<failAt, worker, results, closed, errs, cancelled, parentDone, out, err>>

Stop ==
    /\ main = "stopping"
    /\ IF errs > 0
       THEN errs' = errs - 1 /\ Return("upstream")
       ELSE UNCHANGED errs /\ Return("context")
    /\ UNCHANGED <<failAt, worker, results, closed, parentDone, out>>

\* The caller's context may be done at any moment.
ParentDone ==
    /\ ~parentDone
    /\ parentDone' = TRUE
    /\ UNCHANGED <<failAt, worker, results, closed, errs, cancelled, main, out, err>>

WorkerStep(w) == Send(w) \/ GiveUp(w) \/ Fail(w) \/ FailCancel(w)

MainStep == Collect \/ CollectClosed \/ CollectError \/ CollectDone \/ Stop

\* All goroutines have ended.
Terminated == main = "returned" /\ closed /\ UNCHANGED vars

Next ==
    \/ \E w \in Workers : WorkerStep(w)
    \/ Close \/ MainStep \/ ParentDone \/ Terminated

Spec == Init /\ [][Next]_vars

\* Goroutines that can run are run.
Fairness ==
    /\ \A w \in Workers : WF_vars(WorkerStep(w))
    /\ WF_vars(Close) /\ WF_vars(MainStep)

FairSpec == Spec /\ Fairness

-----------------------------------------------------------------------------
\* A worker's failure cancels the context, but is never mistaken for a
\* cancellation by the caller: the context's error means the caller's own
\* context was done.
ErrorNotMasked == err = "context" => parentDone

\* With no failure and no cancellation nothing is dropped.
CleanRunComplete ==
    (err = "nil" /\ failAt = {} /\ ~parentDone) => out = Workers

\* TestFanoutErrorClosesLifecycle (coordinator_test.go:83) takes it that a
\* fan-out with a failing worker does not return a nil error.
FailureReported == (failAt # {} /\ ~parentDone) => err # "nil"
=============================================================================
