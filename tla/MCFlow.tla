-------------------------------- MODULE MCFlow --------------------------------
(***************************************************************************)
(* The whole flow coordinator for TLC: Fanout and the parts of Flow share no   *)
(* state, and each property is about one of them, so one is run at a time: any *)
(* two together would only multiply.                                          *)
(***************************************************************************)
EXTENDS Flow, Fanout

\* Fanout as it may start, with nobody failing.
Fresh ==
    /\ main = "collecting" /\ ~parentDone /\ ~cancelled /\ ~closed
    /\ failAt = {} /\ results = {} /\ out = {} /\ \A w \in Workers : worker[w] = "running"

OnePart ==
    \/ FlowInit
    \/ Fresh /\ InitEvents /\ InitBuilds /\ InitRequests /\ InitLoops
    \/ Fresh /\ InitAttempts /\ InitBuilds /\ InitRequests /\ InitLoops
    \/ Fresh /\ InitAttempts /\ InitEvents /\ InitRequests /\ InitLoops
    \/ Fresh /\ InitAttempts /\ InitEvents /\ InitBuilds /\ InitLoops
    \/ Fresh /\ InitAttempts /\ InitEvents /\ InitBuilds /\ InitRequests

allVars == <<flowVars, vars>>

Others == <<attempts, events, builds, requests, vars>>

CoordinatorInit == FlowInit /\ Init

\* The fairness of Fanout and of Flow's loops, for the one part that runs.
CoordinatorSpec ==
    /\ CoordinatorInit
    /\ [][ /\ (FlowNext /\ UNCHANGED vars) \/ (Next /\ UNCHANGED flowVars)
           /\ OnePart' ]_allVars
    /\ \A w \in Workers : WF_allVars(WorkerStep(w) /\ UNCHANGED flowVars /\ OnePart')
    /\ WF_allVars(Close /\ UNCHANGED flowVars /\ OnePart')
    /\ WF_allVars(MainStep /\ UNCHANGED flowVars /\ OnePart')
    /\ \A l \in Loops : /\ SF_allVars(ReturnDone(l) /\ UNCHANGED Others /\ OnePart')
                        /\ WF_allVars(LoopStep(l) /\ UNCHANGED Others /\ OnePart')

\* Every call of the coordinator that ought to end ends: a fan-out with all its
\* goroutines, and, once its context is done, a loop, however often its select
\* takes the ticker instead.
CallsEnd ==
    /\ ~Fresh ~> (main = "returned" /\ closed)
    /\ \A l \in Loops : l \in done ~> loop[l] = "returned"
=============================================================================
