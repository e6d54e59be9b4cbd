------------------------------ MODULE MCReports ------------------------------
(***************************************************************************)
(* What administrators read, for TLC: the access log with its report, and the  *)
(* configuration's export and import.  They share no state, nor do the walk of  *)
(* the log and the report, and each property is about one of them, so one is    *)
(* used at a time.                                                            *)
(*                                                                           *)
(* Pages of three entries and ints up to 7 make the page arithmetic wrap; three  *)
(* entries are enough to be listed, shifted and counted in any order.  Two       *)
(* services, one created while the other is exported.                          *)
(***************************************************************************)
EXTENDS Reports, Export, TLC

CONSTANTS n1, n2, blank

MCLists == {<<n1, blank, n2>>, <<n2>>}

Symmetry == Permutations(Services) \cup Permutations(Rules)

\* The log is read by a client that walks it, or for a report.
OneReader == walk = NoWalk \/ (unread = {} /\ traffic = NoTraffic)

ReadLog == ExportInit /\ Next /\ OneReader' /\ UNCHANGED exportVars

\* The configuration is exported, or imported while it changes otherwise.
OneCaller == taken = 0 \/ \A p \in Importers : import[p] = NoImport

Configure == Init /\ ExportNext /\ OneCaller' /\ UNCHANGED vars

\* An import stops when the model has no more ids: the program's do not run out.
OutOfIds == Services \subseteq born /\ UNCHANGED <<vars, exportVars>>

ReportsInit == Init /\ ExportInit

ReportsSpec ==
    ReportsInit /\ [][ReadLog \/ Configure \/ OutOfIds]_<<vars, exportVars>>
=============================================================================
