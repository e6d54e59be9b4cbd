-------------------------------- MODULE Export --------------------------------
(***************************************************************************)
(* Export and import of the configuration, while it changes.                  *)
(*                                                                           *)
(* ExportConfig takes one list after another, each under the store's lock but   *)
(* all at different moments, and hands out the shared objects: a route's fields  *)
(* are read last, when the answer is encoded.  ImportServices creates what it    *)
(* is sent one by one, as CreateService does, and goes on after an error.      *)
(* Apps and keys are to each other what services and routes are, and            *)
(* ImportRateLimitRules is to rules what ImportServices is to services.        *)
(***************************************************************************)
EXTENDS Naturals, Sequences

CONSTANTS
    Services, Rules, Routes,    \* ids, each created at most once (they are random)
    Names,          \* names of services
    BadNames,       \* those of them that Validate refuses
    Importers,      \* imports in flight at a time
    Lists           \* lists of names that may be imported

ASSUME ExportAssumption ==
    /\ Services # {} /\ Rules # {} /\ Names # {}
    /\ BadNames \subseteq Names /\ \A list \in Lists : list \in Seq(Names)

VARIABLES
    services,       \* services in the store
    name,           \* Service.Name
    rules,          \* rules in the store
    route,          \* ServiceID and RateLimitRuleID of the Route objects
    creating,       \* where the creation of each route is
    taken,          \* how many lists ExportConfig has taken
    lists,          \* the ids in each of them
    import,         \* what each import has been sent, and has yet to create
    \* What the properties watch.
    born,           \* services and rules that have been created
    gone,           \* those that have been deleted
    since,          \* services created since the export began
    rewritten,      \* routes that updates have written
    met             \* names in the store at some moment since each import began

configs == <<services, name, rules, route, creating, born, gone, rewritten>>
exports == <<taken, lists>>
exportVars == <<configs, exports, import, since, met>>

\* ExportConfig, with the apps and keys between them left out.
Order == <<"services", "routes", "rules">>

Import == [running : BOOLEAN, list : Seq(Names), rest : Seq(Names)]
NoImport == [running |-> FALSE, list |-> <<>>, rest |-> <<>>]

ExportTypeOK ==
    /\ services \in SUBSET Services /\ name \in [Services -> Names]
    /\ rules \in SUBSET Rules
    /\ route \in [Routes -> [service : Services, rule : Rules]]
    /\ creating \in [Routes -> {"none", "serviceFound", "ruleFound", "stored", "over"}]
    /\ taken \in 0 .. 3
    /\ lists \in [services : SUBSET Services, routes : SUBSET Routes, rules : SUBSET Rules]
    /\ import \in [Importers -> Import]
    /\ born \in SUBSET (Services \cup Rules) /\ gone \in SUBSET born
    /\ since \in SUBSET Services /\ rewritten \in SUBSET Routes
    /\ met \in [Importers -> SUBSET Names]

NoLists == [services |-> {}, routes |-> {}, rules |-> {}]

ExportInit ==
    /\ services = {} /\ name = [s \in Services |-> CHOOSE n \in Names : TRUE]
    /\ rules = {} /\ creating = [t \in Routes |-> "none"]
    /\ route = [t \in Routes |-> [service |-> CHOOSE s \in Services : TRUE,
                                  rule |-> CHOOSE r \in Rules : TRUE]]
    /\ taken = 0 /\ lists = NoLists
    /\ import = [p \in Importers |-> NoImport]
    /\ born = {} /\ gone = {} /\ since = {} /\ rewritten = {}
    /\ met = [p \in Importers |-> {}]

-----------------------------------------------------------------------------
\* Ghosts.
Meet ==
    met' = [p \in Importers |-> IF import'[p].running
                                THEN met[p] \cup {name'[s] : s \in services'} ELSE {}]

Creatable(n) == n \notin BadNames /\ \A s \in services : name[s] # n

\* CreateService, whose object is private until the store's lock is taken.
StoreService(s, n) ==
    /\ s \notin born /\ Creatable(n)
    /\ services' = services \cup {s} /\ name' = [name EXCEPT ![s] = n]
    /\ born' = born \cup {s} /\ since' = IF taken = 0 THEN {} ELSE since \cup {s}
    /\ UNCHANGED <<rules, route, creating, gone, rewritten>>

CreateService(s, n) == StoreService(s, n) /\ UNCHANGED <<exports, import>>

\* UpdateService writes the name, and then may refuse it.
UpdateService(s, n) ==
    /\ s \in services
    /\ name' = [name EXCEPT ![s] = n]
    /\ UNCHANGED <<services, rules, route, creating, born, gone, rewritten, exports, import, since>>

DeleteService(s) ==
    /\ s \in services
    /\ services' = services \ {s} /\ gone' = gone \cup {s}
    /\ UNCHANGED <<name, rules, route, creating, born, rewritten, exports, import, since>>

CreateRule(r) ==
    /\ r \notin born
    /\ rules' = rules \cup {r} /\ born' = born \cup {r}
    /\ UNCHANGED <<services, name, route, creating, gone, rewritten, exports, import, since>>

DeleteRule(r) ==
    /\ r \in rules
    /\ rules' = rules \ {r} /\ gone' = gone \cup {r}
    /\ UNCHANGED <<services, name, route, creating, born, rewritten, exports, import, since>>

\* CreateRoute looks the service up ...
FindService(t, s, r) ==
    /\ creating[t] = "none" /\ s \in services
    /\ route' = [route EXCEPT ![t] = [service |-> s, rule |-> r]]
    /\ creating' = [creating EXCEPT ![t] = "serviceFound"]
    /\ UNCHANGED <<services, name, rules, born, gone, rewritten, exports, import, since>>

\* ... then the rule, if the route has one (one that has none may do without) ...
FindRule(t) ==
    /\ creating[t] = "serviceFound"
    /\ creating' = [creating EXCEPT ![t] = IF route[t].rule \in rules THEN "ruleFound" ELSE "over"]
    /\ UNCHANGED <<services, name, rules, route, born, gone, rewritten, exports, import, since>>

\* ... and stores the route, unless its method and path are taken.
StoreRoute(t) ==
    /\ creating[t] = "ruleFound"
    /\ \E end \in {"stored", "over"} : creating' = [creating EXCEPT ![t] = end]
    /\ UNCHANGED <<services, name, rules, route, born, gone, rewritten, exports, import, since>>

DeleteRoute(t) ==
    /\ creating[t] = "stored"
    /\ creating' = [creating EXCEPT ![t] = "over"]
    /\ UNCHANGED <<services, name, rules, route, born, gone, rewritten, exports, import, since>>

\* UpdateRoute writes what it is sent, and then may refuse it; the route may
\* have been deleted since it was found.
UpdateRoute(t, s, r) ==
    /\ creating[t] \in {"stored", "over"}
    /\ route' = [route EXCEPT ![t] = [service |-> s, rule |-> r]]
    /\ rewritten' = rewritten \cup {t}
    /\ UNCHANGED <<services, name, rules, creating, born, gone, exports, import, since>>

-----------------------------------------------------------------------------
Stored == [services |-> services, routes |-> {t \in Routes : creating[t] = "stored"},
           rules |-> rules]

\* Faulty order, for the checks: rules before routes.
TakeRulesFirst ==
    /\ taken < 3
    /\ LET kind == <<"services", "rules", "routes">>[taken + 1]
       IN  lists' = [lists EXCEPT ![kind] = Stored[kind]]
    /\ taken' = taken + 1 /\ since' = IF taken = 0 THEN {} ELSE since
    /\ UNCHANGED <<configs, import>>

TakeList ==
    /\ taken < 3
    /\ LET kind == Order[taken + 1] IN lists' = [lists EXCEPT ![kind] = Stored[kind]]
    /\ taken' = taken + 1 /\ since' = IF taken = 0 THEN {} ELSE since
    /\ UNCHANGED <<configs, import>>

\* The lists have been encoded.
EndExport ==
    /\ taken = 3 /\ taken' = 0 /\ lists' = NoLists /\ since' = {}
    /\ UNCHANGED <<configs, import>>

StartImport(p, list) ==
    /\ ~import[p].running
    /\ import' = [import EXCEPT ![p] = [running |-> TRUE, list |-> list, rest |-> list]]
    /\ UNCHANGED <<configs, exports, since>>

Unfinished(p) == import[p].running /\ import[p].rest # <<>>

ImportCreates(p, s) ==
    /\ Unfinished(p)
    /\ StoreService(s, Head(import[p].rest))
    /\ import' = [import EXCEPT ![p].rest = Tail(@)]
    /\ UNCHANGED exports

\* Faulty import, for the checks: an error ends it.
ImportStops(p) ==
    /\ Unfinished(p) /\ ~Creatable(Head(import[p].rest))
    /\ import' = [import EXCEPT ![p].rest = <<>>]
    /\ UNCHANGED <<configs, exports, since>>

\* An error is added to the answer, and the import goes on.
ImportFails(p) ==
    /\ Unfinished(p) /\ ~Creatable(Head(import[p].rest))
    /\ import' = [import EXCEPT ![p].rest = Tail(@)]
    /\ UNCHANGED <<configs, exports, since>>

EndImport(p) ==
    /\ import[p].running /\ import[p].rest = <<>>
    /\ import' = [import EXCEPT ![p] = NoImport]
    /\ UNCHANGED <<configs, exports, since>>

ServiceStep ==
    \E s \in Services : DeleteService(s) \/ \E n \in Names : CreateService(s, n) \/ UpdateService(s, n)

RouteStep == \E t \in Routes :
    \/ FindRule(t) \/ StoreRoute(t) \/ DeleteRoute(t)
    \/ \E s \in Services, r \in Rules : FindService(t, s, r) \/ UpdateRoute(t, s, r)

ImportStep == \E p \in Importers :
    \/ \E list \in Lists : StartImport(p, list)
    \/ ImportFails(p) \/ EndImport(p)
    \/ \E s \in Services : ImportCreates(p, s)

ExportNext ==
    /\ \/ ServiceStep \/ RouteStep \/ TakeList \/ EndExport \/ ImportStep
       \/ \E r \in Rules : CreateRule(r) \/ DeleteRule(r)
    /\ Meet

ExportSpec == ExportInit /\ [][ExportNext]_exportVars

-----------------------------------------------------------------------------
\* An exported route that no update has written refers to an exported service,
\* or to one that was created after the services were listed, or is deleted;
\* and to an exported rule, or one that is deleted: rules are listed last.
ExportClosed ==
    taken = 3 => \A t \in lists.routes \ rewritten :
        /\ route[t].service \in lists.services \cup since \cup gone
        /\ route[t].rule \in lists.rules \cup gone

\* An import that has come to its end, whatever else was created, renamed or
\* deleted meanwhile, has passed over no name but illegal ones: each was in the
\* store at some moment, by this import or by another call.
ImportSettled ==
    \A p \in Importers :
        (import[p].running /\ import[p].rest = <<>>) =>
            {import[p].list[k] : k \in DOMAIN import[p].list} \ BadNames \subseteq met[p]
=============================================================================
