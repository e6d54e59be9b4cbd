------------------------------ MODULE MCRouting ------------------------------
(***************************************************************************)
(* Routing for TLC: a short and a long path that both cover what is asked for,  *)
(* one that ends in a slash and so does not, one with a space before it, and    *)
(* one that is not valid.  The service that the long one goes to has a path in  *)
(* its base URL.                                                              *)
(***************************************************************************)
EXTENDS Routing

CONSTANTS s1, s2, spaced2   \* the last is s2's id with a space before it

short == <<"", "a">>
slash == <<"", "a", "">>
long == <<"", "a", "x">>
spaced == <<" ", "a", "x">>
bad == <<"x">>

MCPaths == {short, slash, long, spaced, bad}
MCAsked == {[method |-> "GET", path |-> long]}

MCTrimSpace == [p \in Paths |-> IF p = spaced THEN long ELSE p]
MCToUpper == [m \in Methods |-> IF m = "get" THEN "GET" ELSE m]
MCTrimName == [s \in Services |-> IF s = spaced2 THEN s2 ELSE s]
MCChars == [p \in Paths |-> CASE p = short -> 2 [] p = slash -> 3 [] p = long -> 4
                              [] p = spaced -> 5 [] p = bad -> 1]
MCBasePath == [s \in Services |-> IF s = s1 THEN Empty ELSE <<"", "b">>]

\* One service needs a key, the other is open.
MCSent == [path : {short, slash}, method : {"GET"}, service : {s1}, auth : {TRUE},
           strip : {TRUE}]
          \cup [path : {spaced}, method : {"get"}, service : {spaced2}, auth : {FALSE},
                strip : {TRUE}]

\* Of what overlapping updates send, the keys matter.
MCSentKeys == [path : {short, bad}, method : {"get"}, service : {s1}, auth : {TRUE},
               strip : {FALSE}]
              \cup [path : {spaced}, method : {"", "get"}, service : {s1}, auth : {TRUE},
                    strip : {FALSE}]

\* Either one administrator's calls meet a request, or two administrators' calls
\* each other: requests write nothing that those read.
VARIABLE kind

Kinds == {"requests", "updates"}
SentIn == [k \in Kinds |-> IF k = "requests" THEN MCSent ELSE MCSentKeys]
MCSentAll == MCSent \cup MCSentKeys

OneAdmin == CHOOSE a \in Admins : TRUE
MayMove ==
    IF kind = "requests" THEN \A a \in Admins \ {OneAdmin} : adm[a].at = "idle"
    ELSE \A q \in Requests : req[q].at = "idle"

\* Ids are as good as each other, so the same one is always the first.
AnyIdFirst == born = {} \/ AnyId \in born

\* Without services a call comes no further than its look at them.
SomeService == services # {}

\* What a call that has just begun was sent, or what Validate makes of it.
Begins(a) == adm[a].at = "idle" /\ adm'[a].at \in {"path", "creating"}
MaySend ==
    \A a \in Admins :
        Begins(a) => \E o \in SentIn[kind] : adm'[a].wants \in {o, Normal(o)}

RoutingInit == Init /\ kind \in Kinds

RoutingSpec ==
    /\ RoutingInit
    /\ [][ /\ Next /\ UNCHANGED kind
           /\ MayMove' /\ AnyIdFirst' /\ SomeService' /\ MaySend ]_<<vars, kind>>
=============================================================================
