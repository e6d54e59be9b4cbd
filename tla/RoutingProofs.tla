---------------------------- MODULE RoutingProofs ----------------------------
(***************************************************************************)
(* Proofs about Routing, for any routes, requests, administrators and paths. *)
(***************************************************************************)
EXTENDS Routing, SequenceTheorems, TLAPS

-----------------------------------------------------------------------------
\* Paths, as sequences of segments.

LEMMA NoSegment == "" \in Segments
BY RoutingAssumption DEF RoutingAssumption

LEMMA PathLength ==
    ASSUME NEW s \in Path
    PROVE  s \in Seq(Segments) /\ Len(s) \in Nat \ {0} /\ DOMAIN s = 1 .. Len(s)
BY DEF Path

LEMMA NotEmpty ==
    ASSUME NEW s \in Seq(Segments), Len(s) >= 1
    PROVE  s \in Path
BY DEF Path

LEMMA FewPaths == Empty \in Path /\ Root \in Path
<1>1. ASSUME NEW e \in Segments
      PROVE  <<e>> \in Path /\ <<e, e>> \in Path
  BY <1>1 DEF Path
<1> QED BY <1>1, NoSegment, Zenon DEF Empty, Root

\* A path is a prefix of another if it agrees with it as far as it goes.
LEMMA PrefixAgrees ==
    ASSUME NEW s \in Seq(Segments), NEW t \in Seq(Segments)
    PROVE  IsPrefix(t, s) <=> Len(t) <= Len(s) /\ \A i \in 1 .. Len(t) : t[i] = s[i]
<1>1. ASSUME Len(t) <= Len(s)
      PROVE  SubSeq(s, 1, Len(t)) = t <=> \A i \in 1 .. Len(t) : t[i] = s[i]
  BY <1>1
<1>2. SubSeq(t, 1, Len(t)) = t
  OBVIOUS
<1> QED BY <1>1, <1>2 DEF IsPrefix

\* A path with a slash after it: its segments, and an empty one.
LEMMA FrontOfAppend ==
    ASSUME NEW t \in Seq(Segments)
    PROVE  /\ Front(Append(t, "")) = t /\ Last(Append(t, "")) = ""
           /\ Len(Append(t, "")) = Len(t) + 1
<1>1. ASSUME NEW e \in Segments
      PROVE  /\ SubSeq(Append(t, e), 1, Len(Append(t, e)) - 1) = t
             /\ Append(t, e)[Len(Append(t, e))] = e /\ Len(Append(t, e)) = Len(t) + 1
  BY <1>1
<1> QED BY <1>1, NoSegment, Zenon DEF Front, Last

\* The tests in MatchRoute are what they should be: what a route covers is its
\* path and what lies below it.
LEMMA CoveredBelow ==
    ASSUME NEW s \in Seq(Segments), NEW t \in Seq(Segments)
    PROVE  /\ IsPrefix(s, s)
           /\ CoversBelow(t, s) => IsPrefix(t, s)
           /\ (IsPrefix(t, s) /\ s # t) => CoversBelow(t, s)
<1>1. CoversBelow(t, s) <=> Len(s) >= Len(t) + 1 /\ IsPrefix(t, s)
  BY FrontOfAppend DEF HasPrefix, CoversBelow
<1>2. IsPrefix(t, s) => Len(t) <= Len(s) /\ \A i \in 1 .. Len(t) : t[i] = s[i]
  BY PrefixAgrees
<1>3. (IsPrefix(t, s) /\ Len(t) = Len(s)) => s = t
  BY <1>2
<1>4. IsPrefix(s, s)
  BY PrefixAgrees
<1>5. IsPrefix(t, s) => Len(t) = Len(s) \/ Len(s) >= Len(t) + 1
  BY <1>2
<1> QED BY <1>1, <1>3, <1>4, <1>5, Zenon

FromRoot(s) == s[1] = ""

LEMMA BeginsWithSlash ==
    ASSUME NEW s \in Path, HasPrefix(s, Root)
    PROVE  FromRoot(s) /\ Len(s) >= 2
<1>1. \A e : /\ Len(<<e, e>>) = 2 /\ <<e, e>>[1] = e
             /\ Len(<<e>>) = 1
  OBVIOUS
<1>2. Root \in Seq(Segments) /\ Len(Root) = 2 /\ Root[1] = ""
  BY <1>1, FewPaths, Zenon DEF Root, Path
<1>3. ASSUME NEW r \in Seq(Segments), Len(r) = 2
      PROVE  /\ SubSeq(r, 1, 2 - 1) \in Seq(Segments)
             /\ Len(SubSeq(r, 1, 2 - 1)) = 1 /\ SubSeq(r, 1, 2 - 1)[1] = r[1]
  BY <1>3
<1>4. Front(Root) \in Seq(Segments) /\ Len(Front(Root)) = 1 /\ Front(Root)[1] = ""
  BY <1>2, <1>3 DEF Front
<1>5. Len(s) >= 2 /\ IsPrefix(Front(Root), s)
  BY <1>2 DEF HasPrefix
<1>6. Front(Root)[1] = s[1]
  <2>1. s \in Seq(Segments)
    BY PathLength
  <2>2. ASSUME NEW f \in Seq(Segments), IsPrefix(f, s), Len(f) = 1
        PROVE  f[1] = s[1]
    <3>1. \A i \in 1 .. Len(f) : f[i] = s[i]
      BY <2>1, <2>2, PrefixAgrees
    <3>2. 1 \in 1 .. Len(f)
      BY <2>2
    <3> QED BY <3>1, <3>2
  <2> QED BY <2>2, <1>4, <1>5
<1> QED BY <1>4, <1>5, <1>6, Zenon DEF FromRoot

LEMMA HeadAndTail ==
    ASSUME NEW S, NEW e \in S, NEW t \in Seq(S), t # <<>>, t[1] = e
    PROVE  <<e>> \o Tail(t) = t
OBVIOUS

LEMMA Slash == FromRoot(Empty) /\ Len(Empty) = 1 /\ FromRoot(Root)
<1>1. \A e : <<e>>[1] = e /\ Len(<<e>>) = 1 /\ <<e, e>>[1] = e
  OBVIOUS
<1> QED BY <1>1, Zenon DEF Empty, Root, FromRoot

\* Whatever begins with a slash, the reverse proxy leaves alone if the base URL
\* has no path.
LEMMA JoinedToNothing ==
    ASSUME NEW s \in Path, FromRoot(s)
    PROVE  Joined(Empty, s) = s
<1>1. Empty \o Tail(s) = s
  BY HeadAndTail, NoSegment, Zenon DEF Empty, Path, FromRoot
<1> QED BY <1>1, Zenon DEF Joined

LEMMA JoinedIsPath ==
    ASSUME NEW b \in Path, NEW s \in Path, HasPrefix(s, Root)
    PROVE  Joined(b, s) \in Path
<1>1. Tail(s) \in Seq(Segments) /\ Len(Tail(s)) >= 1
  <2>1. s \in Seq(Segments) /\ s # <<>> /\ Len(s) >= 2
    BY BeginsWithSlash DEF Path
  <2> QED BY <2>1, HeadTailProperties
<1>2. Front(b) \in Seq(Segments) /\ b \in Seq(Segments)
  BY DEF Front, Path
<1>3. \A f \in Seq(Segments) : f \o Tail(s) \in Seq(Segments) /\ Len(f \o Tail(s)) >= 1
  BY <1>1
<1>4. \A f \in Seq(Segments) : f \o Tail(s) \in Path
  BY <1>3, NotEmpty
<1> QED BY <1>2, <1>4, Zenon DEF Joined

LEMMA TrimmedIsPath ==
    ASSUME NEW s \in Path, NEW t \in Path
    PROVE  Trimmed(s, t) \in Path
<1>1. CASE HasPrefix(s, t)
  <2>1. Len(t) \in 1 .. Len(s)
    <3>1. Len(s) >= Len(t)
      BY <1>1, Zenon DEF HasPrefix
    <3> QED BY <3>1, PathLength
  <2>2. SubSeq(s, Len(t), Len(s)) \in Path
    <3>1. ASSUME NEW r \in Seq(Segments), NEW n \in 1 .. Len(r)
          PROVE  SubSeq(r, n, Len(r)) \in Seq(Segments) /\ Len(SubSeq(r, n, Len(r))) >= 1
      BY <3>1
    <3>2. s \in Seq(Segments)
      BY PathLength
    <3>3. SubSeq(s, Len(t), Len(s)) \in Seq(Segments) /\ Len(SubSeq(s, Len(t), Len(s))) >= 1
      BY <2>1, <3>1, <3>2
    <3> QED BY <3>3, NotEmpty
  <2>3. SubSeq(s, Len(t) + 1, Len(s)) \in Seq(Segments)
    BY <2>1 DEF Path
  <2>4. Empty \o SubSeq(s, Len(t) + 1, Len(s)) \in Path
    BY <2>3, FewPaths DEF Path
  <2> QED BY <2>2, <2>4, FewPaths, Zenon DEF Trimmed, TrimPrefix
<1> QED BY <1>1, FewPaths, Zenon DEF Trimmed, TrimPrefix

\* What the Director leaves of a path below the route's is what lies below it.
LEMMA TrimmedIsBelow ==
    ASSUME NEW s \in Path, FromRoot(s), NEW t \in Path, IsPrefix(t, s)
    PROVE  /\ HasPrefix(s, t) /\ Trimmed(s, t) = Below(t, s)
           /\ Joined(Empty, Below(t, s)) = Below(t, s)
<1> DEFINE n == Len(t)
           rest == SubSeq(s, n + 1, Len(s))
<1>1. /\ s \in Seq(Segments) /\ Len(s) \in Nat \ {0}
      /\ t \in Seq(Segments) /\ n \in Nat \ {0}
  BY PathLength
<1>2. n <= Len(s) /\ \A i \in 1 .. n : t[i] = s[i]
  BY <1>1, PrefixAgrees
<1>3. Last(t) = s[n]
  BY <1>1, <1>2 DEF Last
<1>4. HasPrefix(s, t)
  <2>1. /\ Front(t) \in Seq(Segments) /\ Len(Front(t)) = n - 1
        /\ \A i \in 1 .. n - 1 : Front(t)[i] = t[i]
    <3>1. ASSUME NEW S, NEW u \in Seq(S), NEW m \in Nat, m < Len(u)
          PROVE  /\ SubSeq(u, 1, m) \in Seq(S) /\ Len(SubSeq(u, 1, m)) = m
                 /\ \A i \in 1 .. m : SubSeq(u, 1, m)[i] = u[i]
      BY <3>1
    <3>2. n - 1 \in Nat /\ n - 1 < Len(t)
      BY <1>1
    <3> QED BY <1>1, <3>1, <3>2 DEF Front
  <2>2. IsPrefix(Front(t), s)
    BY <1>1, <1>2, <2>1, PrefixAgrees
  <2> QED BY <1>1, <1>2, <1>3, <2>2 DEF HasPrefix
<1>5. rest \in Seq(Segments)
  BY <1>1
<1>6. SubSeq(s, n, Len(s)) = <<s[n]>> \o rest
  <2>1. n \in 1 .. Len(s) /\ Len(s) \in n .. Len(s)
    BY <1>1, <1>2
  <2> QED BY <1>1, <2>1, SubSeqRecursiveFirst
<1> HIDE DEF rest
<1>7. TrimPrefix(s, t) = Empty \o rest
  BY <1>3, <1>4, <1>6, Zenon DEF TrimPrefix, Empty, rest
<1>8. Empty \o rest = Empty <=> rest = <<>>
  BY <1>5, FewPaths, ConcatEqualIffEmpty DEF Path
<1>9. Trimmed(s, t) = IF rest = <<>> THEN Root ELSE Empty \o rest
  BY <1>7, <1>8, Zenon DEF Trimmed
<1>10. Below(t, s) = IF rest = <<>> THEN Root ELSE Empty \o rest
  BY Zenon DEF Below, rest
<1>11. Joined(Empty, Below(t, s)) = Below(t, s)
  <2>1. \A e \in Path : Len(e) = 1 => e \o rest \in Path /\ (e \o rest)[1] = e[1]
    BY <1>5 DEF Path
  <2>2. Empty \o rest \in Path /\ FromRoot(Empty \o rest)
    BY <2>1, FewPaths, Slash, Zenon DEF FromRoot
  <2> QED BY <1>10, <2>2, FewPaths, Slash, JoinedToNothing, Zenon
<1> QED BY <1>4, <1>9, <1>10, <1>11, Zenon

-----------------------------------------------------------------------------
\* Types, and whose the ids of creations are.

\* An id is created by one call, and before it is stored no other call has it.
IdsOfCalls ==
    \A a \in Admins :
        /\ adm[a].at # "idle" => adm[a].id \in born
        /\ adm[a].at = "creating" =>
              /\ adm[a].id \notin stored
              /\ \A b \in Admins \ {a} : adm[b].at # "idle" => adm[b].id # adm[a].id

CallInv == TypeOK /\ IdsOfCalls

LEMMA Defaults ==
    /\ AnyId \in RouteIds /\ AnyObject \in RouteObject /\ AnyObject.auth
    /\ NoCall \in Call /\ NoCall.at = "idle"
    /\ NoRequest \in Request /\ NoRequest.at = "idle" /\ NoRequest.best = {} /\ NoRequest.look = {}
    /\ 0 \in Lengths /\ \A l \in Lengths : l \in Nat
<1>1. AnyId \in RouteIds /\ (CHOOSE p \in Paths : TRUE) \in Paths /\ "GET" \in Methods
      /\ (CHOOSE s \in Services : TRUE) \in Services /\ (CHOOSE k \in Asked : TRUE) \in Asked
  BY RoutingAssumption DEF RoutingAssumption, AnyId
<1>2. AnyObject \in RouteObject /\ AnyObject.auth
  BY <1>1 DEF AnyObject, RouteObject
<1>3. NoCall \in Call /\ NoCall.at = "idle"
  BY <1>1, <1>2 DEF NoCall, Call
<1>4. AnyObject.service \in Services
  BY <1>2 DEF RouteObject
<1>5. 0 \in Lengths /\ \A l \in Lengths : l \in Nat
  <2>1. \A p \in Paths : Chars[p] \in Nat
    BY RoutingAssumption DEF RoutingAssumption
  <2> QED BY <2>1 DEF Lengths
<1>6. NoRequest \in Request /\ NoRequest.at = "idle" /\ NoRequest.best = {} /\ NoRequest.look = {}
  BY <1>1, <1>4, <1>5, FewPaths DEF NoRequest, Request
<1> QED BY <1>1, <1>2, <1>3, <1>5, <1>6

LEMMA CallInit == Init => CallInv
<1> SUFFICES ASSUME Init PROVE CallInv
  OBVIOUS
<1>1. TypeOK
  <2>1. MaxUpdates \in Nat
    BY RoutingAssumption DEF RoutingAssumption
  <2> QED BY <2>1, Defaults DEF Init, TypeOK
<1> QED BY <1>1, Defaults DEF Init, CallInv, IdsOfCalls

\* What is asked for, and every path that a route or a base URL has.
LEMMA PathsOfRoutes ==
    ASSUME TypeOK
    PROVE  /\ \A i \in RouteIds : route[i].path \in Paths /\ route[i].path \in Path
           /\ \A i \in RouteIds : Chars[route[i].path] \in Lengths
           /\ \A q \in Requests : /\ req[q].asked \in Asked /\ req[q].asked.path \in Path
                                  /\ HasPrefix(req[q].asked.path, Root)
                                  /\ BasePath[req[q].service] \in Path
<1>1. \A i \in RouteIds : route[i].path \in Paths
  BY DEF TypeOK, RouteObject
<1>2. \A q \in Requests : req[q].asked \in Asked /\ req[q].service \in Services
  BY DEF TypeOK, Request
<1>3. \A p \in Paths : p \in Path
  BY RoutingAssumption, Zenon DEF RoutingAssumption
<1>5. \A p \in Paths : Chars[p] \in Lengths
  BY Zenon DEF Lengths
<1>4. /\ \A k \in Asked : k.path \in Path /\ HasPrefix(k.path, Root)
      /\ \A s \in Services : BasePath[s] \in Path
  BY RoutingAssumption DEF RoutingAssumption
<1> QED BY <1>1, <1>2, <1>3, <1>4, <1>5, Zenon

\* What is watched keeps its type.
LEMMA WatchTyped ==
    ASSUME TypeOK, Watch
    PROVE  steady' \in [Requests -> SUBSET RouteIds] /\ torn' \in [Requests -> BOOLEAN]
<1>1. steady' \in [Requests -> SUBSET RouteIds]
  BY DEF TypeOK, Watch
<1>2. torn' \in [Requests -> BOOLEAN]
  BY DEF TypeOK, Watch
<1> QED BY <1>1, <1>2

UpdatePlaces == {"path", "method", "service", "strip", "auth", "read path", "trim path",
                 "read method", "trim method", "read service", "trim service", "check path",
                 "empty", "default", "check method", "find", "store"}

\* An update's steps that write a field, that read one, and that check one.
WriteStep(a) == \/ WritePath(a) \/ WriteMethod(a) \/ WriteService(a) \/ WriteStrip(a)
                \/ WriteAuth(a) \/ TrimPath(a) \/ TrimMethod(a) \/ TrimService(a)
                \/ DefaultMethod(a)
ReadStep(a) == ReadPath(a) \/ ReadMethod(a) \/ ReadOwner(a) \/ IsMethodEmpty(a)
CheckStep(a) == CheckPath(a) \/ CheckMethod(a) \/ UpdateFindService(a)

LEMMA KindsOfSteps ==
    ASSUME NEW a \in Admins
    PROVE  UpdateStep(a) <=> WriteStep(a) \/ ReadStep(a) \/ CheckStep(a) \/ UpdateStore(a)
BY Zenon DEF UpdateStep, WriteStep, ReadStep, CheckStep

\* What is common to the writes: a field of the update's own route, and the call
\* goes on.
LEMMA PlacesOfUpdates == "idle" \notin UpdatePlaces /\ "creating" \notin UpdatePlaces
BY DEF UpdatePlaces

LEMMA WritesSay ==
    ASSUME TypeOK, NEW a \in Admins, WriteStep(a)
    PROVE  /\ adm[a].id \in RouteIds /\ adm[a].at \in UpdatePlaces
           /\ adm' \in [Admins -> Call]
           /\ adm'[a].id = adm[a].id /\ adm'[a].wants = adm[a].wants
           /\ adm'[a].at \in UpdatePlaces
           /\ \A b \in Admins \ {a} : adm'[b] = adm[b]
           /\ route' \in [RouteIds -> RouteObject]
           /\ \A k \in RouteIds \ {adm[a].id} : route'[k] = route[k]
           /\ UNCHANGED <<born, stored, services, updates, req, dirty, seen, won, open, calm>>
           /\ Watch
<1>1. adm[a] \in Call /\ adm[a].id \in RouteIds /\ adm[a].wants \in RouteObject
      /\ adm \in [Admins -> Call] /\ route \in [RouteIds -> RouteObject]
      /\ Own(a) \in RouteObject /\ "GET" \in Methods
  BY RoutingAssumption DEF TypeOK, Call, Own, RoutingAssumption
<1>2. ASSUME NEW at \in UpdatePlaces, NEW next \in UpdatePlaces, NEW o \in RouteObject,
             Writes(a, at, o, next)
      PROVE  /\ adm[a].at \in UpdatePlaces /\ adm' \in [Admins -> Call]
             /\ adm'[a].id = adm[a].id /\ adm'[a].wants = adm[a].wants
             /\ adm'[a].at \in UpdatePlaces
             /\ \A b \in Admins \ {a} : adm'[b] = adm[b]
             /\ route' \in [RouteIds -> RouteObject]
             /\ \A k \in RouteIds \ {adm[a].id} : route'[k] = route[k]
             /\ UNCHANGED <<born, stored, services, updates, req, dirty, seen, won, open, calm>>
             /\ Watch
  BY <1>1, <1>2 DEF Writes, Call, UpdatePlaces
<1>3. /\ [Own(a) EXCEPT !.path = adm[a].wants.path] \in RouteObject
      /\ [Own(a) EXCEPT !.method = adm[a].wants.method] \in RouteObject
      /\ [Own(a) EXCEPT !.service = adm[a].wants.service] \in RouteObject
      /\ [Own(a) EXCEPT !.strip = adm[a].wants.strip] \in RouteObject
      /\ [Own(a) EXCEPT !.auth = adm[a].wants.auth] \in RouteObject
      /\ [Own(a) EXCEPT !.method = "GET"] \in RouteObject
  BY <1>1 DEF RouteObject
<1>4. /\ "path" \in UpdatePlaces /\ "method" \in UpdatePlaces /\ "service" \in UpdatePlaces
      /\ "strip" \in UpdatePlaces /\ "auth" \in UpdatePlaces /\ "read path" \in UpdatePlaces
      /\ "trim path" \in UpdatePlaces /\ "read method" \in UpdatePlaces
      /\ "trim method" \in UpdatePlaces /\ "read service" \in UpdatePlaces
      /\ "trim service" \in UpdatePlaces /\ "check path" \in UpdatePlaces
      /\ "default" \in UpdatePlaces /\ "check method" \in UpdatePlaces
  BY DEF UpdatePlaces
<1>5. \E at, next \in UpdatePlaces, o \in RouteObject : Writes(a, at, o, next)
  BY <1>3, <1>4, Zenon DEF WriteStep, WritePath, WriteMethod, WriteService, WriteStrip,
       WriteAuth, TrimPath, TrimMethod, TrimService, DefaultMethod
<1> QED BY <1>1, <1>2, <1>5

LEMMA ReadsSay ==
    ASSUME TypeOK, NEW a \in Admins, ReadStep(a)
    PROVE  /\ adm[a].id \in RouteIds
           /\ adm[a].at \in {"read path", "read method", "read service", "empty"}
           /\ adm' \in [Admins -> Call]
           /\ adm'[a].id = adm[a].id
           /\ adm'[a].at \in {"trim path", "trim method", "trim service", "default",
                              "check method"}
           /\ \A b \in Admins \ {a} : adm'[b] = adm[b]
           /\ UNCHANGED <<route, born, stored, services, updates, req,
                          dirty, steady, torn, seen, won, open, calm>>
<1> DEFINE From == {"read path", "read method", "read service", "empty"}
           To == {"trim path", "trim method", "trim service", "default", "check method"}
<1>1. adm[a] \in Call /\ adm[a].id \in RouteIds
      /\ adm \in [Admins -> Call] /\ Own(a) \in RouteObject
  BY DEF TypeOK, Call, Own
<1>2. ASSUME NEW at \in From, NEW next \in To, NEW w \in RouteObject, Reads(a, at, w, next)
      PROVE  /\ adm[a].at \in From /\ adm' \in [Admins -> Call]
             /\ adm'[a].id = adm[a].id /\ adm'[a].at \in To
             /\ \A b \in Admins \ {a} : adm'[b] = adm[b]
             /\ UNCHANGED <<route, born, stored, services, updates, req,
                            dirty, steady, torn, seen, won, open, calm>>
  BY <1>1, <1>2 DEF Reads, Call
<1>3. /\ TrimSpace[Own(a).path] \in Paths /\ ToUpper[Own(a).method] \in Methods
      /\ TrimName[Own(a).service] \in Services
  BY <1>1, RoutingAssumption DEF RoutingAssumption, RouteObject
<1>4. /\ [AnyObject EXCEPT !.path = TrimSpace[Own(a).path]] \in RouteObject
      /\ [AnyObject EXCEPT !.method = ToUpper[Own(a).method]] \in RouteObject
      /\ [AnyObject EXCEPT !.service = TrimName[Own(a).service]] \in RouteObject
      /\ AnyObject \in RouteObject
  BY <1>3, Defaults DEF RouteObject
<1>5. /\ "read path" \in From /\ "read method" \in From /\ "read service" \in From
      /\ "empty" \in From /\ "trim path" \in To /\ "trim method" \in To
      /\ "trim service" \in To /\ "default" \in To /\ "check method" \in To
  OBVIOUS
<1>6. \E at \in From, next \in To, w \in RouteObject : Reads(a, at, w, next)
  BY <1>4, <1>5, Zenon DEF ReadStep, ReadPath, ReadMethod, ReadOwner, IsMethodEmpty
<1> QED BY <1>1, <1>2, <1>6

LEMMA ChecksSay ==
    ASSUME TypeOK, NEW a \in Admins, CheckStep(a)
    PROVE  /\ adm[a].id \in RouteIds /\ adm[a].at \in {"check path", "check method", "find"}
           /\ adm' \in [Admins -> Call]
           /\ \/ /\ adm'[a].id = adm[a].id /\ adm'[a].at \in {"empty", "find", "store"}
                 /\ dirty' = dirty
              \/ adm'[a].at = "idle" /\ dirty' = dirty \cup {adm[a].id}
           /\ \A b \in Admins \ {a} : adm'[b] = adm[b]
           /\ UNCHANGED <<route, born, stored, services, updates, req,
                          steady, torn, seen, won, open, calm>>
<1> DEFINE From == {"check path", "check method", "find"}
           To == {"empty", "find", "store"}
<1>1. adm[a] \in Call /\ adm[a].id \in RouteIds /\ adm \in [Admins -> Call]
  BY DEF TypeOK, Call
<1>2. ASSUME NEW at \in From, NEW next \in To, NEW ok, NEW bad,
             Check(a, at, ok, bad, next)
      PROVE  /\ adm[a].at \in From /\ adm' \in [Admins -> Call]
             /\ \/ adm'[a].id = adm[a].id /\ adm'[a].at \in To /\ dirty' = dirty
                \/ adm'[a].at = "idle" /\ dirty' = dirty \cup {adm[a].id}
             /\ \A b \in Admins \ {a} : adm'[b] = adm[b]
             /\ UNCHANGED <<route, born, stored, services, updates, req,
                            steady, torn, seen, won, open, calm>>
  <2>1. adm[a].at \in From /\ UNCHANGED <<route, born, stored, services, updates, req,
                                          steady, torn, seen, won, open, calm>>
    BY <1>2 DEF Check
  <2>2. CASE adm' = [adm EXCEPT ![a].at = next] /\ UNCHANGED dirty
    BY <1>1, <2>1, <2>2 DEF Call
  <2>3. CASE adm' = [adm EXCEPT ![a] = NoCall] /\ dirty' = dirty \cup {adm[a].id}
    BY <1>1, <2>1, <2>3, Defaults
  <2> QED BY <1>2, <2>2, <2>3 DEF Check
<1>3. /\ "check path" \in From /\ "check method" \in From /\ "find" \in From
      /\ "empty" \in To /\ "find" \in To /\ "store" \in To
  OBVIOUS
<1>4. \E at \in From, next \in To : \E ok, bad : Check(a, at, ok, bad, next)
  BY <1>3, Zenon DEF CheckStep, CheckPath, CheckMethod, UpdateFindService
<1> QED BY <1>1, <1>2, <1>4

LEMMA UpdateTyped ==
    ASSUME TypeOK, NEW a \in Admins, UpdateStep(a)
    PROVE  TypeOK'
<1>1. CASE WriteStep(a)
  <2>1. UNCHANGED <<born, stored, services, updates, req, dirty, seen, won, open, calm>>
    BY <1>1, WritesSay
  <2>2. route' \in [RouteIds -> RouteObject] /\ adm' \in [Admins -> Call]
    BY <1>1, WritesSay
  <2>3. steady' \in [Requests -> SUBSET RouteIds] /\ torn' \in [Requests -> BOOLEAN]
    BY <1>1, WritesSay, WatchTyped
  <2> QED BY <2>1, <2>2, <2>3 DEF TypeOK
<1>2. CASE ReadStep(a)
  BY <1>2, ReadsSay DEF TypeOK
<1>3. CASE CheckStep(a)
  BY <1>3, ChecksSay DEF TypeOK
<1>4. CASE UpdateStore(a)
  BY <1>4, Defaults DEF UpdateStore, Call, TypeOK
<1> QED BY <1>1, <1>2, <1>3, <1>4, KindsOfSteps

LEMMA NormalTyped ==
    ASSUME NEW sent \in Sent
    PROVE  sent \in RouteObject /\ Normal(sent) \in RouteObject
<1>1. sent \in RouteObject
  BY SentAssumption DEF SentAssumption
<1>2. /\ TrimSpace[sent.path] \in Paths /\ ToUpper[sent.method] \in Methods
      /\ TrimName[sent.service] \in Services /\ "GET" \in Methods
  BY <1>1, RoutingAssumption DEF RoutingAssumption, RouteObject
<1>3. ASSUME NEW p \in Paths, NEW m \in Methods, NEW s \in Services
      PROVE  [sent EXCEPT !.path = p, !.method = m, !.service = s] \in RouteObject
  BY <1>1 DEF RouteObject
<1> QED BY <1>1, <1>2, <1>3 DEF Normal

LEMMA OfferTyped ==
    ASSUME TypeOK, NEW i \in RouteIds, NEW o \in RouteObject, Offer(i, o)
    PROVE  open' \in [RouteIds -> SUBSET Services]
<1>1. o.service \in Services /\ TrimName[o.service] \in Services
  BY RoutingAssumption DEF RoutingAssumption, RouteObject
<1> QED BY <1>1 DEF Offer, TypeOK

LEMMA AdminTyped ==
    ASSUME TypeOK, NEW a \in Admins, AdminStep(a), IdsOfCalls
    PROVE  TypeOK'
<1>1. ASSUME NEW i \in RouteIds, NEW o \in Sent, StartCreate(a, i, o)
      PROVE  TypeOK'
  <2>1. [at |-> "creating", id |-> i, wants |-> Normal(o)] \in Call
    BY NormalTyped DEF Call
  <2>2. adm' \in [Admins -> Call]
    BY <1>1, <2>1 DEF StartCreate, TypeOK
  <2> QED BY <1>1, <2>2 DEF StartCreate, TypeOK
<1>2. ASSUME NEW i \in RouteIds, NEW o \in Sent, StartUpdate(a, i, o)
      PROVE  TypeOK'
  <2>1. o \in RouteObject /\ MaxUpdates \in Nat
    BY NormalTyped, RoutingAssumption DEF RoutingAssumption
  <2>2. [at |-> "path", id |-> i, wants |-> o] \in Call
    BY <2>1 DEF Call
  <2>5. adm' \in [Admins -> Call]
    BY <1>2, <2>2 DEF StartUpdate, TypeOK
  <2>6. updates' \in 0 .. MaxUpdates
    BY <1>2, <2>1 DEF StartUpdate, TypeOK
  <2>3. open' \in [RouteIds -> SUBSET Services]
    BY <1>2, <2>1, OfferTyped DEF StartUpdate
  <2>4. calm' \in BOOLEAN
    BY <1>2 DEF StartUpdate, TypeOK
  <2> QED BY <1>2, <2>3, <2>4, <2>5, <2>6 DEF StartUpdate, TypeOK
<1>3. ASSUME NEW i \in RouteIds, RouteMissing(a, i)
      PROVE  TypeOK'
  BY <1>3 DEF RouteMissing, vars, TypeOK
<1>4. CASE StoreCreated(a)
  <2>1. adm[a].id \in RouteIds /\ adm[a].wants \in RouteObject /\ adm[a].id \in born
    BY <1>4 DEF StoreCreated, Call, IdsOfCalls, TypeOK
  <2>2. route' \in [RouteIds -> RouteObject] /\ stored' \in SUBSET born
    BY <1>4, <2>1 DEF StoreCreated, TypeOK
  <2>3. open' \in [RouteIds -> SUBSET Services]
    BY <1>4, <2>1, OfferTyped DEF StoreCreated, TypeOK
  <2>4. adm' \in [Admins -> Call]
    BY <1>4, Defaults DEF StoreCreated, TypeOK
  <2>5. steady' \in [Requests -> SUBSET RouteIds] /\ torn' \in [Requests -> BOOLEAN]
    BY <1>4, WatchTyped DEF StoreCreated
  <2> QED BY <1>4, <2>2, <2>3, <2>4, <2>5 DEF StoreCreated, TypeOK
<1>5. CASE UpdateStep(a)
  BY <1>5, UpdateTyped
<1> QED BY <1>1, <1>2, <1>3, <1>4, <1>5 DEF AdminStep

-----------------------------------------------------------------------------
\* What the steps of a request write.  They leave the administrators and what
\* they write alone.
written == <<route, born, stored, services, adm, updates, dirty, open, calm>>

Moved(q) == /\ req' \in [Requests -> Request]
            /\ \A p \in Requests \ {q} : req'[p] = req[p]
            /\ UNCHANGED written

LEMMA GoesSay ==
    ASSUME TypeOK, NEW q \in Requests, NEW r \in Request, Goes(q, r)
    PROVE  Moved(q) /\ req'[q] = r
BY DEF TypeOK, Goes, Moved, written

LEMMA RequestFields ==
    ASSUME TypeOK, NEW q \in Requests
    PROVE  /\ req[q] \in Request /\ req[q].best \subseteq RouteIds
           /\ req[q].look \subseteq RouteIds /\ req[q].unread \subseteq RouteIds
           /\ req[q].length \in Lengths /\ req[q].length \in Nat
           /\ req[q].asked \in Asked /\ req[q].service \in Services /\ req[q].upstream \in Path
BY Defaults DEF TypeOK, Request

LEMMA ListSays ==
    ASSUME TypeOK, NEW q \in Requests, NEW asked \in Asked, ListRoutes(q, asked)
    PROVE  /\ Moved(q) /\ req[q].at = "idle" /\ req'[q].at = "matching"
           /\ req'[q].asked = asked /\ req'[q].unread = stored
           /\ req'[q].look = req[q].look /\ req'[q].best = req[q].best
           /\ req'[q].keyless = req[q].keyless
<1> DEFINE r == [req[q] EXCEPT !.at = "matching", !.asked = asked, !.unread = stored]
<1>0. stored \subseteq RouteIds
  BY DEF TypeOK
<1>1. r \in Request
  BY <1>0, RequestFields DEF Request
<1>2. Goes(q, r) /\ req[q].at = "idle"
  BY DEF ListRoutes
<1>3. Moved(q) /\ req'[q] = r
  BY <1>1, <1>2, GoesSay
<1>4. /\ r.at = "matching" /\ r.asked = asked /\ r.unread = stored /\ r.look = req[q].look
      /\ r.best = req[q].best /\ r.keyless = req[q].keyless
  BY RequestFields DEF Request
<1> QED BY <1>2, <1>3, <1>4

LEMMA LookSays ==
    ASSUME TypeOK, NEW q \in Requests, NEW i \in RouteIds, Look(q, i)
    PROVE  /\ Moved(q) /\ req[q].at = "matching" /\ i \in req[q].unread
           /\ req'[q].unread = req[q].unread \ {i}
           /\ \/ /\ route[i].method = req[q].asked.method
                 /\ req'[q].at = "comparing" /\ req'[q].look = {i}
              \/ /\ route[i].method # req[q].asked.method
                 /\ req'[q].at = "matching" /\ req'[q].look = {}
           /\ req'[q].asked = req[q].asked /\ req'[q].best = req[q].best
           /\ req'[q].length = req[q].length
<1> DEFINE r(at, look) == [req[q] EXCEPT !.at = at, !.unread = @ \ {i}, !.look = look]
<1>1. ASSUME NEW at \in {"comparing", "matching"}, NEW look \in SUBSET RouteIds
      PROVE  /\ r(at, look) \in Request
             /\ r(at, look).at = at /\ r(at, look).unread = req[q].unread \ {i}
             /\ r(at, look).look = look /\ r(at, look).asked = req[q].asked
             /\ r(at, look).best = req[q].best /\ r(at, look).length = req[q].length
  BY RequestFields DEF Request
<1>2. req[q].at = "matching" /\ i \in req[q].unread
  BY DEF Look
<1>3. \/ route[i].method = req[q].asked.method /\ Goes(q, r("comparing", {i}))
      \/ route[i].method # req[q].asked.method /\ Goes(q, r("matching", {}))
  BY Zenon DEF Look
<1> HIDE DEF r
<1>4. \/ /\ route[i].method = req[q].asked.method
         /\ Moved(q) /\ req'[q] = r("comparing", {i})
      \/ /\ route[i].method # req[q].asked.method
         /\ Moved(q) /\ req'[q] = r("matching", {})
  BY <1>1, <1>3, GoesSay
<1> QED BY <1>1, <1>2, <1>4

\* A step that writes at and look, and no more.
Aside(q) == /\ req'[q].asked = req[q].asked /\ req'[q].unread = req[q].unread
            /\ req'[q].best = req[q].best /\ req'[q].length = req[q].length
            /\ req'[q].keyless = req[q].keyless /\ req'[q].service = req[q].service
            /\ req'[q].upstream = req[q].upstream

Places == {"idle", "matching", "comparing", "prefixing", "measuring", "taking", "matched",
           "resolving", "forwarding", "stripping", "trimming", "sent", "unmatched", "refused"}

LEMMA OnlyAt ==
    ASSUME TypeOK, NEW q \in Requests, NEW at \in Places,
           Goes(q, [req[q] EXCEPT !.at = at])
    PROVE  Moved(q) /\ Aside(q) /\ req'[q].at = at /\ req'[q].look = req[q].look
<1> DEFINE r == [req[q] EXCEPT !.at = at]
<1>1. r \in Request
  BY RequestFields DEF Request, Places
<1>2. Moved(q) /\ req'[q] = r
  BY <1>1, GoesSay
<1>3. /\ r.at = at /\ r.look = req[q].look
      /\ r.asked = req[q].asked /\ r.unread = req[q].unread /\ r.best = req[q].best
      /\ r.length = req[q].length /\ r.keyless = req[q].keyless
      /\ r.service = req[q].service /\ r.upstream = req[q].upstream
  BY RequestFields DEF Request
<1> QED BY <1>2, <1>3 DEF Aside

LEMMA PassOverSays ==
    ASSUME TypeOK, NEW q \in Requests, PassOver(q)
    PROVE  Moved(q) /\ Aside(q) /\ req'[q].at = "matching" /\ req'[q].look = {} /\ Unwatched
<1> DEFINE r == [req[q] EXCEPT !.at = "matching", !.look = {}]
<1>1. r \in Request
  BY RequestFields DEF Request
<1>2. Moved(q) /\ req'[q] = r /\ Unwatched
  BY <1>1, GoesSay DEF PassOver
<1>3. /\ r.at = "matching" /\ r.look = {}
      /\ r.asked = req[q].asked /\ r.unread = req[q].unread /\ r.best = req[q].best
      /\ r.length = req[q].length /\ r.keyless = req[q].keyless
      /\ r.service = req[q].service /\ r.upstream = req[q].upstream
  BY RequestFields DEF Request
<1> QED BY <1>2, <1>3 DEF Aside

LEMMA CoversSays ==
    ASSUME TypeOK, NEW q \in Requests, NEW i \in RouteIds, Covers(q, i)
    PROVE  /\ Moved(q) /\ Aside(q) /\ req'[q].at = "measuring" /\ req'[q].look = req[q].look
           /\ seen' \in [Requests -> Lengths] /\ seen'[q] = Chars[route[i].path]
           /\ \A p \in Requests \ {q} : seen'[p] = seen[p]
           /\ UNCHANGED <<steady, torn, won>>
<1>1. Goes(q, [req[q] EXCEPT !.at = "measuring"])
  BY DEF Covers
<1>2. "measuring" \in Places
  BY DEF Places
<1>3. Chars[route[i].path] \in Lengths /\ seen \in [Requests -> Lengths]
  BY PathsOfRoutes DEF TypeOK
<1>4. seen' = [seen EXCEPT ![q] = Chars[route[i].path]] /\ UNCHANGED <<steady, torn, won>>
  BY DEF Covers
<1> QED BY <1>1, <1>2, <1>3, <1>4, OnlyAt

\* The three steps of a look after the first: the path, as it is now, covers the
\* request's, or does not; and the route is measured, or passed over.
LEMMA CompareSays ==
    ASSUME TypeOK, NEW q \in Requests, Compare(q)
    PROVE  /\ req[q].at = "comparing" /\ Moved(q) /\ Aside(q)
           /\ \E i \in req[q].look :
                 \/ route[i].path = req[q].asked.path /\ Covers(q, i)
                 \/ /\ route[i].path # req[q].asked.path
                    /\ req'[q].at = "prefixing" /\ req'[q].look = req[q].look /\ Unwatched
<1>1. req[q].at = "comparing" /\ "prefixing" \in Places /\ req[q].look \subseteq RouteIds
  BY RequestFields DEF Compare, Places
<1>2. PICK i \in req[q].look :
         \/ route[i].path = req[q].asked.path /\ Covers(q, i)
         \/ /\ route[i].path # req[q].asked.path
            /\ Goes(q, [req[q] EXCEPT !.at = "prefixing"]) /\ Unwatched
  BY Zenon DEF Compare
<1>3. i \in RouteIds
  BY <1>1
<1>4. CASE route[i].path = req[q].asked.path /\ Covers(q, i)
  BY <1>1, <1>3, <1>4, CoversSays
<1>5. CASE /\ route[i].path # req[q].asked.path
           /\ Goes(q, [req[q] EXCEPT !.at = "prefixing"]) /\ Unwatched
  BY <1>1, <1>5, OnlyAt
<1> QED BY <1>2, <1>4, <1>5

LEMMA PrefixSays ==
    ASSUME TypeOK, NEW q \in Requests, Prefix(q)
    PROVE  /\ req[q].at = "prefixing" /\ Moved(q) /\ Aside(q)
           /\ \E i \in req[q].look :
                 \/ CoversBelow(route[i].path, req[q].asked.path) /\ Covers(q, i)
                 \/ ~CoversBelow(route[i].path, req[q].asked.path) /\ PassOver(q)
<1>1. req[q].at = "prefixing" /\ req[q].look \subseteq RouteIds
  BY RequestFields DEF Prefix
<1>2. PICK i \in req[q].look :
         \/ CoversBelow(route[i].path, req[q].asked.path) /\ Covers(q, i)
         \/ ~CoversBelow(route[i].path, req[q].asked.path) /\ PassOver(q)
  BY Zenon DEF Prefix
<1>3. i \in RouteIds
  BY <1>1
<1> QED BY <1>1, <1>2, <1>3, CoversSays, PassOverSays

LEMMA MeasureSays ==
    ASSUME TypeOK, NEW q \in Requests, Measure(q)
    PROVE  /\ req[q].at = "measuring" /\ Moved(q) /\ Aside(q) /\ Unwatched
           /\ \E i \in req[q].look :
                 \/ /\ req[q].best = {} \/ Chars[route[i].path] > req[q].length
                    /\ req'[q].at = "taking" /\ req'[q].look = req[q].look
                 \/ /\ ~(req[q].best = {} \/ Chars[route[i].path] > req[q].length)
                    /\ req'[q].at = "matching" /\ req'[q].look = {}
<1>1. req[q].at = "measuring" /\ "taking" \in Places
  BY DEF Measure, Places
<1>2. PICK i \in req[q].look :
         \/ /\ req[q].best = {} \/ Chars[route[i].path] > req[q].length
            /\ Goes(q, [req[q] EXCEPT !.at = "taking"]) /\ Unwatched
         \/ /\ ~(req[q].best = {} \/ Chars[route[i].path] > req[q].length)
            /\ PassOver(q)
  BY Zenon DEF Measure
<1>3. CASE /\ req[q].best = {} \/ Chars[route[i].path] > req[q].length
           /\ Goes(q, [req[q] EXCEPT !.at = "taking"]) /\ Unwatched
  BY <1>1, <1>3, OnlyAt
<1>4. CASE ~(req[q].best = {} \/ Chars[route[i].path] > req[q].length) /\ PassOver(q)
  BY <1>1, <1>4, PassOverSays
<1> QED BY <1>2, <1>3, <1>4

LEMMA TakeSays ==
    ASSUME TypeOK, NEW q \in Requests, Take(q)
    PROVE  /\ req[q].at = "taking" /\ Moved(q)
           /\ req'[q].at = "matching" /\ req'[q].look = {}
           /\ \E i \in req[q].look : /\ req'[q].best = {i}
                                     /\ req'[q].length = Chars[route[i].path]
           /\ req'[q].asked = req[q].asked /\ req'[q].unread = req[q].unread
           /\ won' \in [Requests -> Lengths] /\ won'[q] = seen[q]
           /\ \A p \in Requests \ {q} : won'[p] = won[p]
           /\ UNCHANGED <<steady, torn, seen>>
<1> DEFINE r(i, n) == [req[q] EXCEPT !.at = "matching", !.look = {}, !.best = {i},
                                     !.length = n]
<1>1. PICK i \in req[q].look : Goes(q, r(i, Chars[route[i].path]))
  BY DEF Take
<1>2. i \in RouteIds /\ Chars[route[i].path] \in Lengths
  BY RequestFields, PathsOfRoutes
<1>3. ASSUME NEW n \in Lengths
      PROVE  /\ r(i, n) \in Request /\ r(i, n).at = "matching" /\ r(i, n).look = {}
             /\ r(i, n).best = {i} /\ r(i, n).length = n
             /\ r(i, n).asked = req[q].asked /\ r(i, n).unread = req[q].unread
  BY <1>2, RequestFields DEF Request
<1> HIDE DEF r
<1>4. Moved(q) /\ req'[q] = r(i, Chars[route[i].path])
  BY <1>1, <1>2, <1>3, GoesSay
<1>5. /\ won' \in [Requests -> Lengths] /\ won'[q] = seen[q]
      /\ \A p \in Requests \ {q} : won'[p] = won[p]
      /\ UNCHANGED <<steady, torn, seen>> /\ req[q].at = "taking"
  BY DEF Take, TypeOK
<1> QED BY <1>2, <1>3, <1>4, <1>5

LEMMA MatchedSays ==
    ASSUME TypeOK, NEW q \in Requests, Matched(q)
    PROVE  /\ req[q].at = "matching" /\ req[q].unread = {} /\ Moved(q) /\ Aside(q)
           /\ req'[q].at = IF req[q].best = {} THEN "unmatched" ELSE "matched"
           /\ req'[q].look = req[q].look /\ Unwatched
<1>1. PICK at \in {"matched", "unmatched"} : /\ Goes(q, [req[q] EXCEPT !.at = at])
         /\ at = IF req[q].best = {} THEN "unmatched" ELSE "matched"
  BY Zenon DEF Matched
<1>2. at \in Places
  BY DEF Places
<1> QED BY <1>1, <1>2, OnlyAt DEF Matched

LEMMA UnwatchSays ==
    ASSUME TypeOK, NEW q \in Requests, Unwatch(q)
    PROVE  /\ torn' \in [Requests -> BOOLEAN]
           /\ seen' \in [Requests -> Lengths] /\ won' \in [Requests -> Lengths]
           /\ \A p \in Requests \ {q} : /\ torn'[p] = torn[p] /\ seen'[p] = seen[p]
                                        /\ won'[p] = won[p]
           /\ torn'[q] = FALSE /\ seen'[q] = 0 /\ won'[q] = 0
BY Defaults DEF TypeOK, Unwatch

\* What the gateway does with its route: it keeps what it asked for and found.
Holds(q) == req'[q].asked = req[q].asked /\ req'[q].best = req[q].best
            /\ req'[q].unread = req[q].unread /\ req'[q].look = req[q].look

LEMMA AuthSays ==
    ASSUME TypeOK, NEW q \in Requests, ReadAuth(q)
    PROVE  /\ req[q].at = "matched" /\ req'[q].at = "resolving" /\ Moved(q) /\ Holds(q)
           /\ \E i \in req[q].best : req'[q].keyless <=> ~route[i].auth
           /\ Unwatch(q) /\ UNCHANGED steady
<1> DEFINE r(b) == [req[q] EXCEPT !.at = "resolving", !.length = 0, !.keyless = b]
<1>1. PICK i \in req[q].best : Goes(q, r(~route[i].auth))
  BY Zenon DEF ReadAuth
<1>2. ASSUME NEW b \in BOOLEAN
      PROVE  /\ r(b) \in Request /\ r(b).at = "resolving" /\ r(b).keyless = b
             /\ r(b).asked = req[q].asked /\ r(b).best = req[q].best
             /\ r(b).unread = req[q].unread /\ r(b).look = req[q].look
  BY RequestFields, Defaults DEF Request
<1> HIDE DEF r
<1>3. (~route[i].auth) \in BOOLEAN
  OBVIOUS
<1>4. Moved(q) /\ req'[q] = r(~route[i].auth)
  BY <1>1, <1>2, <1>3, GoesSay, Zenon
<1>5. /\ r(~route[i].auth).at = "resolving" /\ r(~route[i].auth).keyless = ~route[i].auth
      /\ r(~route[i].auth).asked = req[q].asked /\ r(~route[i].auth).best = req[q].best
      /\ r(~route[i].auth).unread = req[q].unread /\ r(~route[i].auth).look = req[q].look
  BY <1>2, <1>3, Zenon
<1> QED BY <1>1, <1>4, <1>5, Zenon DEF ReadAuth, Holds

LEMMA ServiceSays ==
    ASSUME TypeOK, NEW q \in Requests, ReadService(q)
    PROVE  /\ req[q].at = "resolving" /\ req'[q].at \in {"forwarding", "refused"}
           /\ Moved(q) /\ Holds(q) /\ Unwatched
           /\ req'[q].keyless = req[q].keyless
           /\ \E i \in req[q].best : req'[q].service = route[i].service
<1> DEFINE r(at, s) == [req[q] EXCEPT !.at = at, !.service = s]
<1>1. PICK i \in req[q].best, at \in {"forwarding", "refused"} : Goes(q, r(at, route[i].service))
  BY Zenon DEF ReadService
<1>2. ASSUME NEW s \in Services
      PROVE  /\ r(at, s) \in Request /\ r(at, s).at = at /\ r(at, s).service = s
             /\ r(at, s).keyless = req[q].keyless
             /\ r(at, s).asked = req[q].asked /\ r(at, s).best = req[q].best
             /\ r(at, s).unread = req[q].unread /\ r(at, s).look = req[q].look
  BY RequestFields DEF Request
<1>3. route[i].service \in Services
  BY RequestFields DEF TypeOK, RouteObject
<1> HIDE DEF r
<1>4. Moved(q) /\ req'[q] = r(at, route[i].service)
  BY <1>1, <1>2, <1>3, GoesSay
<1> QED BY <1>1, <1>2, <1>3, <1>4 DEF ReadService, Holds

LEMMA DirectSays ==
    ASSUME TypeOK, NEW q \in Requests, Direct(q)
    PROVE  /\ req[q].at = "forwarding" /\ Moved(q) /\ Holds(q) /\ Unwatched
           /\ \E i \in req[q].best :
                 req'[q].at = IF route[i].strip THEN "stripping" ELSE "sent"
           /\ req'[q].service = req[q].service
           /\ req'[q].upstream = Joined(BasePath[req[q].service], req[q].asked.path)
<1> DEFINE joined == Joined(BasePath[req[q].service], req[q].asked.path)
           r(at, s) == [req[q] EXCEPT !.at = at, !.keyless = FALSE, !.upstream = s]
<1>1. PICK i \in req[q].best, at \in {"stripping", "sent"} :
         /\ Goes(q, r(at, joined))
         /\ at = IF route[i].strip THEN "stripping" ELSE "sent"
  BY Zenon DEF Direct
<1>2. joined \in Path
  BY PathsOfRoutes, JoinedIsPath
<1> HIDE DEF joined
<1>3. ASSUME NEW s \in Path
      PROVE  /\ r(at, s) \in Request /\ r(at, s).at = at /\ r(at, s).upstream = s
             /\ r(at, s).service = req[q].service
             /\ r(at, s).asked = req[q].asked /\ r(at, s).best = req[q].best
             /\ r(at, s).unread = req[q].unread /\ r(at, s).look = req[q].look
  BY RequestFields DEF Request
<1> HIDE DEF r
<1>4. Moved(q) /\ req'[q] = r(at, joined)
  BY <1>1, <1>2, <1>3, GoesSay
<1> QED BY <1>1, <1>2, <1>3, <1>4 DEF Direct, Holds, joined

LEMMA FindSays ==
    ASSUME TypeOK, NEW q \in Requests, FindPrefix(q)
    PROVE  /\ req[q].at = "stripping" /\ Moved(q) /\ Aside(q) /\ Holds(q) /\ Unwatched
           /\ \E i \in req[q].best :
                 req'[q].at = IF HasPrefix(req[q].upstream, route[i].path) THEN "trimming"
                                                                            ELSE "sent"
<1>1. PICK i \in req[q].best, at \in {"trimming", "sent"} :
         /\ Goes(q, [req[q] EXCEPT !.at = at])
         /\ at = IF HasPrefix(req[q].upstream, route[i].path) THEN "trimming" ELSE "sent"
  BY Zenon DEF FindPrefix
<1>2. at \in Places
  BY DEF Places
<1>3. Moved(q) /\ Aside(q) /\ req'[q].at = at /\ req'[q].look = req[q].look
  BY <1>1, <1>2, OnlyAt
<1> QED BY <1>1, <1>3, Zenon DEF FindPrefix, Aside, Holds

LEMMA StripSays ==
    ASSUME TypeOK, NEW q \in Requests, Strip(q)
    PROVE  /\ req[q].at = "trimming" /\ req'[q].at = "sent"
           /\ Moved(q) /\ Holds(q) /\ Unwatched /\ req'[q].service = req[q].service
           /\ \E i \in req[q].best : req'[q].upstream = Trimmed(req[q].upstream, route[i].path)
<1> DEFINE r(s) == [req[q] EXCEPT !.at = "sent", !.upstream = s]
<1>1. PICK i \in req[q].best : Goes(q, r(Trimmed(req[q].upstream, route[i].path)))
  BY Zenon DEF Strip
<1>2. Trimmed(req[q].upstream, route[i].path) \in Path
  BY RequestFields, PathsOfRoutes, TrimmedIsPath
<1>3. ASSUME NEW s \in Path
      PROVE  /\ r(s) \in Request /\ r(s).at = "sent" /\ r(s).upstream = s
             /\ r(s).service = req[q].service
             /\ r(s).asked = req[q].asked /\ r(s).best = req[q].best
             /\ r(s).unread = req[q].unread /\ r(s).look = req[q].look
  BY RequestFields DEF Request
<1> HIDE DEF r
<1>4. Moved(q) /\ req'[q] = r(Trimmed(req[q].upstream, route[i].path))
  BY <1>1, <1>2, <1>3, GoesSay
<1> QED BY <1>1, <1>2, <1>3, <1>4, ZenonT(40) DEF Strip, Holds

LEMMA LeaveSays ==
    ASSUME TypeOK, NEW q \in Requests, Leave(q)
    PROVE  /\ Moved(q) /\ req'[q] = NoRequest /\ Unwatch(q)
           /\ steady' \in [Requests -> SUBSET RouteIds] /\ steady'[q] = {}
           /\ \A p \in Requests \ {q} : steady'[p] = steady[p]
<1>1. Goes(q, NoRequest) /\ NoRequest \in Request
  BY Defaults DEF Leave
<1>2. /\ steady' \in [Requests -> SUBSET RouteIds] /\ steady'[q] = {}
      /\ \A p \in Requests \ {q} : steady'[p] = steady[p]
  BY DEF Leave, TypeOK
<1> QED BY <1>1, <1>2, GoesSay DEF Leave

\* All of that, of what concerns the others.
LEMMA RequestStepSays ==
    ASSUME TypeOK, NEW q \in Requests, RequestStep(q)
    PROVE  /\ Moved(q)
           /\ steady' \in [Requests -> SUBSET RouteIds] /\ torn' \in [Requests -> BOOLEAN]
           /\ seen' \in [Requests -> Lengths] /\ won' \in [Requests -> Lengths]
           /\ \A p \in Requests \ {q} : /\ steady'[p] = steady[p] /\ torn'[p] = torn[p]
                                        /\ seen'[p] = seen[p] /\ won'[p] = won[p]
<1> DEFINE Goal == /\ Moved(q)
                   /\ steady' \in [Requests -> SUBSET RouteIds]
                   /\ torn' \in [Requests -> BOOLEAN]
                   /\ seen' \in [Requests -> Lengths] /\ won' \in [Requests -> Lengths]
                   /\ \A p \in Requests \ {q} :
                         /\ steady'[p] = steady[p] /\ torn'[p] = torn[p]
                         /\ seen'[p] = seen[p] /\ won'[p] = won[p]
<1>1. /\ steady \in [Requests -> SUBSET RouteIds] /\ torn \in [Requests -> BOOLEAN]
      /\ seen \in [Requests -> Lengths] /\ won \in [Requests -> Lengths]
      /\ stored \subseteq RouteIds
  BY DEF TypeOK
<1>2. ASSUME Moved(q), Unwatched
      PROVE  Goal
  BY <1>1, <1>2 DEF Unwatched
<1>3. ASSUME NEW asked \in Asked, ListRoutes(q, asked)
      PROVE  Goal
  <2>1. /\ steady' \in [Requests -> SUBSET RouteIds]
        /\ \A p \in Requests \ {q} : steady'[p] = steady[p]
        /\ UNCHANGED <<torn, seen, won>>
    BY <1>1, <1>3 DEF ListRoutes
  <2> QED BY <1>1, <1>3, <2>1, ListSays
<1>4. ASSUME NEW i \in RouteIds, Look(q, i)
      PROVE  Goal
  BY <1>2, <1>4, LookSays DEF Look
<1>5. ASSUME NEW i \in RouteIds, Covers(q, i)
      PROVE  Goal
  BY <1>1, <1>5, CoversSays
<1>6. CASE Compare(q)
  BY <1>2, <1>5, <1>6, CompareSays, RequestFields
<1>7. CASE Prefix(q)
  BY <1>2, <1>5, <1>7, PrefixSays, PassOverSays, RequestFields
<1>8. CASE Measure(q)
  BY <1>2, <1>8, MeasureSays
<1>9. CASE Take(q)
  BY <1>1, <1>9, TakeSays
<1>10. CASE Matched(q)
  BY <1>2, <1>10, MatchedSays
<1>11. CASE ReadAuth(q)
  BY <1>1, <1>11, AuthSays, UnwatchSays
<1>12. CASE ReadService(q) \/ Direct(q) \/ FindPrefix(q) \/ Strip(q)
  BY <1>2, <1>12, ServiceSays, DirectSays, FindSays, StripSays
<1>13. CASE Leave(q)
  BY <1>1, <1>13, LeaveSays, UnwatchSays
<1> QED BY <1>3, <1>4, <1>6, <1>7, <1>8, <1>9, <1>10, <1>11, <1>12, <1>13 DEF RequestStep

LEMMA RequestTyped ==
    ASSUME TypeOK, NEW q \in Requests, RequestStep(q)
    PROVE  TypeOK'
<1>1. UNCHANGED <<route, born, stored, services, adm, updates, dirty, open, calm>>
      /\ req' \in [Requests -> Request]
  BY RequestStepSays DEF Moved, written
<1>2. /\ steady' \in [Requests -> SUBSET RouteIds] /\ torn' \in [Requests -> BOOLEAN]
      /\ seen' \in [Requests -> Lengths] /\ won' \in [Requests -> Lengths]
  BY RequestStepSays
<1> QED BY <1>1, <1>2 DEF TypeOK

-----------------------------------------------------------------------------
\* Types, and whose the ids of creations are, in every step.
LEMMA IdsKept ==
    ASSUME CallInv, NEW a \in Admins, AdminStep(a), TypeOK'
    PROVE  IdsOfCalls'
<1>1. TypeOK /\ IdsOfCalls
  BY DEF CallInv
<1>2. ASSUME adm'[a].at \in UpdatePlaces \cup {"idle"}, adm[a].at \in UpdatePlaces,
             adm'[a].at # "idle" => adm'[a].id = adm[a].id,
             \A b \in Admins \ {a} : adm'[b] = adm[b], UNCHANGED <<born, stored>>
      PROVE  IdsOfCalls'
  BY <1>1, <1>2, PlacesOfUpdates DEF IdsOfCalls
<1>3. ASSUME NEW i \in RouteIds, NEW o \in Sent, StartCreate(a, i, o)
      PROVE  IdsOfCalls'
  BY <1>1, <1>3 DEF StartCreate, IdsOfCalls, TypeOK
<1>4. ASSUME NEW i \in RouteIds, NEW o \in Sent, StartUpdate(a, i, o)
      PROVE  IdsOfCalls'
  BY <1>1, <1>4 DEF StartUpdate, IdsOfCalls, TypeOK
<1>5. ASSUME NEW i \in RouteIds, RouteMissing(a, i)
      PROVE  IdsOfCalls'
  BY <1>1, <1>5 DEF RouteMissing, vars, IdsOfCalls
<1>6. CASE StoreCreated(a)
  BY <1>1, <1>6, Defaults DEF StoreCreated, IdsOfCalls, TypeOK
<1>7. CASE WriteStep(a)
  BY <1>1, <1>2, <1>7, WritesSay
<1>8. CASE ReadStep(a)
  BY <1>1, <1>2, <1>8, ReadsSay DEF UpdatePlaces
<1>9. CASE CheckStep(a)
  BY <1>1, <1>2, <1>9, ChecksSay DEF UpdatePlaces
<1>10. CASE UpdateStore(a)
  BY <1>1, <1>2, <1>10, Defaults DEF UpdateStore, UpdatePlaces, TypeOK
<1> QED BY <1>3, <1>4, <1>5, <1>6, <1>7, <1>8, <1>9, <1>10, KindsOfSteps DEF AdminStep

LEMMA CallStep == CallInv /\ [Next]_vars => CallInv'
<1> SUFFICES ASSUME CallInv, [Next]_vars PROVE CallInv'
  OBVIOUS
<1> USE DEF CallInv
<1>1. ASSUME NEW a \in Admins, AdminStep(a)
      PROVE  CallInv'
  BY <1>1, AdminTyped, IdsKept
<1>2. ASSUME NEW q \in Requests, RequestStep(q)
      PROVE  CallInv'
  <2>1. UNCHANGED <<born, stored, adm>>
    BY <1>2, RequestStepSays DEF Moved, written
  <2> QED BY <1>2, <2>1, RequestTyped DEF IdsOfCalls
<1>3. ASSUME NEW i \in RouteIds, DeleteRoute(i)
      PROVE  CallInv'
  <2>1. TypeOK'
    BY <1>3, WatchTyped DEF DeleteRoute, TypeOK
  <2> QED BY <1>3, <2>1 DEF DeleteRoute, IdsOfCalls
<1>4. ASSUME NEW s \in Services, DeleteService(s)
      PROVE  CallInv'
  BY <1>4 DEF DeleteService, TypeOK, IdsOfCalls
<1>5. CASE UNCHANGED vars
  BY <1>5 DEF vars, TypeOK, IdsOfCalls
<1> QED BY <1>1, <1>2, <1>3, <1>4, <1>5 DEF Next

LEMMA CallsCorrect == Spec => []CallInv
<1> QED BY CallInit, CallStep, PTL DEF Spec

\* Ids are created once, and only what has been created is stored: with that the
\* routes, the calls and the requests keep their types, and what is asked of a
\* service is a path, whatever base URLs and prefixes there are.
THEOREM TypeCorrect == Spec => []TypeOK
<1>1. CallInv => TypeOK
  BY DEF CallInv
<1> QED BY <1>1, CallsCorrect, PTL

-----------------------------------------------------------------------------
\* Duplicates.

\* A step that changes no key, lets no route in, and takes no excuse away.
LEMMA ExcusesStay ==
    ASSUME DuplicatesOnlyByFailure, stored' \subseteq stored,
           \A i \in stored : SameKey(route'[i], route[i]),
           \A i \in stored : (i \in dirty \/ Updating(i)) => (i \in dirty' \/ Updating(i)')
    PROVE  DuplicatesOnlyByFailure'
BY DEF DuplicatesOnlyByFailure, SameKey

LEMMA DuplicatesInit == Init => DuplicatesOnlyByFailure
BY DEF Init, DuplicatesOnlyByFailure

LEMMA DuplicatesKept ==
    ASSUME CallInv, DuplicatesOnlyByFailure, NEW a \in Admins, AdminStep(a)
    PROVE  DuplicatesOnlyByFailure'
<1> USE DEF CallInv
<1>1. stored \subseteq RouteIds /\ adm \in [Admins -> Call]
  BY DEF TypeOK
<1>2. ASSUME UNCHANGED <<route, stored>>, dirty \subseteq dirty',
             \A k \in RouteIds : Updating(k) => (Updating(k)' \/ k \in dirty')
      PROVE  DuplicatesOnlyByFailure'
  BY <1>1, <1>2, ExcusesStay DEF SameKey
<1>3. ASSUME NEW i \in RouteIds, NEW o \in Sent, StartCreate(a, i, o)
      PROVE  DuplicatesOnlyByFailure'
  <2>1. \A k \in RouteIds : Updating(k) => Updating(k)'
    BY <1>1, <1>3 DEF StartCreate, Updating
  <2> QED BY <1>2, <1>3, <2>1 DEF StartCreate
<1>4. ASSUME NEW i \in RouteIds, NEW o \in Sent, StartUpdate(a, i, o)
      PROVE  DuplicatesOnlyByFailure'
  <2>1. \A k \in RouteIds : Updating(k) => Updating(k)'
    BY <1>1, <1>4 DEF StartUpdate, Updating
  <2> QED BY <1>2, <1>4, <2>1 DEF StartUpdate
<1>5. ASSUME NEW i \in RouteIds, RouteMissing(a, i)
      PROVE  DuplicatesOnlyByFailure'
  BY <1>5 DEF RouteMissing, vars, DuplicatesOnlyByFailure, Updating
<1>6. CASE StoreCreated(a)
  <2>1. \A k \in RouteIds : Updating(k) => Updating(k)'
    BY <1>1, <1>6 DEF StoreCreated, Updating
  <2>2. CASE KeyTaken(adm[a].id, adm[a].wants)
    BY <1>2, <1>6, <2>1, <2>2 DEF StoreCreated
  <2>3. CASE ~KeyTaken(adm[a].id, adm[a].wants)
    <3> DEFINE i == adm[a].id
    <3>1. /\ i \in RouteIds /\ stored' = stored \cup {i} /\ UNCHANGED dirty
          /\ route'[i] = adm[a].wants /\ \A k \in stored \ {i} : route'[k] = route[k]
      BY <1>1, <1>6, <2>3 DEF StoreCreated, Call, TypeOK
    <3>2. \A k \in stored \ {i} : ~SameKey(route'[k], route'[i])
      BY <2>3, <3>1 DEF KeyTaken
    <3> QED BY <1>1, <2>1, <3>1, <3>2 DEF DuplicatesOnlyByFailure, SameKey
  <2> QED BY <2>2, <2>3
<1>7. CASE WriteStep(a)
  <2>1. \A k \in RouteIds : Updating(k) => Updating(k)'
    BY <1>7, WritesSay, PlacesOfUpdates DEF Updating
  <2>2. \A k \in RouteIds : k = adm[a].id => Updating(k)'
    BY <1>7, WritesSay, PlacesOfUpdates DEF Updating
  <2>3. /\ \A k \in RouteIds \ {adm[a].id} : route'[k] = route[k]
        /\ UNCHANGED <<stored, dirty>>
    BY <1>7, WritesSay
  <2>4. SUFFICES ASSUME NEW i \in stored, NEW j \in stored, i # j,
                        SameKey(route'[i], route'[j]), i # adm[a].id, j # adm[a].id
                 PROVE  \E k \in {i, j} : k \in dirty' \/ Updating(k)'
    BY <1>1, <2>2, <2>3 DEF DuplicatesOnlyByFailure
  <2>5. SameKey(route[i], route[j])
    BY <1>1, <2>3, <2>4
  <2>6. PICK k \in {i, j} : k \in dirty \/ Updating(k)
    BY <2>4, <2>5 DEF DuplicatesOnlyByFailure
  <2> QED BY <1>1, <2>1, <2>3, <2>6
<1>8. CASE ReadStep(a)
  <2>1. \A k \in RouteIds : Updating(k) => Updating(k)'
    BY <1>8, ReadsSay DEF Updating
  <2> QED BY <1>2, <1>8, <2>1, ReadsSay
<1>9. CASE CheckStep(a)
  <2>1. \A k \in RouteIds : Updating(k) => (Updating(k)' \/ k \in dirty')
    BY <1>9, ChecksSay DEF Updating
  <2>2. UNCHANGED <<route, stored>> /\ dirty \subseteq dirty'
    BY <1>9, ChecksSay
  <2> QED BY <1>2, <2>1, <2>2
<1>10. CASE UpdateStore(a)
  <2> DEFINE i == adm[a].id
  <2>1. i \in RouteIds /\ UNCHANGED <<route, stored>>
    BY <1>1, <1>10 DEF UpdateStore, Call
  <2>2. \A k \in RouteIds \ {i} : (k \in dirty' <=> k \in dirty) /\ (Updating(k) => Updating(k)')
    BY <1>1, <1>10 DEF UpdateStore, Updating
  <2>3. CASE i \in stored /\ ~KeyTaken(i, route[i])
    <3>1. \A k \in stored \ {i} : ~SameKey(route[k], route[i])
      BY <2>3 DEF KeyTaken
    <3> QED BY <1>1, <2>1, <2>2, <3>1 DEF DuplicatesOnlyByFailure, SameKey
  <2>4. CASE ~(i \in stored /\ ~KeyTaken(i, route[i]))
    <3>1. i \in dirty'
      BY <1>10, <2>4 DEF UpdateStore
    <3> QED BY <1>1, <2>1, <2>2, <3>1 DEF DuplicatesOnlyByFailure
  <2> QED BY <2>3, <2>4
<1> QED BY <1>3, <1>4, <1>5, <1>6, <1>7, <1>8, <1>9, <1>10, KindsOfSteps DEF AdminStep

LEMMA DuplicatesStep ==
    CallInv /\ DuplicatesOnlyByFailure /\ [Next]_vars => DuplicatesOnlyByFailure'
<1> SUFFICES ASSUME CallInv, DuplicatesOnlyByFailure, [Next]_vars
             PROVE  DuplicatesOnlyByFailure'
  OBVIOUS
<1>1. ASSUME NEW a \in Admins, AdminStep(a)
      PROVE  DuplicatesOnlyByFailure'
  BY <1>1, DuplicatesKept
<1>2. ASSUME UNCHANGED <<route, stored, adm, dirty>>
      PROVE  DuplicatesOnlyByFailure'
  BY <1>2 DEF DuplicatesOnlyByFailure, Updating
<1>3. ASSUME NEW q \in Requests, RequestStep(q)
      PROVE  DuplicatesOnlyByFailure'
  BY <1>2, <1>3, RequestStepSays DEF Moved, written, CallInv
<1>4. ASSUME NEW i \in RouteIds, DeleteRoute(i)
      PROVE  DuplicatesOnlyByFailure'
  BY <1>4 DEF DeleteRoute, DuplicatesOnlyByFailure, Updating
<1>5. ASSUME NEW s \in Services, DeleteService(s)
      PROVE  DuplicatesOnlyByFailure'
  BY <1>2, <1>5 DEF DeleteService
<1>6. CASE UNCHANGED vars
  BY <1>2, <1>6 DEF vars
<1> QED BY <1>1, <1>3, <1>4, <1>5, <1>6 DEF Next

\* The check at the end of an update, of a key written, read and written back
\* steps before without the lock, keeps the method and path unique, whatever is
\* created, deleted and updated in between: of two stored routes with one key, one
\* is being updated, or its last update was refused and left it so.
THEOREM KeysAreUnique == Spec => []DuplicatesOnlyByFailure
<1> QED BY CallsCorrect, DuplicatesInit, DuplicatesStep, PTL DEF Spec

-----------------------------------------------------------------------------
\* Matching and rewriting.

Looking == {"comparing", "prefixing", "measuring", "taking"}
Choosing == Looking \cup {"matching", "matched"}

\* There is one route looked at, and one best.
Single(q) ==
    /\ req[q].at = "idle" => req[q].best = {} /\ steady[q] = {}
    /\ \A i, j \in req[q].best : i = j
    /\ \A i, j \in req[q].look : i = j

\* A route that has not changed covers what is asked for if a look at it found so.
Covering(q) ==
    /\ \A i \in steady[q] \cap req[q].best : IsPrefix(route[i].path, req[q].asked.path)
    /\ \A i \in steady[q] \cap req[q].look :
          /\ req[q].at = "prefixing" => route[i].path # req[q].asked.path
          /\ req[q].at \in {"measuring", "taking"} =>
                IsPrefix(route[i].path, req[q].asked.path)

\* While no look is torn, lengths are of paths that covered what is asked for.
Measured(q) ==
    ~torn[q] =>
        /\ req[q].at \in {"measuring", "taking"} =>
              \A i \in req[q].look : seen[q] = Chars[route[i].path]
        /\ req[q].at = "taking" => req[q].best = {} \/ seen[q] > req[q].length
        /\ (req[q].at \in Choosing /\ req[q].best # {}) => won[q] = req[q].length

\* Of the routes that have not changed, a request has those that fit still before
\* it, or holds one, which is no shorter if no look was torn.
Found(q) ==
    \A i \in Fit(q) :
        \/ req[q].at \in Looking \cup {"matching"} /\ i \in req[q].unread
        \/ req[q].at \in Looking /\ i \in req[q].look
        \/ /\ req[q].best # {} /\ req[q].at # "unmatched"
           /\ (~torn[q] /\ req[q].at \in Choosing) => req[q].length >= Chars[route[i].path]

Matches(q) == Single(q) /\ Covering(q) /\ Measured(q) /\ Found(q)

\* A path that has yet to be trimmed is the one asked for, and will be trimmed.
Rewritten(q) ==
    BasePath[req[q].service] = Empty =>
        \A i \in steady[q] : i \in req[q].best =>
            /\ req[q].at \in {"stripping", "trimming"} =>
                  route[i].strip /\ req[q].upstream = req[q].asked.path
            /\ req[q].at = "sent" =>
                  req[q].upstream = IF route[i].strip
                                    THEN Below(route[i].path, req[q].asked.path)
                                    ELSE req[q].asked.path

MatchInv == CallInv /\ \A q \in Requests : Matches(q) /\ Rewritten(q)

LEMMA MatchInit == Init => MatchInv
<1> SUFFICES ASSUME Init, NEW q \in Requests PROVE Matches(q) /\ Rewritten(q)
  BY CallInit DEF MatchInv
<1>1. /\ req[q] = NoRequest /\ steady[q] = {} /\ NoRequest.at = "idle" /\ NoRequest.best = {}
      /\ NoRequest.look = {}
  BY Defaults DEF Init
<1> QED BY <1>1 DEF Matches, Rewritten, Single, Covering, Measured, Found, Fit, Choosing, Looking

\* What a step of another actor leaves of a request's steady routes is as it was,
\* and so is the path it measures, or the look is torn.
Undisturbed(q) ==
    /\ req'[q] = req[q] /\ seen'[q] = seen[q] /\ won'[q] = won[q]
    /\ steady'[q] \subseteq steady[q]
    /\ \A i \in steady'[q] : SameKey(route'[i], route[i]) /\ route'[i].strip = route[i].strip
    /\ ~torn'[q] => ~torn[q]
    /\ (~torn'[q] /\ req[q].at \in {"measuring", "taking"}) =>
          \A i \in req[q].look : route'[i].path = route[i].path

LEMMA MatchUndisturbed ==
    ASSUME MatchInv, NEW q \in Requests, Undisturbed(q)
    PROVE  Matches(q)' /\ Rewritten(q)'
<1>1. Matches(q) /\ Rewritten(q)
  BY DEF MatchInv
<1>2. Single(q)'
  BY <1>1 DEF Matches, Single, Undisturbed
<1>3. Covering(q)'
  BY <1>1 DEF Matches, Covering, Undisturbed, SameKey
<1>4. Measured(q)'
  BY <1>1 DEF Matches, Measured, Undisturbed
<1>5. Found(q)'
  <2>1. \A i \in Fit(q)' : i \in Fit(q) /\ route'[i].path = route[i].path
    BY DEF Fit, Undisturbed, SameKey
  <2> QED BY <1>1, <2>1 DEF Matches, Found, Undisturbed
<1>6. Rewritten(q)'
  BY <1>1 DEF Rewritten, Undisturbed, SameKey
<1> QED BY <1>2, <1>3, <1>4, <1>5, <1>6 DEF Matches

LEMMA OthersDisturbNone ==
    ASSUME CallInv, NEW q \in Requests,
           \/ \E a \in Admins : AdminStep(a)
           \/ \E i \in RouteIds : DeleteRoute(i)
           \/ \E s \in Services : DeleteService(s)
           \/ \E p \in Requests \ {q} : RequestStep(p)
           \/ UNCHANGED vars
    PROVE  Undisturbed(q)
<1> USE DEF CallInv
<1>1. torn \in [Requests -> BOOLEAN]
  BY DEF TypeOK
<1>2. ASSUME UNCHANGED <<req, steady, torn, seen, won, route>>
      PROVE  Undisturbed(q)
  BY <1>2 DEF Undisturbed, SameKey
<1>3. ASSUME UNCHANGED <<req, seen, won>>, Watch
      PROVE  Undisturbed(q)
  BY <1>1, <1>3 DEF Watch, Undisturbed
<1>4. ASSUME NEW a \in Admins, AdminStep(a)
      PROVE  Undisturbed(q)
  <2>1. CASE StoreCreated(a)
    BY <1>3, <2>1 DEF StoreCreated
  <2>2. CASE WriteStep(a)
    BY <1>3, <2>2, WritesSay
  <2>3. CASE ReadStep(a)
    BY <1>2, <2>3, ReadsSay
  <2>4. CASE CheckStep(a)
    BY <1>2, <2>4, ChecksSay
  <2>5. CASE UpdateStore(a)
    BY <1>2, <2>5 DEF UpdateStore
  <2>6. ASSUME NEW i \in RouteIds, NEW o \in Sent, StartCreate(a, i, o) \/ StartUpdate(a, i, o)
        PROVE  Undisturbed(q)
    BY <1>2, <2>6 DEF StartCreate, StartUpdate
  <2>7. ASSUME NEW i \in RouteIds, RouteMissing(a, i)
        PROVE  Undisturbed(q)
    BY <1>2, <2>7 DEF RouteMissing, vars
  <2> QED BY <1>4, <2>1, <2>2, <2>3, <2>4, <2>5, <2>6, <2>7, KindsOfSteps DEF AdminStep
<1>5. ASSUME NEW i \in RouteIds, DeleteRoute(i)
      PROVE  Undisturbed(q)
  BY <1>3, <1>5 DEF DeleteRoute
<1>6. ASSUME NEW s \in Services, DeleteService(s)
      PROVE  Undisturbed(q)
  BY <1>2, <1>6 DEF DeleteService
<1>7. ASSUME NEW p \in Requests \ {q}, RequestStep(p)
      PROVE  Undisturbed(q)
  <2>1. /\ req'[q] = req[q] /\ route' = route /\ steady'[q] = steady[q] /\ torn'[q] = torn[q]
        /\ seen'[q] = seen[q] /\ won'[q] = won[q]
    BY <1>7, RequestStepSays DEF Moved, written
  <2> QED BY <2>1 DEF Undisturbed, SameKey
<1>8. CASE UNCHANGED vars
  BY <1>2, <1>8 DEF vars
<1> QED BY <1>4, <1>5, <1>6, <1>7, <1>8

\* A step of the request itself, by the part of what it knows.
LEMMA MatchesStep ==
    ASSUME MatchInv, NEW q \in Requests, RequestStep(q)
    PROVE  Matches(q)'
<1>1. /\ TypeOK /\ Single(q) /\ Covering(q) /\ Measured(q) /\ Found(q)
      /\ req[q].best \subseteq RouteIds /\ req[q].look \subseteq RouteIds
      /\ steady[q] \subseteq RouteIds /\ req[q].length \in Nat /\ seen[q] \in Nat
  BY RequestFields, Defaults DEF MatchInv, CallInv, Matches, TypeOK
<1>2. /\ route' = route /\ \A i \in RouteIds : Chars[route[i].path] \in Nat
      /\ stored \subseteq RouteIds
  BY <1>1, RequestStepSays, PathsOfRoutes, Defaults DEF Moved, written, TypeOK
<1>3. ASSUME steady' = steady, req'[q].asked = req[q].asked
      PROVE  Fit(q)' = Fit(q)
  BY <1>2, <1>3 DEF Fit
<1>4. Fit(q) \subseteq RouteIds /\ Fit(q) \subseteq steady[q]
      /\ \A i \in Fit(q) : IsPrefix(route[i].path, req[q].asked.path)
                           /\ route[i].method = req[q].asked.method
  BY <1>1 DEF Fit
<1>5. ASSUME NEW asked \in Asked, ListRoutes(q, asked)
      PROVE  Matches(q)'
  <2>1. /\ req[q].best = {} /\ req'[q].best = {} /\ req'[q].at = "matching"
        /\ req'[q].unread = stored /\ req'[q].look = req[q].look
    BY <1>1, <1>5, ListSays DEF Single
  <2>2. Fit(q)' \subseteq stored
    BY <1>5 DEF Fit, ListRoutes, TypeOK, MatchInv, CallInv
  <2> QED BY <1>1, <2>1, <2>2 DEF Matches, Single, Covering, Measured, Found, Looking, Choosing
<1>6. ASSUME NEW i \in RouteIds, Look(q, i)
      PROVE  Matches(q)'
  <2>1. /\ req[q].at = "matching" /\ i \in req[q].unread
        /\ req'[q].unread = req[q].unread \ {i}
        /\ \/ /\ route[i].method = req[q].asked.method
              /\ req'[q].at = "comparing" /\ req'[q].look = {i}
           \/ /\ route[i].method # req[q].asked.method
              /\ req'[q].at = "matching" /\ req'[q].look = {}
        /\ req'[q].asked = req[q].asked /\ req'[q].best = req[q].best
        /\ req'[q].length = req[q].length
    BY <1>1, <1>6, LookSays
  <2>2. UNCHANGED <<steady, torn, seen, won>>
    BY <1>6 DEF Look, Unwatched
  <2>3. Single(q)' /\ Covering(q)'
    BY <1>1, <1>2, <2>1, <2>2 DEF Single, Covering
  <2>4. Measured(q)'
    BY <1>1, <2>1, <2>2 DEF Measured, Choosing
  <2>5. Found(q)'
    BY <1>1, <1>2, <1>3, <1>4, <2>1, <2>2 DEF Found, Looking, Choosing
  <2> QED BY <2>3, <2>4, <2>5 DEF Matches
<1>7. ASSUME NEW i \in req[q].look, Covers(q, i), req[q].at \in {"comparing", "prefixing"},
             i \in steady[q] => IsPrefix(route[i].path, req[q].asked.path)
      PROVE  Matches(q)'
  <2>1. /\ Aside(q) /\ req'[q].at = "measuring" /\ req'[q].look = req[q].look
        /\ seen'[q] = Chars[route[i].path] /\ UNCHANGED <<steady, torn, won>>
    BY <1>1, <1>7, CoversSays
  <2>2. \A j \in req[q].look : j = i
    BY <1>1 DEF Single
  <2>3. Single(q)' /\ Covering(q)'
    BY <1>1, <1>2, <1>7, <2>1, <2>2 DEF Single, Covering, Aside
  <2>4. Measured(q)'
    BY <1>1, <1>2, <1>7, <2>1, <2>2 DEF Measured, Choosing, Looking, Aside
  <2>5. Found(q)'
    BY <1>1, <1>2, <1>3, <1>7, <2>1 DEF Found, Looking, Choosing, Aside
  <2> QED BY <2>3, <2>4, <2>5 DEF Matches
<1>8. ASSUME NEW i \in req[q].look, i \in Fit(q) => req[q].best # {}
                 /\ (~torn[q] => req[q].length >= Chars[route[i].path]),
             req[q].at \in Looking, Aside(q), Unwatched,
             req'[q].at = "matching", req'[q].look = {}
      PROVE  Matches(q)'
  <2>1. \A j \in req[q].look : j = i
    BY <1>1 DEF Single
  <2>2. UNCHANGED <<steady, torn, seen, won>>
    BY <1>8 DEF Unwatched
  <2>3. Single(q)' /\ Covering(q)'
    BY <1>1, <1>2, <1>8, <2>2 DEF Single, Covering, Aside
  <2>4. Measured(q)'
    BY <1>1, <1>8, <2>2 DEF Measured, Choosing, Looking, Aside
  <2>5. Found(q)'
    BY <1>1, <1>2, <1>3, <1>8, <2>1, <2>2 DEF Found, Looking, Choosing, Aside
  <2> QED BY <2>3, <2>4, <2>5 DEF Matches
<1>9. CASE Compare(q)
  <2>1. PICK i \in req[q].look :
           \/ route[i].path = req[q].asked.path /\ Covers(q, i)
           \/ /\ route[i].path # req[q].asked.path
              /\ req'[q].at = "prefixing" /\ req'[q].look = req[q].look /\ Unwatched
    BY <1>1, <1>9, CompareSays
  <2>2. req[q].at = "comparing" /\ Aside(q) /\ req[q].asked.path \in Seq(Segments)
    BY <1>1, <1>9, CompareSays, PathsOfRoutes, PathLength
  <2>3. CASE route[i].path = req[q].asked.path /\ Covers(q, i)
    <3>1. IsPrefix(route[i].path, req[q].asked.path)
      BY <2>2, <2>3, CoveredBelow
    <3> QED BY <1>7, <2>2, <2>3, <3>1
  <2>4. CASE /\ route[i].path # req[q].asked.path
             /\ req'[q].at = "prefixing" /\ req'[q].look = req[q].look /\ Unwatched
    <3>1. \A j \in req[q].look : j = i
      BY <1>1 DEF Single
    <3>2. UNCHANGED <<steady, torn, seen, won>>
      BY <2>4 DEF Unwatched
    <3>3. Single(q)' /\ Covering(q)'
      BY <1>1, <1>2, <2>2, <2>4, <3>1, <3>2 DEF Single, Covering, Aside
    <3>4. Measured(q)'
      BY <1>1, <2>2, <2>4, <3>2 DEF Measured, Choosing, Looking, Aside
    <3>5. Found(q)'
      BY <1>1, <1>2, <1>3, <2>2, <2>4, <3>2 DEF Found, Looking, Choosing, Aside
    <3> QED BY <3>3, <3>4, <3>5 DEF Matches
  <2> QED BY <2>1, <2>3, <2>4
<1>10. CASE Prefix(q)
  <2>1. PICK i \in req[q].look :
           \/ CoversBelow(route[i].path, req[q].asked.path) /\ Covers(q, i)
           \/ ~CoversBelow(route[i].path, req[q].asked.path) /\ PassOver(q)
    BY <1>1, <1>10, PrefixSays
  <2>2. /\ req[q].at = "prefixing" /\ req[q].asked.path \in Seq(Segments)
        /\ route[i].path \in Seq(Segments) /\ i \in RouteIds
    BY <1>1, <1>10, PrefixSays, PathsOfRoutes, PathLength
  <2>3. CASE CoversBelow(route[i].path, req[q].asked.path) /\ Covers(q, i)
    <3>1. IsPrefix(route[i].path, req[q].asked.path)
      BY <2>2, <2>3, CoveredBelow
    <3> QED BY <1>7, <2>2, <2>3, <3>1
  <2>4. CASE ~CoversBelow(route[i].path, req[q].asked.path) /\ PassOver(q)
    <3>1. i \in steady[q] => route[i].path # req[q].asked.path
      BY <1>1, <2>2 DEF Covering
    <3>2. i \notin Fit(q)
      BY <1>4, <2>2, <2>4, <3>1, CoveredBelow
    <3>3. Aside(q) /\ req'[q].at = "matching" /\ req'[q].look = {} /\ Unwatched
      BY <1>1, <2>4, PassOverSays
    <3>4. req[q].at \in Looking
      BY <2>2 DEF Looking
    <3> QED BY <1>8, <3>2, <3>3, <3>4
  <2> QED BY <2>1, <2>3, <2>4
<1>11. CASE Measure(q)
  <2>1. PICK i \in req[q].look :
           \/ /\ req[q].best = {} \/ Chars[route[i].path] > req[q].length
              /\ req'[q].at = "taking" /\ req'[q].look = req[q].look
           \/ /\ ~(req[q].best = {} \/ Chars[route[i].path] > req[q].length)
              /\ req'[q].at = "matching" /\ req'[q].look = {}
    BY <1>1, <1>11, MeasureSays
  <2>2. req[q].at = "measuring" /\ Aside(q) /\ Unwatched
    BY <1>1, <1>11, MeasureSays
  <2>3. CASE /\ req[q].best = {} \/ Chars[route[i].path] > req[q].length
             /\ req'[q].at = "taking" /\ req'[q].look = req[q].look
    <3>1. UNCHANGED <<steady, torn, seen, won>>
      BY <2>2 DEF Unwatched
    <3>2. ~torn[q] => seen[q] = Chars[route[i].path]
      BY <1>1, <2>2 DEF Measured
    <3>3. Single(q)' /\ Covering(q)'
      BY <1>1, <1>2, <2>2, <2>3, <3>1 DEF Single, Covering, Aside
    <3>4. Measured(q)'
      BY <1>1, <1>2, <2>2, <2>3, <3>1, <3>2 DEF Measured, Choosing, Looking, Aside
    <3>5. Found(q)'
      BY <1>1, <1>2, <1>3, <2>2, <2>3, <3>1 DEF Found, Looking, Choosing, Aside
    <3> QED BY <3>3, <3>4, <3>5 DEF Matches
  <2>4. CASE /\ ~(req[q].best = {} \/ Chars[route[i].path] > req[q].length)
             /\ req'[q].at = "matching" /\ req'[q].look = {}
    <3>1. i \in RouteIds /\ req[q].best # {} /\ req[q].length >= Chars[route[i].path]
      BY <1>1, <1>2, <2>4
    <3>2. req[q].at \in Looking
      BY <2>2 DEF Looking
    <3> QED BY <1>8, <2>2, <2>4, <3>1, <3>2
  <2> QED BY <2>1, <2>3, <2>4
<1>12. CASE Take(q)
  <2>1. PICK i \in req[q].look : /\ req'[q].best = {i}
                                 /\ req'[q].length = Chars[route[i].path]
    BY <1>1, <1>12, TakeSays
  <2>2. /\ req[q].at = "taking" /\ req'[q].at = "matching" /\ req'[q].look = {}
        /\ req'[q].asked = req[q].asked /\ req'[q].unread = req[q].unread
        /\ won'[q] = seen[q] /\ UNCHANGED <<steady, torn, seen>>
    BY <1>1, <1>12, TakeSays
  <2>3. (\A j \in req[q].look : j = i) /\ i \in RouteIds
    BY <1>1 DEF Single
  <2>4. ~torn[q] => /\ seen[q] = Chars[route[i].path]
                    /\ req[q].best = {} \/ seen[q] > req[q].length
    BY <1>1, <2>2 DEF Measured
  <2>5. Single(q)' /\ Covering(q)'
    BY <1>1, <1>2, <2>1, <2>2 DEF Single, Covering
  <2>6. Measured(q)'
    BY <1>2, <2>1, <2>2, <2>4 DEF Measured
  <2>7. ASSUME NEW j \in Fit(q), j \notin req[q].unread, ~torn[q]
        PROVE  req'[q].length >= Chars[route[j].path]
    <3>1. j \in RouteIds /\ Chars[route[j].path] \in Nat /\ Chars[route[i].path] \in Nat
      BY <1>2, <1>4, <2>3
    <3>2. j = i \/ (req[q].best # {} /\ req[q].length >= Chars[route[j].path])
      BY <1>1, <2>2, <2>3, <2>7 DEF Found, Looking, Choosing
    <3> QED BY <1>1, <2>1, <2>4, <2>7, <3>1, <3>2
  <2>8. Found(q)'
    BY <1>2, <1>3, <2>1, <2>2, <2>7 DEF Found, Looking
  <2> QED BY <2>5, <2>6, <2>8 DEF Matches
<1>13. CASE Matched(q)
  <2>1. /\ req[q].at = "matching" /\ req[q].unread = {} /\ Aside(q)
        /\ req'[q].at = (IF req[q].best = {} THEN "unmatched" ELSE "matched")
        /\ req'[q].look = req[q].look
    BY <1>1, <1>13, MatchedSays
  <2>2. UNCHANGED <<steady, torn, seen, won>>
    BY <1>1, <1>13, MatchedSays DEF Unwatched
  <2>3. Single(q)' /\ Covering(q)'
    BY <1>1, <1>2, <2>1, <2>2 DEF Single, Covering, Aside
  <2>4. Measured(q)'
    BY <1>1, <2>1, <2>2 DEF Measured, Choosing, Looking, Aside
  <2>5. Found(q)'
    BY <1>1, <1>2, <1>3, <2>1, <2>2 DEF Found, Looking, Choosing, Aside
  <2> QED BY <2>3, <2>4, <2>5 DEF Matches
<1>14. ASSUME Holds(q), steady' = steady, req[q].at \notin Looking \cup {"matching", "unmatched"},
              req'[q].at \notin Choosing \cup {"idle", "unmatched"}
       PROVE  Matches(q)'
  <2>1. Single(q)' /\ Covering(q)'
    BY <1>1, <1>2, <1>14 DEF Single, Covering, Holds, Choosing, Looking
  <2>2. Measured(q)'
    BY <1>14 DEF Measured, Choosing, Looking
  <2>3. Found(q)'
    BY <1>1, <1>2, <1>3, <1>14 DEF Found, Holds
  <2> QED BY <2>1, <2>2, <2>3 DEF Matches
<1>15. CASE ReadAuth(q)
  BY <1>1, <1>14, <1>15, AuthSays DEF Looking, Choosing
<1>16. CASE ReadService(q) \/ Direct(q) \/ FindPrefix(q) \/ Strip(q)
  <2>1. /\ Holds(q) /\ steady' = steady
        /\ req[q].at \in {"resolving", "forwarding", "stripping", "trimming"}
        /\ req'[q].at \in {"forwarding", "refused", "stripping", "trimming", "sent"}
    BY <1>1, <1>16, ServiceSays, DirectSays, FindSays, StripSays DEF Unwatched
  <2> QED BY <1>14, <2>1 DEF Looking, Choosing
<1>17. CASE Leave(q)
  <2>1. /\ req'[q].at = "idle" /\ req'[q].best = {} /\ req'[q].look = {} /\ steady'[q] = {}
    BY <1>1, <1>17, LeaveSays, Defaults
  <2> QED BY <2>1 DEF Matches, Single, Covering, Measured, Found, Fit, Choosing, Looking
<1> QED BY <1>5, <1>6, <1>9, <1>10, <1>11, <1>12, <1>13, <1>15, <1>16, <1>17 DEF RequestStep

LEMMA RewrittenStep ==
    ASSUME MatchInv, NEW q \in Requests, RequestStep(q)
    PROVE  Rewritten(q)'
<1>1. /\ TypeOK /\ Single(q) /\ Covering(q) /\ Rewritten(q) /\ req[q].look \subseteq RouteIds
      /\ req[q].best \subseteq RouteIds /\ steady[q] \subseteq RouteIds
      /\ req[q].upstream \in Path
  BY RequestFields DEF MatchInv, CallInv, Matches, TypeOK
<1>2. route' = route
  BY <1>1, RequestStepSays DEF Moved, written
<1>3. ASSUME req'[q].at \notin {"stripping", "trimming", "sent"}
      PROVE  Rewritten(q)'
  BY <1>3 DEF Rewritten
<1>4. CASE \E asked \in Asked : ListRoutes(q, asked)
  BY <1>1, <1>3, <1>4, ListSays
<1>5. CASE \E i \in RouteIds : Look(q, i)
  BY <1>1, <1>3, <1>5, LookSays
<1>6. CASE Compare(q) \/ Prefix(q)
  <2>1. CASE Compare(q)
    BY <1>1, <1>3, <2>1, CompareSays, CoversSays
  <2>2. CASE Prefix(q)
    BY <1>1, <1>3, <2>2, PrefixSays, CoversSays, PassOverSays
  <2> QED BY <1>6, <2>1, <2>2
<1>7. CASE Measure(q) \/ Take(q) \/ Matched(q)
  <2>1. req'[q].at \in {"matching", "taking", "matched", "unmatched"}
    BY <1>1, <1>7, MeasureSays, TakeSays, MatchedSays
  <2> QED BY <1>3, <2>1
<1>8. CASE ReadAuth(q) \/ ReadService(q) \/ Leave(q)
  BY <1>1, <1>3, <1>8, AuthSays, ServiceSays, LeaveSays, Defaults
<1> DEFINE path == req[q].asked.path
\* What the Director makes of the path for a route that has not changed.
<1>9. ASSUME NEW i \in req[q].best, i \in steady[q], BasePath[req[q].service] = Empty
      PROVE  /\ path \in Path /\ FromRoot(path) /\ route[i].path \in Path
             /\ IsPrefix(route[i].path, path)
             /\ Joined(BasePath[req[q].service], path) = path
             /\ HasPrefix(path, route[i].path)
             /\ Trimmed(path, route[i].path) = Below(route[i].path, path)
  <2>1. path \in Path /\ FromRoot(path) /\ route[i].path \in Path
    BY <1>1, PathsOfRoutes, BeginsWithSlash
  <2>2. IsPrefix(route[i].path, path)
    BY <1>1, <1>9 DEF Covering
  <2>3. Joined(BasePath[req[q].service], path) = path
    BY <1>9, <2>1, JoinedToNothing
  <2> QED BY <2>1, <2>2, <2>3, TrimmedIsBelow
<1>10. CASE Direct(q)
  <2>1. PICK i \in req[q].best :
           req'[q].at = IF route[i].strip THEN "stripping" ELSE "sent"
    BY <1>1, <1>10, DirectSays
  <2>2. /\ req'[q].best = req[q].best /\ req'[q].asked = req[q].asked
        /\ req'[q].service = req[q].service /\ steady' = steady
        /\ req'[q].upstream = Joined(BasePath[req[q].service], path)
    BY <1>1, <1>10, DirectSays DEF Holds, Unwatched
  <2>3. \A j \in req[q].best : j = i
    BY <1>1 DEF Single
  <2>4. (BasePath[req[q].service] = Empty /\ i \in steady[q]) => req'[q].upstream = path
    BY <1>9, <2>2
  <2> QED BY <1>2, <2>1, <2>2, <2>3, <2>4 DEF Rewritten
<1>11. CASE FindPrefix(q)
  <2>1. PICK i \in req[q].best :
           req'[q].at = IF HasPrefix(req[q].upstream, route[i].path) THEN "trimming"
                                                                      ELSE "sent"
    BY <1>1, <1>11, FindSays
  <2>2. /\ req'[q].best = req[q].best /\ req'[q].asked = req[q].asked
        /\ req'[q].service = req[q].service /\ req'[q].upstream = req[q].upstream
        /\ steady' = steady /\ req[q].at = "stripping"
    BY <1>1, <1>11, FindSays DEF Holds, Aside, Unwatched
  <2>3. \A j \in req[q].best : j = i
    BY <1>1 DEF Single
  <2>4. (BasePath[req[q].service] = Empty /\ i \in steady[q]) =>
           route[i].strip /\ req[q].upstream = path /\ req'[q].at = "trimming"
    BY <1>1, <1>9, <2>1, <2>2 DEF Rewritten
  <2> QED BY <1>2, <2>2, <2>3, <2>4 DEF Rewritten
<1>12. CASE Strip(q)
  <2>1. PICK i \in req[q].best : req'[q].upstream = Trimmed(req[q].upstream, route[i].path)
    BY <1>1, <1>12, StripSays
  <2>2. /\ req'[q].best = req[q].best /\ req'[q].asked = req[q].asked
        /\ req'[q].service = req[q].service /\ req'[q].at = "sent"
        /\ steady' = steady /\ req[q].at = "trimming"
    BY <1>1, <1>12, StripSays DEF Holds, Unwatched
  <2>3. \A j \in req[q].best : j = i
    BY <1>1 DEF Single
  <2>4. (BasePath[req[q].service] = Empty /\ i \in steady[q]) =>
           route[i].strip /\ req'[q].upstream = Below(route[i].path, path)
    BY <1>1, <1>9, <2>1, <2>2 DEF Rewritten
  <2> QED BY <1>2, <2>2, <2>3, <2>4 DEF Rewritten
<1> QED BY <1>4, <1>5, <1>6, <1>7, <1>8, <1>10, <1>11, <1>12 DEF RequestStep

LEMMA MatchStep == MatchInv /\ [Next]_vars => MatchInv'
<1> SUFFICES ASSUME MatchInv, [Next]_vars PROVE MatchInv'
  OBVIOUS
<1>1. CallInv'
  BY CallStep DEF MatchInv
<1>2. ASSUME NEW q \in Requests
      PROVE  (Matches(q) /\ Rewritten(q))'
  <2>1. CASE RequestStep(q)
    BY <2>1, MatchesStep, RewrittenStep
  <2>2. CASE ~RequestStep(q)
    <3>1. Undisturbed(q)
      BY <2>2, OthersDisturbNone DEF Next, MatchInv
    <3> QED BY <3>1, MatchUndisturbed
  <2> QED BY <2>1, <2>2
<1> QED BY <1>1, <1>2 DEF MatchInv

LEMMA MatchCorrect == Spec => []MatchInv
<1> QED BY MatchInit, MatchStep, PTL DEF Spec

\* However routes are created, deleted, moved and trimmed under a request that
\* reads each several times without the lock, a route that stays as it is and fits
\* is found, and is passed over for a shorter one only if a look was torn.
THEOREM SteadyRoutesAreFound == Spec => []SteadyRouteFound
<1>1. ASSUME MatchInv, NEW q \in Requests
      PROVE  /\ req[q].at = "unmatched" => Fit(q) = {}
             /\ \A i \in steady[q] \cap req[q].best :
                   IsPrefix(route[i].path, req[q].asked.path)
             /\ ~torn[q] => TakenByLongest(q)
  <2>1. Covering(q) /\ Measured(q) /\ Found(q)
    BY <1>1 DEF MatchInv, Matches
  <2>2. req[q].at = "unmatched" => Fit(q) = {}
    BY <2>1 DEF Found, Looking
  <2>3. ~torn[q] => TakenByLongest(q)
    BY <2>1 DEF Found, Measured, TakenByLongest, Looking, Choosing
  <2> QED BY <2>1, <2>2, <2>3 DEF Covering
<1>2. MatchInv => SteadyRouteFound
  BY <1>1 DEF SteadyRouteFound
<1> QED BY <1>2, MatchCorrect, PTL

\* What a service without a path in its base URL is asked for is what lies below
\* the route's path, though the Director reads StripPrefix once and Path twice
\* while the routes change, for all paths, "/" and those that end in a slash too.
THEOREM PrefixesAreStripped == Spec => []StrippedWithoutBase
<1>1. ASSUME MatchInv PROVE StrippedWithoutBase
  <2>1. SUFFICES ASSUME NEW q \in Requests, BasePath[req[q].service] = Empty,
                        NEW i \in steady[q], req[q].at = "sent", i \in req[q].best
                 PROVE  req[q].upstream =
                           Joined(BasePath[req[q].service],
                                  IF route[i].strip
                                  THEN Below(route[i].path, req[q].asked.path)
                                  ELSE req[q].asked.path)
    BY DEF StrippedWithoutBase, StrippedFor
  <2>2. TypeOK /\ Covering(q) /\ Rewritten(q) /\ i \in RouteIds
    BY <1>1 DEF MatchInv, CallInv, Matches, TypeOK
  <2>3. /\ req[q].asked.path \in Path /\ FromRoot(req[q].asked.path)
        /\ route[i].path \in Path
    BY <2>2, PathsOfRoutes, BeginsWithSlash
  <2>4. IsPrefix(route[i].path, req[q].asked.path)
    BY <2>1, <2>2 DEF Covering
  <2>5. req[q].upstream = IF route[i].strip
                          THEN Below(route[i].path, req[q].asked.path)
                          ELSE req[q].asked.path
    BY <2>1, <2>2 DEF Rewritten
  <2> QED BY <2>1, <2>3, <2>4, <2>5, JoinedToNothing, TrimmedIsBelow
<1> QED BY <1>1, MatchCorrect, PTL

-----------------------------------------------------------------------------
\* Torn reads, while it is calm: no updates of one route overlap, and none adds
\* the need of a key.

\* A route that needs no key is at a service that it was sent to serve so, whose
\* name may be trimmed.
CalmRoute(i) ==
    /\ i \notin born => route[i].auth
    /\ ~route[i].auth => route[i].service \in open[i]
    /\ \A s \in open[i] : TrimName[s] \in open[i]

\* What an update c has written to its route r is still there when it goes on;
\* one that sends the need of a key finds and leaves it there.
CalmWrites(c, r, o) ==
    /\ c.at = "creating" => r.auth
    /\ c.at \in {"path", "method", "service", "strip", "auth"} =>
          IF c.wants.auth THEN r.auth ELSE c.wants.service \in o
    /\ c.at \in {"strip", "auth"} => r.service = c.wants.service
    /\ c.at = "trim service" => c.wants.service = TrimName[r.service]

\* An update has its route to itself.
Alone(a) ==
    adm[a].at \notin {"idle", "creating"} =>
        \A b \in Admins \ {a} : adm[b].at # "idle" => adm[b].id # adm[a].id

CalmCall(a) == Alone(a) /\ CalmWrites(adm[a], route[adm[a].id], open[adm[a].id])

\* What a request has read of RequiresAuth holds until it reads ServiceID, and
\* what that was may be served for good.
CalmRequest(q) ==
    req[q].keyless =>
        \A i \in req[q].best : /\ req[q].at = "resolving" => ~route[i].auth
                               /\ req[q].at = "forwarding" => req[q].service \in open[i]

CalmInv ==
    calm => /\ \A a \in Admins : CalmCall(a)
            /\ \A i \in RouteIds : CalmRoute(i)
            /\ \A q \in Requests : CalmRequest(q)

LEMMA CalmInit == Init => CalmInv
BY Defaults DEF Init, CalmInv, CalmCall, Alone, CalmWrites, CalmRoute, CalmRequest

\* While it is calm nothing is taken from open, and no route comes to need a key.
LEMMA RequestStaysCalm ==
    ASSUME CallInv, CalmInv, calm, NEW q \in Requests, req'[q] = req[q],
           \A i \in RouteIds : open[i] \subseteq open'[i] /\ (~route[i].auth => ~route'[i].auth)
    PROVE  CalmRequest(q)'
<1>1. CalmRequest(q) /\ req[q].best \subseteq RouteIds
  BY DEF CalmInv, CallInv, TypeOK, Request
<1> QED BY <1>1 DEF CalmRequest

\* So do the other calls, if what they hold of theirs is left to them.
LEMMA OthersStayCalm ==
    ASSUME CallInv, NEW a \in Admins, \A b \in Admins : CalmCall(b),
           \A b \in Admins \ {a} : adm'[b] = adm[b],
           \A b \in Admins \ {a} : adm[b].at # "idle" => route'[adm[b].id] = route[adm[b].id],
           \A k \in RouteIds : open[k] \subseteq open'[k],
           adm'[a].at = "idle" \/ (adm[a].at # "idle" /\ adm'[a].id = adm[a].id)
               \/ \A b \in Admins \ {a} : adm[b].at # "idle" => adm[b].id # adm'[a].id
    PROVE  \A b \in Admins \ {a} : CalmCall(b)'
<1> SUFFICES ASSUME NEW b \in Admins \ {a} PROVE CalmCall(b)'
  OBVIOUS
<1>1. Alone(b) /\ CalmWrites(adm[b], route[adm[b].id], open[adm[b].id]) /\ adm[b].id \in RouteIds
  BY DEF CalmCall, CallInv, TypeOK, Call
<1>2. Alone(b)'
  BY <1>1 DEF Alone
<1>3. ASSUME NEW c, NEW r, NEW o, NEW p, CalmWrites(c, r, o), o \subseteq p
      PROVE  CalmWrites(c, r, p)
  BY <1>3 DEF CalmWrites
<1>4. ASSUME NEW c, NEW r, NEW o, c.at = "idle"
      PROVE  CalmWrites(c, r, o)
  BY <1>4 DEF CalmWrites
<1>5. CalmWrites(adm'[b], route'[adm'[b].id], open'[adm'[b].id])
  <2>1. adm'[b] = adm[b] /\ open[adm[b].id] \subseteq open'[adm[b].id]
    BY <1>1
  <2>2. CASE adm[b].at = "idle"
    BY <1>4, <2>1, <2>2
  <2>3. CASE adm[b].at # "idle"
    BY <1>1, <1>3, <2>1, <2>3
  <2> QED BY <2>2, <2>3
<1> QED BY <1>2, <1>5 DEF CalmCall

\* A name that is trimmed stays so.
LEMMA OfferCloses ==
    ASSUME TypeOK, NEW i \in RouteIds, NEW o \in RouteObject, Offer(i, o),
           \A k \in RouteIds : \A s \in open[k] : TrimName[s] \in open[k]
    PROVE  /\ \A k \in RouteIds : open[k] \subseteq open'[k]
           /\ \A k \in RouteIds : \A s \in open'[k] : TrimName[s] \in open'[k]
           /\ ~o.auth => o.service \in open'[i]
<1>1. o.service \in Services /\ TrimName[TrimName[o.service]] = TrimName[o.service]
  BY RoutingAssumption DEF RoutingAssumption, RouteObject
<1>2. CASE o.auth
  BY <1>2 DEF Offer
<1>3. CASE ~o.auth
  <2>1. open' = [open EXCEPT ![i] = open[i] \cup {o.service, TrimName[o.service]}]
    BY <1>3 DEF Offer
  <2>2. /\ open'[i] = open[i] \cup {o.service, TrimName[o.service]}
        /\ \A k \in RouteIds \ {i} : open'[k] = open[k]
    BY <2>1 DEF TypeOK
  <2> QED BY <1>1, <2>2
<1> QED BY <1>2, <1>3

\* The writes of an update: of ServiceID, RequiresAuth, ServiceID trimmed, and
\* of what is none of these.  c and d are the update before and after, r and s
\* its route.
Wrote(c, d, r, s) ==
    \/ /\ c.at = "service" /\ d.at = "strip"
       /\ s.service = c.wants.service /\ s.auth = r.auth
    \/ /\ c.at = "auth" /\ d.at = "read path"
       /\ s.service = r.service /\ s.auth = c.wants.auth
    \/ /\ c.at = "trim service" /\ d.at = "check path"
       /\ s.service = c.wants.service /\ s.auth = r.auth
    \/ /\ s.service = r.service /\ s.auth = r.auth
       /\ \/ c.at \in {"path", "method"} /\ d.at \in {"method", "service"}
          \/ c.at = "strip" /\ d.at = "auth"
          \/ /\ c.at \in {"trim path", "trim method", "default"}
             /\ d.at \in {"read method", "read service", "check method"}

LEMMA WriteFields ==
    ASSUME TypeOK, NEW a \in Admins, WriteStep(a), NEW i \in RouteIds, i = adm[a].id
    PROVE  Wrote(adm[a], adm'[a], route[i], route'[i])
<1>1. route \in [RouteIds -> RouteObject] /\ route[i] \in RouteObject
      /\ adm \in [Admins -> Call] /\ Own(a) = route[i]
  BY DEF TypeOK, Own
<1>2. ASSUME NEW at, NEW next, NEW o, Writes(a, at, o, next)
      PROVE  adm[a].at = at /\ adm'[a].at = next /\ route'[i] = o
  BY <1>1, <1>2 DEF Writes, Call
<1>3. ASSUME NEW r \in RouteObject, NEW x
      PROVE  /\ [r EXCEPT !.path = x].service = r.service
             /\ [r EXCEPT !.path = x].auth = r.auth
             /\ [r EXCEPT !.method = x].service = r.service
             /\ [r EXCEPT !.method = x].auth = r.auth
             /\ [r EXCEPT !.service = x].service = x
             /\ [r EXCEPT !.service = x].auth = r.auth
             /\ [r EXCEPT !.strip = x].service = r.service
             /\ [r EXCEPT !.strip = x].auth = r.auth
             /\ [r EXCEPT !.auth = x].service = r.service
             /\ [r EXCEPT !.auth = x].auth = x
  BY DEF RouteObject
<1>4. CASE WritePath(a)
  <2>1. Writes(a, "path", [Own(a) EXCEPT !.path = adm[a].wants.path], "method")
    BY <1>4 DEF WritePath
  <2>2. adm[a].at = "path" /\ adm'[a].at = "method"
    BY <1>2, <2>1
  <2>3. route'[i] = [Own(a) EXCEPT !.path = adm[a].wants.path]
    BY <1>2, <2>1
  <2>4. route'[i].service = route[i].service /\ route'[i].auth = route[i].auth
    BY <1>1, <1>3, <2>3
  <2> QED BY <2>2, <2>4 DEF Wrote
<1>5. CASE WriteMethod(a)
  <2>1. Writes(a, "method", [Own(a) EXCEPT !.method = adm[a].wants.method], "service")
    BY <1>5 DEF WriteMethod
  <2>2. adm[a].at = "method" /\ adm'[a].at = "service"
    BY <1>2, <2>1
  <2>3. route'[i] = [Own(a) EXCEPT !.method = adm[a].wants.method]
    BY <1>2, <2>1
  <2>4. route'[i].service = route[i].service /\ route'[i].auth = route[i].auth
    BY <1>1, <1>3, <2>3
  <2> QED BY <2>2, <2>4 DEF Wrote
<1>6. CASE WriteService(a)
  <2>1. Writes(a, "service", [Own(a) EXCEPT !.service = adm[a].wants.service], "strip")
    BY <1>6 DEF WriteService
  <2>2. adm[a].at = "service" /\ adm'[a].at = "strip"
    BY <1>2, <2>1
  <2>3. route'[i] = [Own(a) EXCEPT !.service = adm[a].wants.service]
    BY <1>2, <2>1
  <2>4. route'[i].service = adm[a].wants.service /\ route'[i].auth = route[i].auth
    BY <1>1, <1>3, <2>3
  <2> QED BY <2>2, <2>4 DEF Wrote
<1>7. CASE WriteStrip(a)
  <2>1. Writes(a, "strip", [Own(a) EXCEPT !.strip = adm[a].wants.strip], "auth")
    BY <1>7 DEF WriteStrip
  <2>2. adm[a].at = "strip" /\ adm'[a].at = "auth"
    BY <1>2, <2>1
  <2>3. route'[i] = [Own(a) EXCEPT !.strip = adm[a].wants.strip]
    BY <1>2, <2>1
  <2>4. route'[i].service = route[i].service /\ route'[i].auth = route[i].auth
    BY <1>1, <1>3, <2>3
  <2> QED BY <2>2, <2>4 DEF Wrote
<1>8. CASE WriteAuth(a)
  <2>1. Writes(a, "auth", [Own(a) EXCEPT !.auth = adm[a].wants.auth], "read path")
    BY <1>8 DEF WriteAuth
  <2>2. adm[a].at = "auth" /\ adm'[a].at = "read path"
    BY <1>2, <2>1
  <2>3. route'[i] = [Own(a) EXCEPT !.auth = adm[a].wants.auth]
    BY <1>2, <2>1
  <2>4. route'[i].service = route[i].service /\ route'[i].auth = adm[a].wants.auth
    BY <1>1, <1>3, <2>3
  <2> QED BY <2>2, <2>4 DEF Wrote
<1>9. CASE TrimPath(a)
  <2>1. Writes(a, "trim path", [Own(a) EXCEPT !.path = adm[a].wants.path], "read method")
    BY <1>9 DEF TrimPath
  <2>2. adm[a].at = "trim path" /\ adm'[a].at = "read method"
    BY <1>2, <2>1
  <2>3. route'[i] = [Own(a) EXCEPT !.path = adm[a].wants.path]
    BY <1>2, <2>1
  <2>4. route'[i].service = route[i].service /\ route'[i].auth = route[i].auth
    BY <1>1, <1>3, <2>3
  <2> QED BY <2>2, <2>4 DEF Wrote
<1>10. CASE TrimMethod(a)
  <2>1. Writes(a, "trim method", [Own(a) EXCEPT !.method = adm[a].wants.method], "read service")
    BY <1>10 DEF TrimMethod
  <2>2. adm[a].at = "trim method" /\ adm'[a].at = "read service"
    BY <1>2, <2>1
  <2>3. route'[i] = [Own(a) EXCEPT !.method = adm[a].wants.method]
    BY <1>2, <2>1
  <2>4. route'[i].service = route[i].service /\ route'[i].auth = route[i].auth
    BY <1>1, <1>3, <2>3
  <2> QED BY <2>2, <2>4 DEF Wrote
<1>11. CASE TrimService(a)
  <2>1. Writes(a, "trim service", [Own(a) EXCEPT !.service = adm[a].wants.service], "check path")
    BY <1>11 DEF TrimService
  <2>2. adm[a].at = "trim service" /\ adm'[a].at = "check path"
    BY <1>2, <2>1
  <2>3. route'[i] = [Own(a) EXCEPT !.service = adm[a].wants.service]
    BY <1>2, <2>1
  <2>4. route'[i].service = adm[a].wants.service /\ route'[i].auth = route[i].auth
    BY <1>1, <1>3, <2>3
  <2> QED BY <2>2, <2>4 DEF Wrote
<1>12. CASE DefaultMethod(a)
  <2>1. Writes(a, "default", [Own(a) EXCEPT !.method = "GET"], "check method")
    BY <1>12 DEF DefaultMethod
  <2>2. adm[a].at = "default" /\ adm'[a].at = "check method"
    BY <1>2, <2>1
  <2>3. route'[i] = [Own(a) EXCEPT !.method = "GET"]
    BY <1>2, <2>1
  <2>4. route'[i].service = route[i].service /\ route'[i].auth = route[i].auth
    BY <1>1, <1>3, <2>3
  <2> QED BY <2>2, <2>4 DEF Wrote
<1> QED BY <1>4, <1>5, <1>6, <1>7, <1>8, <1>9, <1>10, <1>11, <1>12 DEF WriteStep

LEMMA ReadKeeps ==
    ASSUME TypeOK, NEW a \in Admins, ReadStep(a), adm'[a].at = "trim service"
    PROVE  adm'[a].wants.service = TrimName[route[adm[a].id].service]
<1>1. adm \in [Admins -> Call] /\ AnyObject \in RouteObject
  BY Defaults DEF TypeOK
<1>2. ASSUME NEW at, NEW next, NEW w, Reads(a, at, w, next)
      PROVE  adm'[a].at = next /\ adm'[a].wants = w
  BY <1>1, <1>2 DEF Reads, Call
<1>3. CASE ReadOwner(a)
  <2>1. adm'[a].wants = [AnyObject EXCEPT !.service = TrimName[Own(a).service]]
    BY <1>2, <1>3 DEF ReadOwner
  <2>2. \A x : [AnyObject EXCEPT !.service = x].service = x
    BY <1>1 DEF RouteObject
  <2> QED BY <2>1, <2>2 DEF Own
<1>4. CASE ReadPath(a) \/ ReadMethod(a) \/ IsMethodEmpty(a)
  BY <1>2, <1>4 DEF ReadPath, ReadMethod, IsMethodEmpty
<1> QED BY <1>3, <1>4 DEF ReadStep

LEMMA CalmKept ==
    ASSUME CallInv, CalmInv, NEW a \in Admins, AdminStep(a), calm'
    PROVE  CalmInv'
<1>1. TypeOK /\ IdsOfCalls /\ adm \in [Admins -> Call] /\ route \in [RouteIds -> RouteObject]
      /\ \A b \in Admins : adm[b].id \in RouteIds /\ adm[b].wants \in RouteObject
  BY DEF CallInv, TypeOK, Call
<1>2. ASSUME calm
      PROVE  /\ \A b \in Admins : CalmCall(b)
             /\ \A i \in RouteIds : CalmRoute(i)
  BY <1>2 DEF CalmInv
<1>3. ASSUME NEW i \in RouteIds, NEW o \in Sent, StartCreate(a, i, o)
      PROVE  CalmInv'
  <2>1. calm /\ UNCHANGED <<route, req, open>> /\ born' = born \cup {i} /\ i \notin born
    BY <1>3 DEF StartCreate
  <2>2. /\ adm'[a].at = "creating" /\ adm'[a].id = i
        /\ \A b \in Admins \ {a} : adm'[b] = adm[b]
    BY <1>1, <1>3 DEF StartCreate
  <2>3. \A b \in Admins : adm[b].at # "idle" => adm[b].id # i
    BY <1>1, <2>1 DEF IdsOfCalls
  <2>6. CalmCall(a)'
    BY <1>2, <2>1, <2>2 DEF CalmCall, Alone, CalmWrites, CalmRoute
  <2>4. \A b \in Admins : CalmCall(b)'
    BY <1>2, <2>1, <2>2, <2>3, <2>6, OthersStayCalm
  <2>5. \A k \in RouteIds : CalmRoute(k)'
    BY <1>2, <2>1 DEF CalmRoute
  <2> QED BY <2>1, <2>4, <2>5, RequestStaysCalm DEF CalmInv
<1>4. ASSUME NEW i \in RouteIds, NEW o \in Sent, StartUpdate(a, i, o)
      PROVE  CalmInv'
  <2>1. /\ calm /\ ~Updating(i) /\ (o.auth => route[i].auth)
        /\ i \in stored /\ UNCHANGED <<route, born, stored, req>> /\ o \in RouteObject
    BY <1>4, NormalTyped DEF StartUpdate
  <2>2. /\ adm'[a].at = "path" /\ adm'[a].id = i /\ adm'[a].wants = o
        /\ \A b \in Admins \ {a} : adm'[b] = adm[b]
    BY <1>1, <1>4 DEF StartUpdate
  <2>3. /\ \A k \in RouteIds : open[k] \subseteq open'[k]
        /\ \A k \in RouteIds : \A s \in open'[k] : TrimName[s] \in open'[k]
        /\ ~o.auth => o.service \in open'[i]
    BY <1>1, <1>2, <1>4, <2>1, OfferCloses DEF StartUpdate, CalmRoute
  <2>4. \A b \in Admins \ {a} : adm[b].at # "idle" => adm[b].id # i
    BY <1>1, <2>1 DEF IdsOfCalls, Updating
  <2>7. CalmCall(a)'
    <3>1. Alone(a)'
      BY <2>2, <2>4 DEF Alone
    <3>2. CalmWrites(adm'[a], route'[i], open'[i])
      BY <2>1, <2>2, <2>3 DEF CalmWrites
    <3> QED BY <2>2, <3>1, <3>2 DEF CalmCall
  <2>5. \A b \in Admins : CalmCall(b)'
    BY <1>1, <1>2, <2>1, <2>2, <2>3, <2>4, <2>7, OthersStayCalm
  <2>6. \A k \in RouteIds : CalmRoute(k)'
    BY <1>2, <2>1, <2>3 DEF CalmRoute
  <2> QED BY <2>1, <2>3, <2>5, <2>6, RequestStaysCalm DEF CalmInv
<1>5. ASSUME NEW i \in RouteIds, RouteMissing(a, i)
      PROVE  CalmInv'
  BY <1>5 DEF RouteMissing, vars, CalmInv, CalmCall, Alone, CalmRoute, CalmRequest
<1>6. CASE StoreCreated(a)
  <2> DEFINE i == adm[a].id
             o == adm[a].wants
  <2>1. /\ calm /\ i \in RouteIds /\ o \in RouteObject /\ i \in born /\ route[i].auth
        /\ UNCHANGED <<born, req>>
        /\ \A b \in Admins \ {a} : adm[b].at # "idle" => adm[b].id # i
    BY <1>1, <1>2, <1>6 DEF StoreCreated, IdsOfCalls, CalmCall, CalmWrites
  <2>2. adm'[a].at = "idle" /\ \A b \in Admins \ {a} : adm'[b] = adm[b]
    BY <1>1, <1>6, Defaults DEF StoreCreated
  <2>3. /\ \A k \in RouteIds \ {i} : route'[k] = route[k]
        /\ \A k \in RouteIds : open[k] \subseteq open'[k]
        /\ \A k \in RouteIds : \A s \in open'[k] : TrimName[s] \in open'[k]
        /\ ~route'[i].auth => route'[i].service \in open'[i]
    <3>1. CASE KeyTaken(i, o)
      <4>1. UNCHANGED <<route, open>>
        BY <1>6, <3>1 DEF StoreCreated
      <4> QED BY <1>2, <2>1, <4>1 DEF CalmRoute
    <3>2. CASE ~KeyTaken(i, o)
      <4>1. Offer(i, o) /\ route' = [route EXCEPT ![i] = o]
        BY <1>6, <3>2 DEF StoreCreated
      <4>2. route'[i] = o /\ \A k \in RouteIds \ {i} : route'[k] = route[k]
        BY <1>1, <2>1, <4>1
      <4>3. \A k \in RouteIds : \A s \in open[k] : TrimName[s] \in open[k]
        BY <1>2, <2>1 DEF CalmRoute
      <4> QED BY <1>1, <2>1, <4>1, <4>2, <4>3, OfferCloses
    <3> QED BY <3>1, <3>2
  <2>6. CalmCall(a)'
    BY <2>2 DEF CalmCall, Alone, CalmWrites
  <2>4. \A b \in Admins : CalmCall(b)'
    BY <1>1, <1>2, <2>1, <2>2, <2>3, <2>6, OthersStayCalm
  <2>5. \A k \in RouteIds : CalmRoute(k)'
    BY <1>2, <2>1, <2>3 DEF CalmRoute
  <2> QED BY <2>1, <2>3, <2>4, <2>5, RequestStaysCalm DEF CalmInv
<1>7. CASE WriteStep(a)
  <2>1. PICK i \in RouteIds : i = adm[a].id
    BY <1>1
  <2> DEFINE o == adm[a].wants
  <2>2. /\ calm /\ UNCHANGED <<born, open, req>> /\ adm[a].at \notin {"idle", "creating"}
        /\ \A b \in Admins \ {a} : adm'[b] = adm[b]
        /\ \A k \in RouteIds \ {i} : route'[k] = route[k]
        /\ adm'[a].id = i /\ adm'[a].wants = o /\ adm'[a].at \notin {"idle", "creating"}
    BY <1>1, <1>7, <2>1, WritesSay DEF UpdatePlaces
  <2>3. i \in born /\ \A b \in Admins \ {a} : adm[b].at # "idle" => adm[b].id # i
    BY <1>1, <1>2, <2>1, <2>2 DEF CalmCall, Alone, IdsOfCalls
  <2>4. CalmRoute(i) /\ CalmCall(a)
    BY <1>2, <2>2
  <2>9. Wrote(adm[a], adm'[a], route[i], route'[i])
    BY <1>1, <1>7, <2>1, WriteFields
  <2>5. /\ ~route'[i].auth => ~route[i].auth \/ ~o.auth
        /\ (~route[i].auth => ~route'[i].auth)
        /\ ~route'[i].auth => route'[i].service \in open[i]
    <3>1. /\ ~route[i].auth => route[i].service \in open[i]
          /\ \A s \in open[i] : TrimName[s] \in open[i]
      BY <2>4 DEF CalmRoute
    <3>2. /\ adm[a].at \in {"service", "auth"} =>
                IF o.auth THEN route[i].auth ELSE o.service \in open[i]
          /\ adm[a].at = "auth" => route[i].service = o.service
          /\ adm[a].at = "trim service" => o.service = TrimName[route[i].service]
      BY <2>1, <2>4 DEF CalmCall, CalmWrites
    <3> QED BY <2>9, <3>1, <3>2 DEF Wrote
  <2>6. CalmCall(a)'
    <3>1. Alone(a)'
      BY <2>2, <2>3 DEF Alone
    <3>2. CalmWrites(adm[a], route[i], open[i])
      BY <2>1, <2>4 DEF CalmCall
    <3>3. CalmWrites(adm'[a], route'[i], open[i])
      <4>1. CASE /\ adm[a].at = "service" /\ adm'[a].at = "strip"
                 /\ route'[i].service = o.service /\ route'[i].auth = route[i].auth
        BY <2>2, <3>2, <4>1 DEF CalmWrites
      <4>2. CASE /\ adm[a].at = "auth" /\ adm'[a].at = "read path"
        BY <2>2, <4>2 DEF CalmWrites
      <4>3. CASE /\ adm[a].at = "trim service" /\ adm'[a].at = "check path"
        BY <2>2, <4>3 DEF CalmWrites
      <4>4. CASE /\ route'[i].service = route[i].service /\ route'[i].auth = route[i].auth
                 /\ adm[a].at \in {"path", "method"} /\ adm'[a].at \in {"method", "service"}
        BY <2>2, <3>2, <4>4 DEF CalmWrites
      <4>5. CASE /\ route'[i].service = route[i].service /\ route'[i].auth = route[i].auth
                 /\ adm[a].at = "strip" /\ adm'[a].at = "auth"
        BY <2>2, <3>2, <4>5 DEF CalmWrites
      <4>6. CASE adm'[a].at \in {"read method", "read service", "check method"}
        BY <2>2, <4>6 DEF CalmWrites
      <4> QED BY <2>9, <4>1, <4>2, <4>3, <4>4, <4>5, <4>6 DEF Wrote
    <3> QED BY <2>2, <3>1, <3>3 DEF CalmCall
  <2>7. \A k \in RouteIds : CalmRoute(k)' /\ (~route[k].auth => ~route'[k].auth)
    BY <1>2, <2>2, <2>3, <2>5 DEF CalmRoute
  <2>8. \A b \in Admins \ {a} : CalmCall(b)'
    BY <1>1, <1>2, <2>1, <2>2, <2>3, OthersStayCalm
  <2> QED BY <2>2, <2>6, <2>7, <2>8, RequestStaysCalm DEF CalmInv
<1>8. CASE ReadStep(a)
  <2>1. /\ UNCHANGED <<route, born, open, calm, req>>
        /\ \A b \in Admins \ {a} : adm'[b] = adm[b]
        /\ adm'[a].at \in {"trim path", "trim method", "trim service", "default",
                           "check method"}
        /\ adm'[a].id = adm[a].id /\ adm[a].at \notin {"idle", "creating"}
    BY <1>1, <1>8, ReadsSay
  <2>2. CalmCall(a)'
    <3>1. Alone(a)'
      BY <1>2, <2>1 DEF CalmCall, Alone
    <3>2. CalmWrites(adm'[a], route[adm[a].id], open[adm[a].id])
      BY <1>1, <1>8, <2>1, ReadKeeps DEF CalmWrites
    <3> QED BY <2>1, <3>1, <3>2 DEF CalmCall
  <2>3. \A b \in Admins \ {a} : CalmCall(b)'
    BY <1>1, <1>2, <2>1, OthersStayCalm
  <2> QED BY <1>2, <2>1, <2>2, <2>3, RequestStaysCalm DEF CalmInv, CalmRoute
<1>9. CASE CheckStep(a) \/ UpdateStore(a)
  <2>1. /\ UNCHANGED <<route, born, open, calm, req>>
        /\ \A b \in Admins \ {a} : adm'[b] = adm[b]
        /\ adm'[a].at \in {"idle", "empty", "find", "store"}
        /\ adm'[a].at # "idle" => adm'[a].id = adm[a].id
        /\ adm[a].at \notin {"idle", "creating"}
    <3>1. CASE CheckStep(a)
      BY <1>1, <3>1, ChecksSay
    <3>2. CASE UpdateStore(a)
      BY <1>1, <3>2, Defaults DEF UpdateStore
    <3> QED BY <1>9, <3>1, <3>2
  <2>2. CalmCall(a)'
    <3>1. Alone(a)'
      BY <1>2, <2>1 DEF CalmCall, Alone
    <3>2. ASSUME NEW r, NEW p PROVE CalmWrites(adm'[a], r, p)
      BY <2>1 DEF CalmWrites
    <3> QED BY <3>1, <3>2 DEF CalmCall
  <2>3. \A b \in Admins : CalmCall(b)'
    BY <1>1, <1>2, <2>1, <2>2, OthersStayCalm
  <2> QED BY <2>3, <1>2, <2>1, <2>2, RequestStaysCalm DEF CalmInv, CalmRoute
<1> QED BY <1>3, <1>4, <1>5, <1>6, <1>7, <1>8, <1>9, KindsOfSteps DEF AdminStep

LEMMA CalmRequestStep ==
    ASSUME MatchInv, CalmInv, calm, NEW q \in Requests, RequestStep(q)
    PROVE  CalmRequest(q)'
<1>1. /\ TypeOK /\ req[q].best \subseteq RouteIds /\ req[q].look \subseteq RouteIds
      /\ \A i, j \in req[q].best : i = j
      /\ CalmRequest(q) /\ \A i \in RouteIds : CalmRoute(i)
  BY RequestFields DEF MatchInv, CallInv, CalmInv, Matches, Single
<1>2. UNCHANGED <<route, open>>
  BY <1>1, RequestStepSays DEF Moved, written
<1>3. ASSUME req'[q].at \notin {"resolving", "forwarding"}
      PROVE  CalmRequest(q)'
  BY <1>3 DEF CalmRequest
<1>4. CASE \E asked \in Asked : ListRoutes(q, asked)
  BY <1>1, <1>3, <1>4, ListSays
<1>5. CASE \E i \in RouteIds : Look(q, i)
  BY <1>1, <1>3, <1>5, LookSays
<1>6. CASE Compare(q)
  BY <1>1, <1>3, <1>6, CompareSays, CoversSays
<1>7. CASE Prefix(q)
  BY <1>1, <1>3, <1>7, PrefixSays, CoversSays, PassOverSays
<1>8. CASE Measure(q) \/ Take(q) \/ Matched(q)
  BY <1>1, <1>3, <1>8, MeasureSays, TakeSays, MatchedSays
<1>9. CASE ReadAuth(q)
  <2>1. PICK i \in req[q].best : req'[q].keyless <=> ~route[i].auth
    BY <1>1, <1>9, AuthSays
  <2>2. req'[q].at = "resolving" /\ req'[q].best = req[q].best
    BY <1>1, <1>9, AuthSays DEF Holds
  <2> QED BY <1>1, <1>2, <2>1, <2>2 DEF CalmRequest
<1>10. CASE ReadService(q)
  <2>1. PICK i \in req[q].best : req'[q].service = route[i].service
    BY <1>1, <1>10, ServiceSays
  <2>2. /\ req[q].at = "resolving" /\ req'[q].at \in {"forwarding", "refused"}
        /\ req'[q].best = req[q].best /\ req'[q].keyless = req[q].keyless
    BY <1>1, <1>10, ServiceSays DEF Holds
  <2> QED BY <1>1, <1>2, <2>1, <2>2 DEF CalmRequest, CalmRoute
<1>11. CASE Direct(q) \/ FindPrefix(q) \/ Strip(q)
  <2>1. req'[q].at \in {"stripping", "trimming", "sent"}
    BY <1>1, <1>11, DirectSays, FindSays, StripSays
  <2> QED BY <1>3, <2>1
<1>12. CASE Leave(q)
  BY <1>1, <1>3, <1>12, LeaveSays, Defaults
<1> QED BY <1>4, <1>5, <1>6, <1>7, <1>8, <1>9, <1>10, <1>11, <1>12 DEF RequestStep

LEMMA CalmStep == MatchInv /\ CalmInv /\ [Next]_vars => CalmInv'
<1> SUFFICES ASSUME MatchInv, CalmInv, [Next]_vars, calm' PROVE CalmInv'
  BY DEF CalmInv
<1>1. CallInv
  BY DEF MatchInv
<1>2. ASSUME NEW a \in Admins, AdminStep(a)
      PROVE  CalmInv'
  BY <1>1, <1>2, CalmKept
<1>3. ASSUME UNCHANGED <<route, born, adm, open, calm>>
      PROVE  /\ calm
             /\ \A a \in Admins : CalmCall(a)'
             /\ \A i \in RouteIds : CalmRoute(i)'
  BY <1>3 DEF CalmInv, CalmCall, Alone, CalmRoute
<1>4. ASSUME NEW q \in Requests, RequestStep(q)
      PROVE  CalmInv'
  <2>1. UNCHANGED <<route, born, adm, open, calm>>
    BY <1>1, <1>4, RequestStepSays DEF CallInv, Moved, written
  <2>2. ASSUME NEW p \in Requests
        PROVE  CalmRequest(p)'
    <3>1. CASE RequestStep(p)
      BY <1>3, <2>1, <3>1, CalmRequestStep
    <3>2. CASE ~RequestStep(p)
      <4>1. req'[p] = req[p]
        BY <1>1, <1>4, <3>2, RequestStepSays DEF CallInv, Moved
      <4> QED BY <1>1, <1>3, <2>1, <4>1, RequestStaysCalm
    <3> QED BY <3>1, <3>2
  <2> QED BY <1>3, <2>1, <2>2 DEF CalmInv
<1>5. ASSUME UNCHANGED <<route, born, adm, open, calm, req>>
      PROVE  CalmInv'
  <2>1. \A q \in Requests : CalmRequest(q)'
    BY <1>1, <1>3, <1>5, RequestStaysCalm
  <2> QED BY <1>3, <1>5, <2>1 DEF CalmInv
<1>6. ASSUME NEW i \in RouteIds, DeleteRoute(i)
      PROVE  CalmInv'
  BY <1>5, <1>6 DEF DeleteRoute
<1>7. ASSUME NEW s \in Services, DeleteService(s)
      PROVE  CalmInv'
  BY <1>5, <1>7 DEF DeleteService
<1>8. CASE UNCHANGED vars
  BY <1>5, <1>8 DEF vars
<1> QED BY <1>2, <1>4, <1>6, <1>7, <1>8 DEF Next

\* UpdateRoute writes ServiceID before RequiresAuth and the gateway reads them the
\* other way round.  So no request gets without a key to a service that the
\* route was never sent to serve so, in whatever steps the two fall, as long as
\* the updates of a route do not overlap and none adds the need of a key.
THEOREM LooseningIsAtomic == Spec => []LooseningIsSafe
<1>1. CalmInv => LooseningIsSafe
  BY DEF CalmInv, CalmRequest, LooseningIsSafe, OneVersion
<1> QED BY <1>1, MatchInit, MatchStep, CalmInit, CalmStep, PTL DEF Spec

=============================================================================
