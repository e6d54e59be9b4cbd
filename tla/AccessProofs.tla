----------------------------- MODULE AccessProofs -----------------------------
(***************************************************************************)
(* Proofs about Access, for any apps, keys, administrators and requests.       *)
(***************************************************************************)
EXTENDS Access, TLAPS

\* What Authenticate has established when a request is somewhere: the looks it
\* has taken left their evidence.
Passed(q) ==
    /\ req[q].at \in {"reading key", "reading expiry", "finding app", "reading app", "accepted"}
         => "key stored" \in seen[q]
    /\ req[q].at \in {"reading expiry", "finding app", "reading app", "accepted"}
         => "key active" \in seen[q]
    /\ req[q].at \in {"finding app", "reading app", "accepted"} => "key valid" \in seen[q]
    /\ req[q].at \in {"reading app", "accepted"} => "app stored" \in seen[q]
    /\ req[q].at = "accepted" => "app active" \in seen[q]
    /\ req[q].at = "refused" => Wrong \cap seen[q] # {}

\* The present is part of what has been seen.
SeesNow(q) == req[q].at # "idle" => Now[req[q].key] \subseteq seen[q]

Seeing ==
    /\ req \in [Requests -> Request]
    /\ \A q \in Requests : SeesNow(q) /\ Passed(q)

\* What Now holds of a key.
LEMMA NowTells ==
    ASSUME NEW k \in Keys
    PROVE  /\ IF k \in keys THEN "key stored" \in Now[k] ELSE "key missing" \in Now[k]
           /\ IF keyStatus[k] = "active" THEN "key active" \in Now[k]
                                         ELSE "key disabled" \in Now[k]
           /\ IF k \in expired THEN "key expired" \in Now[k] ELSE "key valid" \in Now[k]
           /\ IF appOf[k] \in apps THEN "app stored" \in Now[k] ELSE "app missing" \in Now[k]
           /\ IF appStatus[appOf[k]] = "active" THEN "app active" \in Now[k]
                                                ELSE "app disabled" \in Now[k]
BY DEF Now

\* Evidence is kept, and the present added, for as long as a request is under way.
LEMMA Watching ==
    ASSUME Watch, NEW q \in Requests, req'[q].at # "idle"
    PROVE  seen[q] \subseteq seen'[q] /\ Now'[req'[q].key] \subseteq seen'[q]
BY DEF Watch

\* A request that a step leaves where it is loses no evidence.
LEMMA OthersKept ==
    ASSUME Seeing, Watch, NEW q \in Requests, req'[q] = req[q]
    PROVE  SeesNow(q)' /\ Passed(q)'
<1>1. CASE req[q].at = "idle"
    BY <1>1 DEF SeesNow, Passed
<1>2. CASE req[q].at # "idle"
    <2>1. seen[q] \subseteq seen'[q] /\ Now'[req'[q].key] \subseteq seen'[q]
        BY <1>2, Watching
    <2>2. SeesNow(q)'
        BY <2>1 DEF SeesNow
    <2>3. Passed(q)'
        BY <2>1 DEF Seeing, Passed
    <2> QED BY <2>2, <2>3
<1> QED BY <1>1, <1>2

\* A step that requests take no part in.
LEMMA BystandersKept ==
    ASSUME Seeing, Watch, UNCHANGED req
    PROVE  Seeing'
<1>1. \A q \in Requests : SeesNow(q)' /\ Passed(q)'
    BY OthersKept
<1> QED BY <1>1 DEF Seeing

\* A look of Authenticate: the request goes to a place for which it has evidence.
Evidence(p, place) ==
    /\ place # "refused" => "key stored" \in seen[p]
    /\ place \notin {"reading key", "refused"} => "key active" \in seen[p]
    /\ place \notin {"reading key", "reading expiry", "refused"} => "key valid" \in seen[p]
    /\ place \in {"reading app", "accepted"} => "app stored" \in seen[p]
    /\ place = "accepted" => "app active" \in seen[p]
    /\ place = "refused" => Wrong \cap seen[p] # {}

LEMMA LookKept ==
    ASSUME Seeing, Watch, NEW p \in Requests, req[p].at # "idle",
           NEW place \in {"reading key", "reading expiry", "finding app", "reading app",
                          "accepted", "refused"},
           To(p, place), Evidence(p, place)
    PROVE  Seeing'
<1>1. req' = [req EXCEPT ![p].at = place] /\ req \in [Requests -> Request]
    BY DEF To, Seeing
<1>2. req' \in [Requests -> Request] /\ req'[p].at = place
    BY <1>1 DEF Request
<1>3. seen[p] \subseteq seen'[p] /\ Now'[req'[p].key] \subseteq seen'[p]
    BY <1>2, Watching
<1>4. Passed(p)'
    BY <1>2, <1>3 DEF Passed, Evidence
<1>5. SeesNow(p)'
    BY <1>3 DEF SeesNow
<1>6. ASSUME NEW q \in Requests, q # p
      PROVE  SeesNow(q)' /\ Passed(q)'
    BY <1>1, <1>6, OthersKept
<1> QED BY <1>2, <1>4, <1>5, <1>6 DEF Seeing

LEMMA SeeingInit == Init => Seeing
<1> SUFFICES ASSUME Init PROVE Seeing
    OBVIOUS
<1>1. AnyKey \in Keys
    BY AccessAssumption DEF AccessAssumption, AnyKey
<1>2. req \in [Requests -> Request] /\ \A q \in Requests : req[q].at = "idle"
    BY <1>1 DEF Init, NoRequest, Request
<1> QED BY <1>2 DEF Seeing, SeesNow, Passed

LEMMA SeeingStep == Seeing /\ [Next]_vars => Seeing'
<1> SUFFICES ASSUME Seeing, [Next]_vars PROVE Seeing'
    OBVIOUS
<1>1. CASE UNCHANGED vars
    BY <1>1, ZenonT(40) DEF vars, Seeing, SeesNow, Passed, Now
<1>2. ASSUME Step, Watch PROVE Seeing'
    <2>1. ASSUME NEW a \in Apps, CreateApp(a) \/ DeleteApp(a) PROVE Seeing'
        BY <1>2, <2>1, BystandersKept DEF CreateApp, DeleteApp
    <2>2. ASSUME NEW k \in Keys, DeleteAPIKey(k) \/ Expire(k) PROVE Seeing'
        BY <1>2, <2>2, BystandersKept DEF DeleteAPIKey, Expire
    <2>3. ASSUME NEW x \in Admins, AdminStep(x) PROVE Seeing'
        <3>1. UNCHANGED req
            BY <2>3 DEF AdminStep, CreateAPIKey, FindToUpdateKey, FindToUpdateApp, InsertKey,
                        WriteKeyStatus, PutKey, WriteAppStatus, PutApp
        <3> QED BY <1>2, <3>1, BystandersKept
    <2>4. ASSUME NEW p \in Requests, RequestStep(p) PROVE Seeing'
        <3> DEFINE key == req[p].key
        <3>0. /\ req \in [Requests -> Request] /\ key \in Keys
              /\ SeesNow(p) /\ Passed(p)
            BY DEF Seeing, Request
        <3>a. req[p].at # "idle" => Now[key] \subseteq seen[p]
            BY <3>0 DEF SeesNow
        <3>1. ASSUME NEW k \in Keys, Present(p, k) PROVE Seeing'
            <4>1. req' = [req EXCEPT ![p] = [at |-> "finding key", key |-> k]]
                BY <3>1 DEF Present
            <4>2. req' \in [Requests -> Request] /\ req'[p].at = "finding key"
                BY <4>1, <3>0 DEF Request
            <4>3. SeesNow(p)'
                BY <4>2, <1>2, Watching DEF SeesNow
            <4>4. Passed(p)'
                BY <4>2 DEF Passed
            <4>5. ASSUME NEW q \in Requests, q # p PROVE SeesNow(q)' /\ Passed(q)'
                BY <1>2, <4>1, <4>5, <3>0, OthersKept
            <4> QED BY <4>2, <4>3, <4>4, <4>5 DEF Seeing
        <3>2. CASE FindKey(p)
            <4>1. req[p].at = "finding key" /\ Judge(p, key \in keys, "reading key")
                BY <3>2 DEF FindKey
            <4>2. IF key \in keys THEN "key stored" \in seen[p] ELSE "key missing" \in seen[p]
                BY <4>1, <3>0, <3>a, NowTells
            <4>4. CASE key \in keys
                <5>1. To(p, "reading key") /\ Evidence(p, "reading key")
                    BY <4>1, <4>2, <4>4 DEF Judge, Evidence
                <5> QED BY <1>2, <4>1, <5>1, LookKept
            <4>5. CASE ~(key \in keys)
                <5>1. To(p, "refused") /\ Evidence(p, "refused")
                    BY <4>1, <4>2, <4>5 DEF Judge, Evidence, Wrong
                <5> QED BY <1>2, <4>1, <5>1, LookKept
            <4> QED BY <4>4, <4>5
        <3>3. CASE ReadKey(p)
            <4>1. /\ req[p].at = "reading key"
                  /\ Judge(p, keyStatus[key] = "active", "reading expiry")
                BY <3>3 DEF ReadKey
            <4>2. IF keyStatus[key] = "active" THEN "key active" \in seen[p]
                                               ELSE "key disabled" \in seen[p]
                BY <4>1, <3>0, <3>a, NowTells
            <4>3. "key stored" \in seen[p]
                BY <4>1, <3>0 DEF Passed
            <4>4. CASE keyStatus[key] = "active"
                <5>1. To(p, "reading expiry") /\ Evidence(p, "reading expiry")
                    BY <4>1, <4>2, <4>3, <4>4 DEF Judge, Evidence
                <5> QED BY <1>2, <4>1, <5>1, LookKept
            <4>5. CASE ~(keyStatus[key] = "active")
                <5>1. To(p, "refused") /\ Evidence(p, "refused")
                    BY <4>1, <4>2, <4>5 DEF Judge, Evidence, Wrong
                <5> QED BY <1>2, <4>1, <5>1, LookKept
            <4> QED BY <4>4, <4>5
        <3>4. CASE ReadExpiry(p)
            <4>1. /\ req[p].at = "reading expiry"
                  /\ Judge(p, key \notin expired, "finding app")
                BY <3>4 DEF ReadExpiry
            <4>2. IF key \in expired THEN "key expired" \in seen[p] ELSE "key valid" \in seen[p]
                BY <4>1, <3>0, <3>a, NowTells
            <4>3. "key stored" \in seen[p] /\ "key active" \in seen[p]
                BY <4>1, <3>0 DEF Passed
            <4>4. CASE key \notin expired
                <5>1. To(p, "finding app") /\ Evidence(p, "finding app")
                    BY <4>1, <4>2, <4>3, <4>4 DEF Judge, Evidence
                <5> QED BY <1>2, <4>1, <5>1, LookKept
            <4>5. CASE ~(key \notin expired)
                <5>1. To(p, "refused") /\ Evidence(p, "refused")
                    BY <4>1, <4>2, <4>5 DEF Judge, Evidence, Wrong
                <5> QED BY <1>2, <4>1, <5>1, LookKept
            <4> QED BY <4>4, <4>5
        <3>5. CASE FindApp(p)
            <4>1. /\ req[p].at = "finding app"
                  /\ Judge(p, appOf[key] \in apps, "reading app")
                BY <3>5 DEF FindApp
            <4>2. IF appOf[key] \in apps THEN "app stored" \in seen[p]
                                         ELSE "app missing" \in seen[p]
                BY <4>1, <3>0, <3>a, NowTells
            <4>3. "key stored" \in seen[p] /\ "key active" \in seen[p] /\ "key valid" \in seen[p]
                BY <4>1, <3>0 DEF Passed
            <4>4. CASE appOf[key] \in apps
                <5>1. To(p, "reading app") /\ Evidence(p, "reading app")
                    BY <4>1, <4>2, <4>3, <4>4 DEF Judge, Evidence
                <5> QED BY <1>2, <4>1, <5>1, LookKept
            <4>5. CASE ~(appOf[key] \in apps)
                <5>1. To(p, "refused") /\ Evidence(p, "refused")
                    BY <4>1, <4>2, <4>5 DEF Judge, Evidence, Wrong
                <5> QED BY <1>2, <4>1, <5>1, LookKept
            <4> QED BY <4>4, <4>5
        <3>6. CASE ReadApp(p)
            <4>1. /\ req[p].at = "reading app"
                  /\ Judge(p, appStatus[appOf[key]] = "active", "accepted")
                BY <3>6 DEF ReadApp
            <4>2. IF appStatus[appOf[key]] = "active" THEN "app active" \in seen[p]
                                                      ELSE "app disabled" \in seen[p]
                BY <4>1, <3>0, <3>a, NowTells
            <4>3. /\ "key stored" \in seen[p] /\ "key active" \in seen[p]
                  /\ "key valid" \in seen[p] /\ "app stored" \in seen[p]
                BY <4>1, <3>0 DEF Passed
            <4>4. CASE appStatus[appOf[key]] = "active"
                <5>1. To(p, "accepted") /\ Evidence(p, "accepted")
                    BY <4>1, <4>2, <4>3, <4>4 DEF Judge, Evidence
                <5> QED BY <1>2, <4>1, <5>1, LookKept
            <4>5. CASE ~(appStatus[appOf[key]] = "active")
                <5>1. To(p, "refused") /\ Evidence(p, "refused")
                    BY <4>1, <4>2, <4>5 DEF Judge, Evidence, Wrong
                <5> QED BY <1>2, <4>1, <5>1, LookKept
            <4> QED BY <4>4, <4>5
        <3>7. CASE Leave(p)
            <4>1. req' = [req EXCEPT ![p] = NoRequest]
                BY <3>7 DEF Leave
            <4>2. NoRequest \in Request /\ NoRequest.at = "idle"
                BY AccessAssumption DEF AccessAssumption, NoRequest, AnyKey, Request
            <4>3. req' \in [Requests -> Request] /\ req'[p].at = "idle"
                BY <4>1, <4>2, <3>0
            <4>4. SeesNow(p)' /\ Passed(p)'
                BY <4>3 DEF SeesNow, Passed
            <4>5. ASSUME NEW q \in Requests, q # p PROVE SeesNow(q)' /\ Passed(q)'
                BY <1>2, <4>1, <4>5, <3>0, OthersKept
            <4> QED BY <4>3, <4>4, <4>5 DEF Seeing
        <3> QED BY <2>4, <3>1, <3>2, <3>3, <3>4, <3>5, <3>6, <3>7 DEF RequestStep
    <2> QED BY <1>2, <2>1, <2>2, <2>3, <2>4 DEF Step
<1> QED BY <1>1, <1>2 DEF Next

\* Authenticate (app_service.go) accepts a key only on evidence, each piece of it
\* from some moment of the call, and refuses one only on evidence, whatever
\* administrators change meanwhile.
THEOREM VerdictsAreGrounded == Spec => []VerdictOnEvidence
<1>1. Seeing => VerdictOnEvidence
    BY DEF Seeing, Passed, VerdictOnEvidence, Right
<1> QED BY SeeingInit, SeeingStep, <1>1, PTL DEF Spec

-----------------------------------------------------------------------------
\* Why nothing comes back: an id is used once; a key that is being created is in
\* nobody's hands but its creator's, and whoever else puts something back looks
\* first whether it is still there.
IdsUsedOnce ==
    /\ apps \subseteq bornApps /\ keys \subseteq bornKeys
    /\ bornApps \subseteq Apps /\ bornKeys \subseteq Keys
    /\ gone \subseteq bornApps \cup bornKeys

NewKeysUnseen ==
    \A x \in Admins :
        adm[x].at = "new key" =>
            /\ adm[x].key \in bornKeys /\ adm[x].key \notin keys /\ adm[x].key \notin gone
            /\ \A y \in Admins \ {x} : adm[y].at = "new key" => adm[y].key # adm[x].key

Buried ==
    /\ adm \in [Admins -> Call]
    /\ IdsUsedOnce /\ NewKeysUnseen /\ DeletedForGood

\* A call that goes on, without the store's maps changing, to another place than
\* the insertion of a new key.
LEMMA CallsGoOn ==
    ASSUME Buried, UNCHANGED <<apps, keys, bornApps, bornKeys, gone>>,
           NEW x \in Admins, NEW c \in Call, c.at # "new key",
           adm' = [adm EXCEPT ![x] = c]
    PROVE  Buried'
<1>1. adm' \in [Admins -> Call]
    BY DEF Buried
<1>2. NewKeysUnseen'
    BY DEF Buried, NewKeysUnseen
<1> QED BY <1>1, <1>2 DEF Buried, IdsUsedOnce, DeletedForGood

LEMMA NoCallIsCall == NoCall \in Call /\ NoCall.at = "idle"
BY AccessAssumption DEF AccessAssumption, NoCall, Call, AnyApp, AnyKey, AppStatuses

LEMMA BuriedInit == Init => Buried
BY NoCallIsCall DEF Init, Buried, IdsUsedOnce, NewKeysUnseen, DeletedForGood

LEMMA BuriedStep == Buried /\ [Next]_vars => Buried'
<1> SUFFICES ASSUME Buried, [Next]_vars PROVE Buried'
    OBVIOUS
<1> USE DEF Buried, IdsUsedOnce, DeletedForGood
<1>1. CASE UNCHANGED vars
    BY <1>1 DEF vars, NewKeysUnseen
<1>2. ASSUME NEW a \in Apps, CreateApp(a) PROVE Buried'
    <2>1. a \notin gone /\ a \notin keys
        BY <1>2, AccessAssumption DEF AccessAssumption, CreateApp
    <2> QED BY <1>2, <2>1 DEF CreateApp, NewKeysUnseen
<1>3. ASSUME NEW a \in Apps, DeleteApp(a) PROVE Buried'
    <2>1. a \notin bornKeys
        BY <1>3, AccessAssumption DEF AccessAssumption, DeleteApp
    <2> QED BY <1>3, <2>1 DEF DeleteApp, NewKeysUnseen
<1>4. ASSUME NEW k \in Keys, DeleteAPIKey(k) PROVE Buried'
    <2>1. k \notin apps
        BY <1>4, AccessAssumption DEF AccessAssumption, DeleteAPIKey
    <2> QED BY <1>4, <2>1 DEF DeleteAPIKey, NewKeysUnseen
<1>5. ASSUME NEW k \in Keys, Expire(k) PROVE Buried'
    BY <1>5 DEF Expire, NewKeysUnseen
<1>6. ASSUME NEW x \in Admins, AdminStep(x) PROVE Buried'
    <2>0. adm[x] \in Call /\ adm[x].key \in Keys /\ adm[x].app \in Apps
        BY DEF Call
    <2>1. ASSUME NEW a \in Apps, NEW k \in Keys, CreateAPIKey(x, a, k) PROVE Buried'
        <3>1. k \notin keys /\ k \notin gone /\ k \notin bornKeys
            BY <2>1, AccessAssumption DEF AccessAssumption, CreateAPIKey
        <3> DEFINE c == [NoCall EXCEPT !.at = "new key", !.key = k]
        <3>2. c \in Call /\ c.at = "new key" /\ c.key = k
            BY NoCallIsCall DEF Call, NoCall
        <3> HIDE DEF c
        <3>3. adm' = [adm EXCEPT ![x] = c]
            BY <2>1 DEF CreateAPIKey, c
        <3>4. adm' \in [Admins -> Call]
            BY <3>2, <3>3
        <3>5. NewKeysUnseen'
            <4>1. adm'[x] = c /\ \A y \in Admins \ {x} : adm'[y] = adm[y]
                BY <3>3
            <4>2. /\ bornKeys' = bornKeys \cup {k} /\ keys' = keys /\ gone' = gone
                BY <2>1 DEF CreateAPIKey
            <4>3. \A y \in Admins \ {x} : adm[y].at = "new key" => adm[y].key # k
                BY <3>1 DEF NewKeysUnseen
            <4> QED BY <3>1, <3>2, <4>1, <4>2, <4>3, ZenonT(40) DEF NewKeysUnseen
        <3> QED BY <2>1, <3>4, <3>5 DEF CreateAPIKey
    <2>2. ASSUME NEW k \in Keys, NEW status \in KeyStatuses, FindToUpdateKey(x, k, status)
          PROVE  Buried'
        <3> DEFINE c == [NoCall EXCEPT !.at = "key found", !.key = k, !.status = status]
        <3>1. c \in Call /\ c.at = "key found"
            BY NoCallIsCall DEF Call, NoCall, KeyStatuses, AppStatuses
        <3> QED BY <2>2, <3>1, CallsGoOn DEF FindToUpdateKey, store
    <2>3. ASSUME NEW a \in Apps, NEW status \in AppStatuses, FindToUpdateApp(x, a, status)
          PROVE  Buried'
        <3> DEFINE c == [NoCall EXCEPT !.at = "app found", !.app = a, !.status = status]
        <3>1. c \in Call /\ c.at = "app found"
            BY NoCallIsCall DEF Call, NoCall
        <3> QED BY <2>3, <3>1, CallsGoOn DEF FindToUpdateApp, store
    <2>4. CASE InsertKey(x)
        <3>1. /\ adm[x].at = "new key" /\ keys' = keys \cup {adm[x].key}
              /\ adm' = [adm EXCEPT ![x] = NoCall]
              /\ UNCHANGED <<apps, bornApps, bornKeys, gone>>
            BY <2>4 DEF InsertKey
        <3>2. adm' \in [Admins -> Call]
            BY <3>1, NoCallIsCall
        <3>3. adm[x].key \in bornKeys /\ adm[x].key \notin gone
            BY <3>1 DEF NewKeysUnseen
        <3>4. NewKeysUnseen'
            BY <3>1, NoCallIsCall DEF NewKeysUnseen
        <3> QED BY <3>1, <3>2, <3>3, <3>4
    <2>5. CASE WriteKeyStatus(x)
        <3> DEFINE c == [adm[x] EXCEPT !.at = "put key", !.status = "active"]
        <3>1. c \in Call /\ c.at = "put key"
            BY <2>0 DEF Call, AppStatuses
        <3>2. adm' = [adm EXCEPT ![x] = c]
            BY <2>5 DEF WriteKeyStatus
        <3> QED BY <2>5, <3>1, <3>2, CallsGoOn DEF WriteKeyStatus
    <2>6. CASE PutKey(x)
        <3>1. /\ adm' = [adm EXCEPT ![x] = NoCall] /\ keys' = keys
              /\ UNCHANGED <<apps, bornApps, bornKeys, gone>>
            BY <2>6 DEF PutKey
        <3> QED BY <3>1, NoCallIsCall, CallsGoOn
    <2>7. CASE WriteAppStatus(x)
        <3> DEFINE c == [adm[x] EXCEPT !.at = "put app", !.status = "active"]
        <3>1. c \in Call /\ c.at = "put app"
            BY <2>0 DEF Call, AppStatuses
        <3>2. adm' = [adm EXCEPT ![x] = c]
            BY <2>7 DEF WriteAppStatus
        <3> QED BY <2>7, <3>1, <3>2, CallsGoOn DEF WriteAppStatus
    <2>8. CASE PutApp(x)
        <3>1. /\ adm' = [adm EXCEPT ![x] = NoCall] /\ apps' = apps
              /\ UNCHANGED <<keys, bornApps, bornKeys, gone>>
            BY <2>8 DEF PutApp
        <3> QED BY <3>1, NoCallIsCall, CallsGoOn
    <2> QED BY <1>6, <2>1, <2>2, <2>3, <2>4, <2>5, <2>6, <2>7, <2>8 DEF AdminStep
<1>7. ASSUME NEW q \in Requests, RequestStep(q) PROVE Buried'
    <2>1. UNCHANGED <<store, adm>>
        BY <1>7 DEF RequestStep, Present, FindKey, ReadKey, ReadExpiry, FindApp, ReadApp, Leave,
                    Judge, To
    <2> QED BY <2>1 DEF store, NewKeysUnseen
<1> QED BY <1>1, <1>2, <1>3, <1>4, <1>5, <1>6, <1>7 DEF Next, Step

\* What DeleteApp or DeleteAPIKey (app_service.go) has taken out of the store does
\* not come back, although updates that had found it put it back later.
THEOREM NothingComesBack == Spec => []DeletedForGood
<1>1. Buried => DeletedForGood
    BY DEF Buried
<1> QED BY BuriedInit, BuriedStep, <1>1, PTL DEF Spec

-----------------------------------------------------------------------------
\* The types of what Buried and Seeing do not speak of.  UpdateAPIKeyStatus looks
\* whether a status is legal before it finds the key, so what it later writes is.
Fields ==
    /\ appStatus \in [Apps -> AppStatuses]
    /\ keyStatus \in [Keys -> KeyStatuses]
    /\ appOf \in [Keys -> Apps] /\ expired \in SUBSET Keys
    /\ \A x \in Admins : adm[x].at = "key found" => adm[x].status \in KeyStatuses
    /\ seen \in [Requests -> SUBSET Moments]

LEMMA FieldsInit == Init => Fields
<1>1. AnyApp \in Apps
    BY AccessAssumption DEF AccessAssumption, AnyApp
<1> QED BY <1>1, NoCallIsCall, ZenonT(40) DEF Init, Fields, AppStatuses, KeyStatuses

\* Watch adds moments and nothing else.
LEMMA WatchKeepsType ==
    ASSUME Fields, Watch, req' \in [Requests -> Request]
    PROVE  seen' \in [Requests -> SUBSET Moments]
<1>1. \A k \in Keys : Now'[k] \subseteq Moments
    BY DEF Now, Moments
<1>2. \A q \in Requests : req'[q].key \in Keys
    BY DEF Request
<1>3. \A q \in Requests :
        (IF req'[q].at = "idle" THEN {} ELSE seen[q] \cup Now'[req'[q].key]) \in SUBSET Moments
    BY <1>1, <1>2 DEF Fields
<1> QED BY <1>3 DEF Watch

LEMMA FieldsStep == Fields /\ Buried /\ Seeing /\ Seeing' /\ [Next]_vars => Fields'
<1> SUFFICES ASSUME Fields, Buried, Seeing, Seeing', [Next]_vars PROVE Fields'
    OBVIOUS
<1>1. CASE UNCHANGED vars
    BY <1>1 DEF vars, Fields
<1>2. ASSUME Step, Watch PROVE Fields'
    <2>0. seen' \in [Requests -> SUBSET Moments]
        BY <1>2, WatchKeepsType DEF Seeing
    <2>1. ASSUME NEW a \in Apps, CreateApp(a) PROVE Fields'
        BY <2>0, <2>1 DEF Fields, CreateApp, AppStatuses
    <2>2. ASSUME NEW a \in Apps, DeleteApp(a) PROVE Fields'
        BY <2>0, <2>2 DEF Fields, DeleteApp
    <2>3. ASSUME NEW k \in Keys, DeleteAPIKey(k) \/ Expire(k) PROVE Fields'
        BY <2>0, <2>3 DEF Fields, DeleteAPIKey, Expire
    <2>4. ASSUME NEW x \in Admins, AdminStep(x) PROVE Fields'
        <3>0. adm \in [Admins -> Call] /\ adm[x].key \in Keys /\ adm[x].app \in Apps
              /\ adm[x].status \in AppStatuses
            BY DEF Buried, Call
        <3>1. ASSUME NEW a \in Apps, NEW k \in Keys, CreateAPIKey(x, a, k) PROVE Fields'
            <4> DEFINE c == [NoCall EXCEPT !.at = "new key", !.key = k]
            <4>1. c.at = "new key"
                BY DEF NoCall
            <4> HIDE DEF c
            <4>2. adm' = [adm EXCEPT ![x] = c]
                BY <3>1 DEF CreateAPIKey, c
            <4> QED BY <2>0, <3>0, <3>1, <4>1, <4>2 DEF Fields, CreateAPIKey
        <3>2. ASSUME NEW k \in Keys, NEW status \in KeyStatuses, FindToUpdateKey(x, k, status)
              PROVE  Fields'
            <4> DEFINE c == [NoCall EXCEPT !.at = "key found", !.key = k, !.status = status]
            <4>1. c.status = status
                BY DEF NoCall
            <4> HIDE DEF c
            <4>2. adm' = [adm EXCEPT ![x] = c]
                BY <3>2 DEF FindToUpdateKey, c
            <4> QED BY <2>0, <3>0, <3>2, <4>1, <4>2 DEF Fields, FindToUpdateKey, store
        <3>3. ASSUME NEW a \in Apps, NEW status \in AppStatuses, FindToUpdateApp(x, a, status)
              PROVE  Fields'
            <4> DEFINE c == [NoCall EXCEPT !.at = "app found", !.app = a, !.status = status]
            <4>1. c.at = "app found"
                BY DEF NoCall
            <4> HIDE DEF c
            <4>2. adm' = [adm EXCEPT ![x] = c]
                BY <3>3 DEF FindToUpdateApp, c
            <4> QED BY <2>0, <3>0, <3>3, <4>1, <4>2 DEF Fields, FindToUpdateApp, store
        <3>4. CASE InsertKey(x) \/ PutKey(x) \/ PutApp(x)
            BY <2>0, <3>0, <3>4, NoCallIsCall DEF Fields, InsertKey, PutKey, PutApp
        <3>5. CASE WriteKeyStatus(x)
            BY <2>0, <3>0, <3>5 DEF Fields, WriteKeyStatus, Call
        <3>6. CASE WriteAppStatus(x)
            BY <2>0, <3>0, <3>6 DEF Fields, WriteAppStatus, Call
        <3> QED BY <2>4, <3>1, <3>2, <3>3, <3>4, <3>5, <3>6 DEF AdminStep
    <2>5. ASSUME NEW p \in Requests, RequestStep(p) PROVE Fields'
        <3>1. UNCHANGED <<store, adm>>
            BY <2>5 DEF RequestStep, Present, FindKey, ReadKey, ReadExpiry, FindApp, ReadApp,
                        Leave, Judge, To
        <3> QED BY <2>0, <3>1 DEF Fields, store
    <2> QED BY <1>2, <2>1, <2>2, <2>3, <2>4, <2>5 DEF Step
<1> QED BY <1>1, <1>2 DEF Next

\* The store holds only what has been created, an app's status may be an illegal
\* one that UpdateApp (app_service.go) wrote before it validated, a key's never.
THEOREM TypeCorrect == Spec => []TypeOK
<1>1. Buried /\ Seeing /\ Fields => TypeOK
    BY DEF Buried, Seeing, Fields, IdsUsedOnce, TypeOK
<1> QED BY BuriedInit, BuriedStep, SeeingInit, SeeingStep, FieldsInit, FieldsStep, <1>1, PTL
        DEF Spec
=============================================================================
