-------------------------------- MODULE Access --------------------------------
(***************************************************************************)
(* Apps, their API keys, and Authenticate.                                    *)
(*                                                                           *)
(* Authenticate finds the key's object in the store, reads its status and then*)
(* its expiry when the lock is gone, finds its app's object, and reads that: *)
(* five moments, between which keys are disabled and enabled, expire and are *)
(* deleted, and apps too.  Updates find an object, write it in place, and put*)
(* it back.  An update that leaves App.Status out writes nothing modelled here.*)
(*                                                                           *)
(* A key's text is as unique as its id.  App names are left out: that a name   *)
(* is taken is a choice.                                                     *)
(***************************************************************************)
EXTENDS FiniteSets

CONSTANTS
    Apps, Keys,     \* ids, each created at most once (ids are random)
    Admins,         \* administrators' calls in flight at a time
    Requests        \* requests in flight at a time

ASSUME AccessAssumption == Apps # {} /\ Keys # {} /\ Apps \cap Keys = {}

VARIABLES
    apps, keys,     \* ids in the store's maps
    bornApps, bornKeys,
    appStatus,      \* App.Status; "illegal" is what Validate refuses
    keyStatus,      \* APIKey.Status
    appOf,          \* APIKey.AppID
    expired,        \* keys whose ExpiresAt has passed
    adm,            \* where each administrator's call is
    req,            \* where each request is, and the key it presents
    \* What the properties watch.
    gone,           \* ids that have been deleted
    seen            \* what was true of a request's key and app at some moment
                    \* since Authenticate was called

vars == <<apps, keys, bornApps, bornKeys, appStatus, keyStatus, appOf, expired,
          adm, req, gone, seen>>

AppStatuses == {"active", "disabled", "illegal"}
KeyStatuses == {"active", "disabled"}

AnyApp == CHOOSE a \in Apps : TRUE
AnyKey == CHOOSE k \in Keys : TRUE

Call == [at : {"idle", "new key", "key found", "put key", "app found", "put app"},
         app : Apps, key : Keys, status : AppStatuses]
NoCall == [at |-> "idle", app |-> AnyApp, key |-> AnyKey, status |-> "active"]

Request == [at : {"idle", "finding key", "reading key", "reading expiry", "finding app", "reading app",
                  "accepted", "refused"}, key : Keys]
NoRequest == [at |-> "idle", key |-> AnyKey]

Moments == {"key stored", "key missing", "key active", "key disabled", "key valid",
            "key expired", "app stored", "app missing", "app active", "app disabled"}

TypeOK ==
    /\ apps \in SUBSET bornApps /\ keys \in SUBSET bornKeys
    /\ bornApps \in SUBSET Apps /\ bornKeys \in SUBSET Keys
    /\ appStatus \in [Apps -> AppStatuses]
    /\ keyStatus \in [Keys -> KeyStatuses]
    /\ appOf \in [Keys -> Apps] /\ expired \in SUBSET Keys
    /\ adm \in [Admins -> Call]
    /\ req \in [Requests -> Request]
    /\ gone \in SUBSET (Apps \cup Keys)
    /\ seen \in [Requests -> SUBSET Moments]

Init ==
    /\ apps = {} /\ keys = {} /\ bornApps = {} /\ bornKeys = {}
    /\ appStatus = [a \in Apps |-> "active"]
    /\ keyStatus = [k \in Keys |-> "active"]
    /\ appOf = [k \in Keys |-> AnyApp] /\ expired = {}
    /\ adm = [x \in Admins |-> NoCall]
    /\ req = [q \in Requests |-> NoRequest]
    /\ gone = {} /\ seen = [q \in Requests |-> {}]

store == <<apps, keys, bornApps, bornKeys, appStatus, keyStatus, appOf, expired, gone>>

-----------------------------------------------------------------------------
CreateApp(a) ==
    /\ a \notin bornApps
    /\ bornApps' = bornApps \cup {a} /\ apps' = apps \cup {a}
    /\ \E status \in {"active", "disabled"} :
          appStatus' = [appStatus EXCEPT ![a] = status]
    /\ UNCHANGED <<keys, bornKeys, keyStatus, appOf, expired, adm, req, gone>>

DeleteApp(a) ==
    /\ a \in apps
    /\ apps' = apps \ {a} /\ gone' = gone \cup {a}
    /\ UNCHANGED <<keys, bornApps, bornKeys, appStatus, keyStatus, appOf, expired, adm, req>>

DeleteAPIKey(k) ==
    /\ k \in keys
    /\ keys' = keys \ {k} /\ gone' = gone \cup {k}
    /\ UNCHANGED <<apps, bornApps, bornKeys, appStatus, keyStatus, appOf, expired, adm, req>>

Expire(k) ==
    /\ k \in bornKeys
    /\ expired' = expired \cup {k}
    /\ UNCHANGED <<apps, keys, bornApps, bornKeys, appStatus, keyStatus, appOf, adm, req, gone>>

-----------------------------------------------------------------------------
\* CreateAPIKey looks the app up, and later inserts the key.
CreateAPIKey(x, a, k) ==
    /\ adm[x].at = "idle" /\ a \in apps /\ k \notin bornKeys
    /\ bornKeys' = bornKeys \cup {k}
    /\ appOf' = [appOf EXCEPT ![k] = a]
    /\ adm' = [adm EXCEPT ![x] = [NoCall EXCEPT !.at = "new key", !.key = k]]
    /\ UNCHANGED <<apps, keys, bornApps, appStatus, keyStatus, expired, req, gone>>

InsertKey(x) ==
    /\ adm[x].at = "new key"
    /\ keys' = keys \cup {adm[x].key}
    /\ adm' = [adm EXCEPT ![x] = NoCall]
    /\ UNCHANGED <<apps, bornApps, bornKeys, appStatus, keyStatus, appOf, expired, req, gone>>

\* UpdateAPIKeyStatus, with a legal status, finds the key, writes it, and puts
\* it back if it is still there.
FindToUpdateKey(x, k, status) ==
    /\ adm[x].at = "idle" /\ k \in keys
    /\ adm' = [adm EXCEPT ![x] = [NoCall EXCEPT !.at = "key found", !.key = k,
                                                !.status = status]]
    /\ UNCHANGED <<store, req>>

WriteKeyStatus(x) ==
    /\ adm[x].at = "key found"
    /\ keyStatus' = [keyStatus EXCEPT ![adm[x].key] = adm[x].status]
    /\ adm' = [adm EXCEPT ![x].at = "put key", ![x].status = "active"]
    /\ UNCHANGED <<apps, keys, bornApps, bornKeys, appStatus, appOf, expired, req, gone>>

\* Faulty put, for the checks: does not look whether the key is still there.
PutKeyBlindly(x) ==
    /\ adm[x].at = "put key"
    /\ keys' = keys \cup {adm[x].key}
    /\ adm' = [adm EXCEPT ![x] = NoCall]
    /\ UNCHANGED <<apps, bornApps, bornKeys, appStatus, keyStatus, appOf, expired, req, gone>>

PutKey(x) ==
    /\ adm[x].at = "put key"
    /\ keys' = IF adm[x].key \in keys THEN keys \cup {adm[x].key} ELSE keys
    /\ adm' = [adm EXCEPT ![x] = NoCall]
    /\ UNCHANGED <<apps, bornApps, bornKeys, appStatus, keyStatus, appOf, expired, req, gone>>

\* UpdateApp finds the app and writes its status, legal or not; then it
\* validates, and puts the app back if it is there and its name is free.
FindToUpdateApp(x, a, status) ==
    /\ adm[x].at = "idle" /\ a \in apps
    /\ adm' = [adm EXCEPT ![x] = [NoCall EXCEPT !.at = "app found", !.app = a,
                                                !.status = status]]
    /\ UNCHANGED <<store, req>>

\* Faulty write, for the checks: a status nobody sent.
WriteAppNoStatus(x) ==
    /\ adm[x].at = "app found"
    /\ appStatus' = [appStatus EXCEPT ![adm[x].app] = ""]
    /\ adm' = [adm EXCEPT ![x].at = "put app", ![x].status = "active"]
    /\ UNCHANGED <<apps, keys, bornApps, bornKeys, keyStatus, appOf, expired, req, gone>>

WriteAppStatus(x) ==
    /\ adm[x].at = "app found"
    /\ appStatus' = [appStatus EXCEPT ![adm[x].app] = adm[x].status]
    /\ adm' = [adm EXCEPT ![x].at = "put app", ![x].status = "active"]
    /\ UNCHANGED <<apps, keys, bornApps, bornKeys, keyStatus, appOf, expired, req, gone>>

PutApp(x) ==
    LET a == adm[x].app IN
    /\ adm[x].at = "put app"
    /\ \E nameTaken \in BOOLEAN :
          apps' = IF appStatus[a] # "illegal" /\ a \in apps /\ ~nameTaken
                  THEN apps \cup {a} ELSE apps
    /\ adm' = [adm EXCEPT ![x] = NoCall]
    /\ UNCHANGED <<keys, bornApps, bornKeys, appStatus, keyStatus, appOf, expired, req, gone>>

-----------------------------------------------------------------------------
To(q, place) == req' = [req EXCEPT ![q].at = place] /\ UNCHANGED <<store, adm>>

Judge(q, ok, place) == To(q, IF ok THEN place ELSE "refused")

\* Authenticate.
Present(q, k) ==
    /\ req[q].at = "idle"
    /\ req' = [req EXCEPT ![q] = [at |-> "finding key", key |-> k]]
    /\ UNCHANGED <<store, adm>>

FindKey(q) ==
    /\ req[q].at = "finding key"
    /\ Judge(q, req[q].key \in keys, "reading key")

ReadKey(q) ==
    /\ req[q].at = "reading key"
    /\ Judge(q, keyStatus[req[q].key] = "active", "reading expiry")

\* Faulty reading, for the checks: refuses keys that have yet to expire.
ReadExpiryEarly(q) ==
    /\ req[q].at = "reading expiry"
    /\ \E early \in BOOLEAN : Judge(q, req[q].key \notin expired /\ ~early, "finding app")

ReadExpiry(q) ==
    /\ req[q].at = "reading expiry"
    /\ Judge(q, req[q].key \notin expired, "finding app")

FindApp(q) ==
    /\ req[q].at = "finding app"
    /\ Judge(q, appOf[req[q].key] \in apps, "reading app")

\* Faulty last step, for the checks: takes any app that is there.
ReadAppAny(q) ==
    /\ req[q].at = "reading app"
    /\ To(q, "accepted")

ReadApp(q) ==
    /\ req[q].at = "reading app"
    /\ Judge(q, appStatus[appOf[req[q].key]] = "active", "accepted")

Leave(q) ==
    /\ req[q].at \in {"accepted", "refused"}
    /\ req' = [req EXCEPT ![q] = NoRequest]
    /\ UNCHANGED <<store, adm>>

AdminStep(x) ==
    \/ \E a \in Apps, k \in Keys : CreateAPIKey(x, a, k)
    \/ \E k \in Keys, status \in KeyStatuses : FindToUpdateKey(x, k, status)
    \/ \E a \in Apps, status \in AppStatuses : FindToUpdateApp(x, a, status)
    \/ InsertKey(x) \/ WriteKeyStatus(x) \/ PutKey(x) \/ WriteAppStatus(x) \/ PutApp(x)

RequestStep(q) ==
    \/ \E k \in Keys : Present(q, k)
    \/ FindKey(q) \/ ReadKey(q) \/ ReadExpiry(q) \/ FindApp(q) \/ ReadApp(q) \/ Leave(q)

\* Ghost: what is true of each key and its app now.
Now == [k \in Keys |->
    {IF k \in keys THEN "key stored" ELSE "key missing",
     IF keyStatus[k] = "active" THEN "key active" ELSE "key disabled",
     IF k \in expired THEN "key expired" ELSE "key valid",
     IF appOf[k] \in apps THEN "app stored" ELSE "app missing",
     IF appStatus[appOf[k]] = "active" THEN "app active" ELSE "app disabled"}]

Watch ==
    seen' = [q \in Requests |->
               IF req'[q].at = "idle" THEN {} ELSE seen[q] \cup Now'[req'[q].key]]

Step ==
    \/ \E a \in Apps : CreateApp(a) \/ DeleteApp(a)
    \/ \E k \in Keys : DeleteAPIKey(k) \/ Expire(k)
    \/ \E x \in Admins : AdminStep(x)
    \/ \E q \in Requests : RequestStep(q)

Next == Step /\ Watch

Spec == Init /\ [][Next]_vars

-----------------------------------------------------------------------------
Right == {"key stored", "key active", "key valid", "app stored", "app active"}
Wrong == {"key missing", "key disabled", "key expired", "app missing", "app disabled"}

\* Whatever changes under way, a request is accepted only if each thing that
\* Authenticate looks at was right at some moment since it was called, and
\* refused only if one of them was wrong.  So a key revoked before the call, in
\* any way, is not accepted.  (Not more: there need be no one moment at which all
\* were right.)
VerdictOnEvidence ==
    \A q \in Requests :
        /\ req[q].at = "accepted" => Right \subseteq seen[q]
        /\ req[q].at = "refused" => Wrong \cap seen[q] # {}

\* A key or an app that has been deleted does not come back, although an
\* update that found it before may put it back afterwards.
DeletedForGood == gone \cap (apps \cup keys) = {}
=============================================================================
