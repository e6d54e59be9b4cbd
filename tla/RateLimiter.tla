----------------------------- MODULE RateLimiter -----------------------------
(***************************************************************************)
(* Rate limit rules and the buckets made from them.                          *)
(*                                                                           *)
(* A rule is a shared object: the store hands out pointers, so an update      *)
(* writes its fields in place while requests read them.  A bucket is made     *)
(* from a rule's fields the first time the rule is used (BucketFor, under     *)
(* the service's mutex) and cached; an update that succeeds empties the       *)
(* whole cache (ResetBuckets).                                                *)
(*                                                                           *)
(* A bucket is here only the parameters it was made with; how it answers is   *)
(* TokenBucket's subject.                                                     *)
(***************************************************************************)
EXTENDS Naturals

CONSTANTS
    Rules,          \* rule ids, each created at most once (ids are random)
    Names,          \* rule names
    Limits,         \* limits an administrator may send; 0 is invalid
    Windows,        \* windows an administrator may send; 0 means the default
    DefaultWindow,  \* what Validate puts in place of a window of 0
    Requests,       \* requests in flight at a time
    Admins,         \* administrators' update calls in flight at a time
    MaxUpdates      \* bound on the updates started

ASSUME LimiterAssumption ==
    /\ Rules # {} /\ Names # {} /\ Limits # {}
    /\ Limits \subseteq Nat /\ Windows \subseteq Nat
    /\ DefaultWindow \in Nat \ {0} /\ MaxUpdates \in Nat

VARIABLES
    rule,       \* the shared RateLimitRule objects, by id
    born,       \* ids that have been created
    stored,     \* ids in the store's map
    cached,     \* Service.buckets: for each rule the set of its one bucket, or {}
    mu,         \* the request that holds Service.mu between two steps, as a set
    req,        \* where each request is
    upd,        \* where each update call is
    updates,    \* updates started so far
    \* What the properties watch.
    made,       \* buckets made for each rule since the cache was last emptied
    dirty       \* rules left changed by a failed update, cache not emptied since

vars == <<rule, born, stored, cached, mu, req, upd, updates, made, dirty>>

RuleWindows == Windows \cup {DefaultWindow}

RuleObject == [name: Names, limit: Limits, window: RuleWindows]

\* limit and window are what RatePerSecond divides, a window of 1 where it does
\* not (divided by a window of 0, the rate is infinite); burst is Limit read again.
BucketWindows == RuleWindows \cup {1}
Bucket == [limit: Limits, window: BucketWindows, burst: Limits]

\* The fields of an idle request, update or unborn rule mean nothing.
AnyRule == CHOOSE r \in Rules : TRUE
AnyName == CHOOSE n \in Names : TRUE
AnyLimit == CHOOSE l \in Limits : TRUE

Request == [at: {"idle", "holding", "alone", "limit", "window", "making"},
            rule: Rules, limit: Limits, window: BucketWindows]
Update == [at: {"idle", "limit", "window", "validate", "validate window", "default",
                "store", "reset"},
           rule: Rules, limit: Limits, window: RuleWindows]

Idle == [at |-> "idle", rule |-> AnyRule, limit |-> AnyLimit, window |-> DefaultWindow]

TypeOK ==
    /\ rule \in [Rules -> RuleObject]
    /\ born \in SUBSET Rules /\ stored \in SUBSET born
    /\ cached \in [Rules -> SUBSET Bucket]
    /\ mu \in SUBSET Requests
    /\ req \in [Requests -> Request]
    /\ upd \in [Admins -> Update]
    /\ updates \in 0 .. MaxUpdates
    /\ made \in [Rules -> Nat]
    /\ dirty \in SUBSET Rules

Init ==
    /\ rule = [r \in Rules |-> [name |-> AnyName, limit |-> AnyLimit,
                                window |-> DefaultWindow]]
    /\ born = {} /\ stored = {}
    /\ cached = [r \in Rules |-> {}] /\ mu = {}
    /\ req = [q \in Requests |-> Idle]
    /\ upd = [a \in Admins |-> Idle]
    /\ updates = 0 /\ made = [r \in Rules |-> 0] /\ dirty = {}

-----------------------------------------------------------------------------
\* RateLimitRule.Validate, but for the blank name.
Valid(limit) == limit > 0
Defaulted(window) == IF window = 0 THEN DefaultWindow ELSE window

NameTaken(r, n) == \E s \in stored : s # r /\ rule[s].name = n

\* Faulty id, for the checks: one that a rule may have already.
CreateRuleAnyId(r, n, l, w) ==
    /\ Valid(l) /\ ~NameTaken(r, n)
    /\ rule' = [rule EXCEPT ![r] = [name |-> n, limit |-> l, window |-> Defaulted(w)]]
    /\ stored' = stored \cup {r}
    /\ UNCHANGED <<born, cached, mu, req, upd, updates, made, dirty>>

\* CreateRateLimitRule: the object is private until the store has it.
CreateRule(r, n, l, w) ==
    /\ r \notin born
    /\ Valid(l) /\ ~NameTaken(r, n)
    /\ rule' = [rule EXCEPT ![r] = [name |-> n, limit |-> l, window |-> Defaulted(w)]]
    /\ born' = born \cup {r} /\ stored' = stored \cup {r}
    /\ UNCHANGED <<cached, mu, req, upd, updates, made, dirty>>

\* DeleteRateLimitRule leaves the cache alone.
DeleteRule(r) ==
    /\ r \in stored
    /\ stored' = stored \ {r}
    /\ UNCHANGED <<rule, born, cached, mu, req, upd, updates, made, dirty>>

-----------------------------------------------------------------------------
\* UpdateRateLimitRule, one step for each shared access.  (No request reads
\* the name, so writing it is one step with looking the rule up.)
UpdateName(a, r, n, l, w) ==
    /\ upd[a].at = "idle" /\ updates < MaxUpdates
    /\ r \in stored
    /\ upd' = [upd EXCEPT ![a] = [at |-> "limit", rule |-> r, limit |-> l, window |-> w]]
    /\ updates' = updates + 1
    /\ rule' = [rule EXCEPT ![r].name = n]
    /\ UNCHANGED <<born, stored, cached, mu, req, made, dirty>>

UpdateLimit(a) ==
    /\ upd[a].at = "limit"
    /\ rule' = [rule EXCEPT ![upd[a].rule].limit = upd[a].limit]
    /\ upd' = [upd EXCEPT ![a].at = "window", ![a].limit = AnyLimit]
    /\ UNCHANGED <<born, stored, cached, mu, req, updates, made, dirty>>

UpdateWindow(a) ==
    /\ upd[a].at = "window"
    /\ rule' = [rule EXCEPT ![upd[a].rule].window = upd[a].window]
    /\ upd' = [upd EXCEPT ![a].at = "validate", ![a].window = DefaultWindow]
    /\ UNCHANGED <<born, stored, cached, mu, req, updates, made, dirty>>

\* An update that fails returns with the rule as it has written it.
UpdateFails(a) ==
    /\ upd' = [upd EXCEPT ![a] = Idle]
    /\ dirty' = dirty \cup {upd[a].rule}

\* Validate runs on the shared object: it reads the limit ...
ValidateLimit(a) ==
    /\ upd[a].at = "validate"
    /\ IF Valid(rule[upd[a].rule].limit)
       THEN upd' = [upd EXCEPT ![a].at = "validate window"] /\ UNCHANGED dirty
       ELSE UpdateFails(a)
    /\ UNCHANGED <<rule, born, stored, cached, mu, req, updates, made>>

\* ... and the window ...
ValidateWindow(a) ==
    LET replaces == Defaulted(rule[upd[a].rule].window) # rule[upd[a].rule].window
    IN  /\ upd[a].at = "validate window"
        /\ upd' = [upd EXCEPT ![a].at = IF replaces THEN "default" ELSE "store"]
        /\ UNCHANGED <<rule, born, stored, cached, mu, req, updates, made, dirty>>

\* ... and may write one there, on whatever another update has written since.
ReplaceWindow(a) ==
    /\ upd[a].at = "default"
    /\ rule' = [rule EXCEPT ![upd[a].rule].window = DefaultWindow]
    /\ upd' = [upd EXCEPT ![a].at = "store"]
    /\ UNCHANGED <<born, stored, cached, mu, req, updates, made, dirty>>

UpdateValidate(a) == ValidateLimit(a) \/ ValidateWindow(a) \/ ReplaceWindow(a)

\* The store refuses a rule deleted meanwhile and a name that is taken.
UpdateStore(a) ==
    LET r == upd[a].rule IN
    /\ upd[a].at = "store"
    /\ IF r \in stored /\ ~NameTaken(r, rule[r].name)
       THEN upd' = [upd EXCEPT ![a].at = "reset"] /\ UNCHANGED dirty
       ELSE UpdateFails(a)
    /\ UNCHANGED <<rule, born, stored, cached, mu, req, updates, made>>

\* Faulty ResetBuckets, for the checks: does not wait for a bucket being made.
ResetUnlocked(a) ==
    /\ upd[a].at = "reset"
    /\ cached' = [r \in Rules |-> {}]
    /\ made' = [r \in Rules |-> 0]
    /\ upd' = [upd EXCEPT ![a] = Idle]
    /\ dirty' = {}
    /\ UNCHANGED <<rule, born, stored, mu, req, updates>>

\* ResetBuckets, under Service.mu: every rule's bucket goes.
ResetBuckets(a) ==
    /\ upd[a].at = "reset" /\ mu = {}
    /\ cached' = [r \in Rules |-> {}]
    /\ made' = [r \in Rules |-> 0]
    /\ upd' = [upd EXCEPT ![a] = Idle]
    /\ dirty' = {}
    /\ UNCHANGED <<rule, born, stored, mu, req, updates>>

-----------------------------------------------------------------------------
\* AllowRequest for a route bound to r: a rule that is gone lets everything
\* through; otherwise the request now holds the shared object.
RuleGone(q, r) ==
    /\ req[q].at = "idle"
    /\ r \notin stored
    /\ UNCHANGED vars

FindRule(q, r) ==
    /\ req[q].at = "idle"
    /\ r \in stored
    /\ req' = [req EXCEPT ![q].at = "holding", ![q].rule = r]
    /\ UNCHANGED <<rule, born, stored, cached, mu, upd, updates, made, dirty>>

\* BucketFor finds a bucket, and the request asks it.
BucketHit(q) ==
    /\ req[q].at = "holding" /\ mu = {}
    /\ cached[req[q].rule] # {}
    /\ req' = [req EXCEPT ![q] = Idle]
    /\ UNCHANGED <<rule, born, stored, cached, mu, upd, updates, made, dirty>>

\* Faulty BucketFor: lets go of the mutex between looking and inserting.
BucketMissUnlocked(q) ==
    LET r == req[q].rule IN
    /\ req[q].at = "holding" /\ mu = {}
    /\ cached[r] = {}
    /\ req' = [req EXCEPT ![q].at = IF rule[r].window = 0 THEN "alone" ELSE "limit"]
    /\ UNCHANGED <<rule, born, stored, cached, mu, upd, updates, made, dirty>>

\* BucketFor finds none: still holding the mutex it reads the rate, and then
\* the burst.  The mutex does not keep an update from writing between: here,
\* RatePerSecond reads whether there is a window to divide by ...
BucketMiss(q) ==
    LET r == req[q].rule IN
    /\ req[q].at = "holding" /\ mu = {}
    /\ cached[r] = {}
    /\ mu' = {q}
    /\ req' = [req EXCEPT ![q].at = IF rule[r].window = 0 THEN "alone" ELSE "limit"]
    /\ UNCHANGED <<rule, born, stored, cached, upd, updates, made, dirty>>

\* ... the limit, which is the rate if there is none ...
ReadLimit(q) ==
    LET l == rule[req[q].rule].limit IN
    /\ \/ /\ req[q].at = "alone"
          /\ req' = [req EXCEPT ![q].at = "making", ![q].limit = l, ![q].window = 1]
       \/ /\ req[q].at = "limit"
          /\ req' = [req EXCEPT ![q].at = "window", ![q].limit = l]
    /\ UNCHANGED <<rule, born, stored, cached, mu, upd, updates, made, dirty>>

\* ... and the window again.
ReadWindow(q) ==
    /\ req[q].at = "window"
    /\ req' = [req EXCEPT ![q].at = "making", ![q].window = rule[req[q].rule].window]
    /\ UNCHANGED <<rule, born, stored, cached, mu, upd, updates, made, dirty>>

\* The bucket, full as its burst says, goes into the cache.
BucketMade(q) ==
    LET r == req[q].rule IN
    /\ req[q].at = "making"
    /\ cached' = [cached EXCEPT ![r] = {[limit |-> req[q].limit,
                                         window |-> req[q].window,
                                         burst |-> rule[r].limit]}]
    /\ made' = [made EXCEPT ![r] = @ + 1]
    /\ mu' = mu \ {q}
    /\ req' = [req EXCEPT ![q] = Idle]
    /\ UNCHANGED <<rule, born, stored, upd, updates, dirty>>

AdminStep(a) ==
    \/ \E r \in Rules, n \in Names, l \in Limits, w \in Windows :
          UpdateName(a, r, n, l, w)
    \/ UpdateLimit(a) \/ UpdateWindow(a) \/ UpdateValidate(a)
    \/ UpdateStore(a) \/ ResetBuckets(a)

RequestStep(q) ==
    \/ \E r \in Rules : RuleGone(q, r) \/ FindRule(q, r)
    \/ BucketHit(q) \/ BucketMiss(q) \/ ReadLimit(q) \/ ReadWindow(q) \/ BucketMade(q)

Next ==
    \/ \E r \in Rules, n \in Names, l \in Limits, w \in Windows :
          CreateRule(r, n, l, w)
    \/ \E r \in Rules : DeleteRule(r)
    \/ \E a \in Admins : AdminStep(a)
    \/ \E q \in Requests : RequestStep(q)

Spec == Init /\ [][Next]_vars

-----------------------------------------------------------------------------
\* An update of r is under way.
Updating(r) == \E a \in Admins : upd[a].at # "idle" /\ upd[a].rule = r

\* The rate and burst that o asks for.
Matches(b, o) ==
    /\ b.limit = o.limit /\ b.burst = o.limit
    /\ b.window = IF o.window = 0 THEN 1 ELSE o.window

\* A rule that nobody is updating, and that no failed update has left
\* changed, is enforced by a bucket made from its current fields: a request
\* that was making a bucket while the update wrote, with the rate of one
\* version and the burst of another, cannot have left it behind.
CacheFresh ==
    \A r \in stored :
        (~Updating(r) /\ r \notin dirty) =>
            \A b \in cached[r] : Matches(b, rule[r])

\* Requests of one rule share one bucket: no second one is made before the
\* cache is emptied, so concurrent first requests do not each bring a full
\* burst.
OneBucketPerRule == \A r \in Rules : made[r] <= 1
=============================================================================
