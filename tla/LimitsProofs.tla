---------------------------- MODULE LimitsProofs -----------------------------
(***************************************************************************)
(* Proofs about rate limiting: TokenBucket for every limit, window and      *)
(* clock, and RateLimiter for any rules, requests and administrators.       *)
(***************************************************************************)
EXTENDS RateLimiter, TokenBucket, Integers, TLAPS

\* The only non-linear step the proofs take, done once.
LEMMA Distribute ==
    ASSUME NEW a \in Int, NEW b \in Int, NEW c \in Int
    PROVE  /\ (a + b) * c = a * c + b * c
           /\ (a - b) * c = a * c - b * c
BY SMT

LEMMA ProductNat ==
    ASSUME NEW a \in Nat, NEW b \in Nat
    PROVE  a * b \in Nat
BY SMT

LEMMA Commute ==
    ASSUME NEW a \in Int, NEW b \in Int
    PROVE  a * b = b * a /\ 1 * a = a
BY SMT

\* The clamps of NewTokenBucket.
LEMMA BurstNat ==
    Rate \in Nat \ {0} /\ Window \in Nat \ {0} /\ Burst \in Nat
<1>1. Limit \in Nat /\ Window \in Nat \ {0} /\ Size \in Nat
  BY RuleAssumption DEF RuleAssumption
<1>2. Rate \in Nat \ {0}
  BY <1>1 DEF Rate
<1>3. Burst \in Nat
  <2> DEFINE size == IF Size > 0 THEN Size ELSE 1
  <2>1. size \in Nat
    BY <1>1
  <2>2. size * Window \in Nat
    BY <1>1, <2>1, ProductNat
  <2> QED BY <2>2 DEF Burst
<1> QED BY <1>1, <1>2, <1>3

\* What refill leaves: between what was there and the burst, and never more
\* than the elapsed time credits.
LEMMA RefilledBounds ==
    ASSUME BucketTypeOK
    PROVE  /\ (now - last) * Rate \in Nat
           /\ Refilled \in 0 .. Burst
           /\ Refilled <= tokens + (now - last) * Rate
           /\ now = last => Refilled = tokens
<1>1. now - last \in Nat /\ Rate \in Nat
  BY BurstNat DEF BucketTypeOK
<1>2. (now - last) * Rate \in Nat
  BY <1>1, ProductNat
<1>3. now = last => (now - last) * Rate = 0
  <2>1. now = last => now - last = 0
    BY <1>1 DEF BucketTypeOK
  <2> QED BY <1>1, <2>1
<1>4. tokens \in Nat /\ tokens <= Burst /\ Burst \in Nat
  BY BurstNat DEF BucketTypeOK
<1> DEFINE credit == (now - last) * Rate
<1>5. credit \in Nat /\ (now = last => credit = 0)
  BY <1>2, <1>3
<1>6. Refilled = Capped(tokens + credit)
  BY DEF Refilled
<1> HIDE DEF credit
<1>7. /\ Capped(tokens + credit) \in 0 .. Burst
      /\ Capped(tokens + credit) <= tokens + credit
      /\ credit = 0 => Capped(tokens + credit) = tokens
  BY <1>4, <1>5 DEF Capped
<1>8. QED
  <2>1. /\ Refilled \in 0 .. Burst /\ Refilled <= tokens + credit
        /\ now = last => Refilled = tokens
    BY <1>5, <1>6, <1>7
  <2> QED BY <2>1, <1>2 DEF credit

\* The bucket never holds more than its burst, and is never credited from the
\* future.
THEOREM BucketTypeCorrect == BucketSpec => []BucketTypeOK
<1>1. BucketInit => BucketTypeOK
  <2>1. Burst \in 0 .. Burst /\ MaxTime \in Nat /\ MaxResets \in Nat
    BY BurstNat, BoundAssumption DEF BoundAssumption
  <2> QED BY <2>1 DEF BucketInit, BucketTypeOK
<1>2. BucketTypeOK /\ [BucketNext]_bucketVars => BucketTypeOK'
  <2> SUFFICES ASSUME BucketTypeOK, [BucketNext]_bucketVars PROVE BucketTypeOK'
    OBVIOUS
  <2>1. Refilled \in 0 .. Burst /\ Burst \in Nat /\ Window \in Nat
    BY RefilledBounds, BurstNat DEF RuleAssumption
  <2> USE BoundAssumption DEF BucketTypeOK, BoundAssumption
  <2>2. CASE Allow
    <3>1. Refilled >= Window => Refilled - Window \in 0 .. Burst
      BY <2>1
    <3>2. tokens' \in 0 .. Burst
      BY <2>1, <2>2, <3>1 DEF Allow
    <3> QED BY <2>2, <3>2 DEF Allow
  <2>3. CASE Tokens
    BY <2>1, <2>3 DEF Tokens
  <2>4. CASE Reset
    BY <2>1, <2>4 DEF Reset
  <2>5. CASE Tick
    BY <2>5 DEF Tick
  <2>6. CASE UNCHANGED bucketVars
    BY <2>6 DEF bucketVars
  <2> QED BY <2>2, <2>3, <2>4, <2>5, <2>6 DEF BucketNext
<1> QED BY <1>1, <1>2, PTL DEF BucketSpec

-----------------------------------------------------------------------------
\* The account behind RateBound, kept at the last credit instead of now:
\* granted requests and what is left cost no more than what was ever put in.
\* Before the observer's mark is reached by a credit, nothing is on it.
Account ==
    IF last < mark
    THEN served = 0 /\ resets = 0
    ELSE served * Window + tokens <= Burst * (1 + resets) + (last - mark) * Rate

LEMMA AccountInit == BucketInit => Account
<1> SUFFICES ASSUME BucketInit PROVE Account
  OBVIOUS
<1>1. mark \in Nat /\ Rate \in Nat /\ Window \in Nat /\ Burst \in Nat
  BY BoundAssumption, BurstNat DEF BoundAssumption, BucketInit
<1> QED BY <1>1 DEF BucketInit, Account

\* A look at the bucket: t is what it then holds, paid what it has cost.
LEMMA AccountCredit ==
    ASSUME BucketTypeOK, Account, now >= mark
    PROVE  served * Window + Refilled
             <= Burst * (1 + resets) + (now - mark) * Rate
<1>1. /\ Rate \in Nat /\ Window \in Nat /\ Burst \in Nat
      /\ Refilled \in 0 .. Burst
      /\ Refilled <= tokens + (now - last) * Rate
      /\ now \in Nat /\ last \in Nat /\ mark \in Nat /\ tokens \in Nat
      /\ served \in Nat /\ resets \in Nat /\ last <= now
  BY RefilledBounds, BurstNat, BoundAssumption
  DEF BucketTypeOK, BoundAssumption
<1>2. CASE last < mark
  <2>1. served * Window = 0 /\ Burst * (1 + resets) = Burst
    BY <1>1, <1>2 DEF Account
  <2>2. (now - mark) * Rate \in Nat
    BY <1>1, ProductNat
  <2> QED BY <1>1, <2>1, <2>2
<1>3. CASE last >= mark
  <2>1. /\ (now - mark) * Rate = now * Rate - mark * Rate
        /\ (now - last) * Rate = now * Rate - last * Rate
        /\ (last - mark) * Rate = last * Rate - mark * Rate
    BY <1>1, Distribute
  <2>2. /\ now * Rate \in Nat /\ last * Rate \in Nat /\ mark * Rate \in Nat
        /\ served * Window \in Nat /\ Burst * (1 + resets) \in Nat
    BY <1>1, ProductNat
  <2>3. served * Window + tokens <= Burst * (1 + resets) + (last - mark) * Rate
    BY <1>1, <1>3 DEF Account
  <2> QED BY <1>1, <2>1, <2>2, <2>3
<1> QED BY <1>1, <1>2, <1>3

LEMMA AccountStep == BucketTypeOK /\ Account /\ [BucketNext]_bucketVars => Account'
<1> SUFFICES ASSUME BucketTypeOK, Account, [BucketNext]_bucketVars PROVE Account'
  OBVIOUS
<1>1. /\ Rate \in Nat /\ Window \in Nat /\ Burst \in Nat
      /\ Refilled \in 0 .. Burst
      /\ now \in Nat /\ last \in Nat /\ mark \in Nat /\ tokens \in Nat
      /\ served \in Nat /\ resets \in Nat /\ last <= now
  BY RefilledBounds, BurstNat, BoundAssumption
  DEF BucketTypeOK, BoundAssumption
<1>2. CASE now < mark
  <2>1. served = 0 /\ resets = 0
    BY <1>1, <1>2 DEF Account
  <2>2. mark' = mark /\ last' <= now
    BY <1>1 DEF BucketNext, Allow, Tokens, Reset, Tick, bucketVars
  <2>3. served' = served /\ resets' = resets
    BY <1>1, <1>2 DEF BucketNext, Allow, Tokens, Reset, Tick, bucketVars, Watching
  <2>4. last' \in Nat
    BY <1>1 DEF BucketNext, Allow, Tokens, Reset, Tick, bucketVars
  <2> QED BY <1>1, <1>2, <2>1, <2>2, <2>3, <2>4 DEF Account
<1>3. CASE now >= mark
  <2>1. served * Window + Refilled
          <= Burst * (1 + resets) + (now - mark) * Rate
    BY <1>3, AccountCredit
  <2>2. /\ served * Window \in Nat /\ Burst * (1 + resets) \in Nat
        /\ (now - mark) * Rate \in Nat
    BY <1>1, <1>3, ProductNat
  <2>3. CASE Allow
    <3>1. CASE Refilled >= Window
      <4>1. /\ served' = served + 1 /\ tokens' = Refilled - Window
            /\ last' = now /\ mark' = mark /\ resets' = resets
        BY <1>3, <2>3, <3>1 DEF Allow, Watching
      <4>2. (served + 1) * Window = served * Window + Window
        BY <1>1, Distribute
      <4>3. served' * Window + tokens' = served * Window + Refilled
        BY <1>1, <2>2, <4>1, <4>2
      <4> QED BY <1>1, <1>3, <2>1, <4>1, <4>3 DEF Account
    <3>2. CASE ~(Refilled >= Window)
      <4>1. /\ served' = served /\ tokens' = Refilled
            /\ last' = now /\ mark' = mark /\ resets' = resets
        BY <2>3, <3>2 DEF Allow
      <4> QED BY <1>1, <1>3, <2>1, <4>1 DEF Account
    <3> QED BY <3>1, <3>2
  <2>4. CASE Tokens
    <3>1. /\ served' = served /\ tokens' = Refilled
          /\ last' = now /\ mark' = mark /\ resets' = resets
      BY <2>4 DEF Tokens
    <3> QED BY <1>1, <1>3, <2>1, <3>1 DEF Account
  <2>5. CASE Reset
    <3>1. /\ served' = served /\ tokens' = Burst
          /\ last' = now /\ mark' = mark /\ resets' = resets + 1
      BY <1>3, <2>5 DEF Reset, Watching
    <3>2. /\ ((1 + resets) + 1) * Burst = (1 + resets) * Burst + 1 * Burst
          /\ 1 + (resets + 1) = (1 + resets) + 1
      BY <1>1, Distribute
    <3>3. Burst * (1 + (resets + 1)) = Burst * (1 + resets) + Burst
      BY <1>1, <3>2, Commute
    <3>4. served * Window + Burst
            <= Burst * (1 + (resets + 1)) + (now - mark) * Rate
      BY <1>1, <2>1, <2>2, <3>3
    <3> QED BY <1>1, <1>3, <3>1, <3>4 DEF Account
  <2>6. CASE Tick
    BY <2>6 DEF Tick, Account
  <2>7. CASE UNCHANGED bucketVars
    BY <2>7 DEF bucketVars, Account
  <2> QED BY <2>3, <2>4, <2>5, <2>6, <2>7 DEF BucketNext
<1> QED BY <1>1, <1>2, <1>3

\* From any moment on, requests granted are paid for by a full bucket, the
\* resets, and the time gone by.
THEOREM RateIsBounded == BucketSpec => []RateBound
<1>1. BucketTypeOK /\ Account => RateBound
  <2> SUFFICES ASSUME BucketTypeOK, Account, now >= mark
               PROVE  served * Window
                        <= Burst * (1 + resets) + (now - mark) * Rate
    BY DEF RateBound, Watching
  <2>1. served * Window + Refilled
          <= Burst * (1 + resets) + (now - mark) * Rate
    BY AccountCredit
  <2>2. Refilled \in Nat /\ served \in Nat /\ Window \in Nat
    BY RefilledBounds, BurstNat DEF BucketTypeOK
  <2>3. served * Window \in Nat
    BY <2>2, ProductNat
  <2>4. /\ Burst * (1 + resets) \in Nat
        /\ (now - mark) * Rate \in Nat
    <3>1. /\ Burst \in Nat /\ 1 + resets \in Nat
          /\ now - mark \in Nat /\ Rate \in Nat
      BY BurstNat, BoundAssumption
      DEF BucketTypeOK, BoundAssumption
    <3> QED BY <3>1, ProductNat
  <2> QED BY <2>1, <2>2, <2>3, <2>4
<1> QED BY <1>1, AccountInit, AccountStep, BucketTypeCorrect, PTL DEF BucketSpec

-----------------------------------------------------------------------------
\* The lazy bucket implements the ideal one: every look at it is a grant, a
\* refusal or a stutter of the ideal bucket, and a tick is a rise.
THEOREM Refinement == BucketSpec => ImplementsIdeal
<1> DEFINE lvl == Capped(tokens + (now - last) * Rate)
<1>1. BucketInit => Ideal!Init
  <2> SUFFICES ASSUME BucketInit PROVE Ideal!Init
    OBVIOUS
  <2>1. (now - last) * Rate = 0
    BY BurstNat DEF BucketInit
  <2> QED BY <2>1, BurstNat DEF BucketInit, Ideal!Init, Capped
<1>2. BucketTypeOK /\ [BucketNext]_bucketVars => [Ideal!Next]_(Ideal!vars)
  <2> SUFFICES ASSUME BucketTypeOK, [BucketNext]_bucketVars PROVE [Ideal!Next]_(Ideal!vars)
    OBVIOUS
  <2>1. /\ lvl = Refilled
        /\ lvl \in 0 .. Burst /\ Burst \in Nat
        /\ Rate \in Nat /\ Window \in Nat
    BY RefilledBounds, BurstNat DEF Refilled
  <2>2. \A n \in Nat : Ideal!Capped(n) = Capped(n)
    BY DEF Ideal!Capped, Capped
  \* A step that credits up to now leaves the level it stores.
  <2>3. ASSUME last' = now, now' = now, tokens' \in 0 .. Burst
        PROVE  lvl' = tokens'
    <3>1. (now' - last') * Rate = 0
      BY <2>1, <2>3 DEF BucketTypeOK
    <3> QED BY <2>1, <2>3, <3>1 DEF Capped
  <2>4. CASE Allow
    <3>1. CASE Refilled >= Window
      <4>1. /\ tokens' = Refilled - Window /\ tokens' \in 0 .. Burst
            /\ answer' = "granted" /\ last' = now /\ now' = now
        BY <2>1, <2>4, <3>1 DEF Allow
      <4>2. lvl' = lvl - Window /\ lvl >= Window
        BY <2>1, <2>3, <3>1, <4>1
      <4> QED BY <4>1, <4>2 DEF Ideal!Next, Ideal!Grant
    <3>2. CASE ~(Refilled >= Window)
      <4>1. /\ tokens' = Refilled /\ tokens' \in 0 .. Burst
            /\ answer' = "refused" /\ last' = now /\ now' = now
        BY <2>1, <2>4, <3>2 DEF Allow
      <4>2. lvl' = lvl /\ lvl < Window
        BY <2>1, <2>3, <3>2, <4>1
      <4> QED BY <4>1, <4>2 DEF Ideal!Next, Ideal!Refuse
    <3> QED BY <3>1, <3>2
  <2>5. CASE Tokens
    <3>1. /\ tokens' = Refilled /\ tokens' \in 0 .. Burst
          /\ answer' = answer /\ last' = now /\ now' = now
      BY <2>1, <2>5 DEF Tokens
    <3>2. lvl' = lvl
      BY <2>1, <2>3, <3>1
    <3> QED BY <3>1, <3>2 DEF Ideal!vars
  <2>6. CASE Reset
    <3>1. /\ tokens' = Burst /\ tokens' \in 0 .. Burst
          /\ answer' = answer /\ last' = now /\ now' = now
      BY <2>1, <2>6 DEF Reset
    <3>2. lvl' = Burst
      BY <2>1, <2>3, <3>1
    <3> QED BY <2>2, <3>1, <3>2 DEF Ideal!Next, Ideal!Refill
  <2>7. CASE Tick
    <3>1. /\ now' = now + 1 /\ tokens' = tokens /\ last' = last
          /\ answer' = answer
      BY <2>7 DEF Tick
    <3>2. /\ tokens \in Nat /\ now - last \in Nat /\ now \in Nat /\ last \in Nat
      BY <2>1, BoundAssumption DEF BucketTypeOK, BoundAssumption
    <3>3. (now - last) * Rate \in Nat
      BY <2>1, <3>2, ProductNat
    <3>4. ((now - last) + 1) * Rate = (now - last) * Rate + Rate
      BY <2>1, <3>2, Distribute
    <3>5. (now + 1) - last = (now - last) + 1
      BY <3>2
    <3>6. lvl' = Capped(tokens + ((now - last) * Rate + Rate))
      BY <3>1, <3>4, <3>5 DEF Capped
    <3>7. lvl' = Capped(lvl + Rate)
      BY <2>1, <3>2, <3>3, <3>6 DEF Capped
    <3>8. lvl' = Ideal!Capped(lvl + Rate)
      BY <2>1, <2>2, <3>7
    <3> QED BY <3>1, <3>8 DEF Ideal!Next, Ideal!Rise
  <2>8. CASE UNCHANGED bucketVars
    BY <2>8 DEF bucketVars, Ideal!vars
  <2> QED BY <2>4, <2>5, <2>6, <2>7, <2>8 DEF BucketNext
<1> QED BY <1>1, <1>2, BucketTypeCorrect, PTL DEF BucketSpec, ImplementsIdeal, Ideal!Spec

-----------------------------------------------------------------------------
LEMMA Defaults ==
    /\ AnyRule \in Rules /\ AnyName \in Names /\ AnyLimit \in Limits
    /\ Idle \in Request /\ Idle \in Update
    /\ \A w \in RuleWindows : Defaulted(w) \in RuleWindows
<1>1. AnyRule \in Rules /\ AnyName \in Names /\ AnyLimit \in Limits
  BY LimiterAssumption DEF LimiterAssumption, AnyRule, AnyName, AnyLimit
<1>2. DefaultWindow \in RuleWindows
  BY DEF RuleWindows
<1>3. Idle \in Request /\ Idle \in Update
  BY <1>1, <1>2 DEF Idle, Request, Update, BucketWindows
<1> QED BY <1>1, <1>2, <1>3 DEF Defaulted

\* Every shared object, cached bucket and call in flight is well formed.
THEOREM RulesTypeCorrect == Spec => []TypeOK
<1>1. Init => TypeOK
  <2> SUFFICES ASSUME Init PROVE TypeOK
    OBVIOUS
  <2>1. rule \in [Rules -> RuleObject]
    BY Defaults DEF Init, RuleObject, RuleWindows
  <2>2. req \in [Requests -> Request] /\ upd \in [Admins -> Update]
    BY Defaults DEF Init
  <2> QED BY <2>1, <2>2, LimiterAssumption DEF Init, TypeOK, LimiterAssumption
<1>2. TypeOK /\ [Next]_vars => TypeOK'
  <2> SUFFICES ASSUME TypeOK, [Next]_vars PROVE TypeOK'
    OBVIOUS
  <2> USE DEF TypeOK
  <2>1. ASSUME NEW r \in Rules, NEW n \in Names, NEW l \in Limits, NEW w \in Windows,
               CreateRule(r, n, l, w)
        PROVE  TypeOK'
    <3>1. rule' \in [Rules -> RuleObject]
      BY <2>1, Defaults DEF CreateRule, RuleObject, RuleWindows
    <3> QED BY <2>1, <3>1 DEF CreateRule
  <2>2. ASSUME NEW r \in Rules, DeleteRule(r) PROVE TypeOK'
    BY <2>2 DEF DeleteRule
  <2>3. ASSUME NEW a \in Admins, NEW r \in Rules, NEW n \in Names,
               NEW l \in Limits, NEW w \in Windows, UpdateName(a, r, n, l, w)
        PROVE  TypeOK'
    <3>1. rule' \in [Rules -> RuleObject]
      BY <2>3 DEF UpdateName, RuleObject
    <3>2. upd' \in [Admins -> Update]
      BY <2>3 DEF UpdateName, Update, RuleWindows
    <3>3. updates' \in 0 .. MaxUpdates
      BY <2>3, LimiterAssumption DEF UpdateName, LimiterAssumption
    <3> QED BY <2>3, <3>1, <3>2, <3>3 DEF UpdateName
  <2>4. ASSUME NEW a \in Admins, UpdateLimit(a) PROVE TypeOK'
    <3>1. upd[a] \in Update
      OBVIOUS
    <3>2. rule' \in [Rules -> RuleObject] /\ upd' \in [Admins -> Update]
      BY <2>4, <3>1, Defaults, ZenonT(40) DEF UpdateLimit, RuleObject, Update
    <3> QED BY <2>4, <3>2 DEF UpdateLimit
  <2>5. ASSUME NEW a \in Admins, UpdateWindow(a) PROVE TypeOK'
    <3>1. upd[a] \in Update /\ DefaultWindow \in RuleWindows
      BY DEF RuleWindows
    <3>2. rule' \in [Rules -> RuleObject] /\ upd' \in [Admins -> Update]
      BY <2>5, <3>1, Defaults, ZenonT(40) DEF UpdateWindow, RuleObject, Update
    <3> QED BY <2>5, <3>2 DEF UpdateWindow
  <2>6. ASSUME NEW a \in Admins, UpdateValidate(a) PROVE TypeOK'
    <3>1. upd[a] \in Update /\ rule[upd[a].rule] \in RuleObject
      BY DEF Update
    <3>2. CASE ValidateLimit(a)
      <4>1. upd' \in [Admins -> Update] /\ dirty' \in SUBSET Rules
        <5>1. ASSUME upd' = [upd EXCEPT ![a].at = "validate window"]
              PROVE  upd' \in [Admins -> Update]
          BY <3>1, <5>1 DEF Update
        <5>2. [upd EXCEPT ![a] = Idle] \in [Admins -> Update]
          BY Defaults
        <5>3. upd[a].rule \in Rules
          BY <3>1 DEF Update
        <5> QED BY <3>2, <5>1, <5>2, <5>3 DEF ValidateLimit, UpdateFails
      <4> QED BY <3>2, <4>1 DEF ValidateLimit
    <3>3. CASE ValidateWindow(a)
      <4>1. upd' \in [Admins -> Update]
        BY <3>1, <3>3 DEF ValidateWindow, Update
      <4> QED BY <3>3, <4>1 DEF ValidateWindow
    <3>4. CASE ReplaceWindow(a)
      <4>1. rule' \in [Rules -> RuleObject] /\ upd' \in [Admins -> Update]
        BY <3>1, <3>4, Defaults DEF ReplaceWindow, RuleObject, Update, RuleWindows
      <4> QED BY <3>4, <4>1 DEF ReplaceWindow
    <3> QED BY <2>6, <3>2, <3>3, <3>4 DEF UpdateValidate
  <2>7. ASSUME NEW a \in Admins, UpdateStore(a) PROVE TypeOK'
    <3>1. upd[a] \in Update
      OBVIOUS
    <3>2. upd' \in [Admins -> Update] /\ dirty' \in SUBSET Rules
      <4>1. ASSUME upd' = [upd EXCEPT ![a].at = "reset"]
            PROVE  upd' \in [Admins -> Update]
        BY <3>1, <4>1 DEF Update
      <4>2. [upd EXCEPT ![a] = Idle] \in [Admins -> Update]
        BY Defaults
      <4>3. upd[a].rule \in Rules
        BY <3>1 DEF Update
      <4> QED BY <2>7, <4>1, <4>2, <4>3 DEF UpdateStore, UpdateFails
    <3> QED BY <2>7, <3>2 DEF UpdateStore
  <2>8. ASSUME NEW a \in Admins, ResetBuckets(a) PROVE TypeOK'
    BY <2>8, Defaults DEF ResetBuckets
  <2>9. ASSUME NEW q \in Requests, NEW r \in Rules, FindRule(q, r) PROVE TypeOK'
    BY <2>9 DEF FindRule, Request
  <2>10. ASSUME NEW q \in Requests, BucketHit(q) PROVE TypeOK'
    BY <2>10, Defaults DEF BucketHit
  <2>11. ASSUME NEW q \in Requests, BucketMiss(q) PROVE TypeOK'
    BY <2>11 DEF BucketMiss, Request
  <2>14. ASSUME NEW q \in Requests, ReadLimit(q) \/ ReadWindow(q) PROVE TypeOK'
    <3>1. req[q] \in Request /\ rule[req[q].rule] \in RuleObject
      BY DEF Request
    <3>2. rule[req[q].rule].limit \in Limits /\ rule[req[q].rule].window \in BucketWindows
      BY <3>1 DEF RuleObject, BucketWindows
    <3>3. 1 \in BucketWindows
      BY DEF BucketWindows
    <3>4. ASSUME NEW at \in {"window", "making"}, NEW l \in Limits, NEW w \in BucketWindows
          PROVE  /\ [req[q] EXCEPT !.at = at, !.limit = l] \in Request
                 /\ [req[q] EXCEPT !.at = at, !.window = w] \in Request
      BY <3>1 DEF Request
    <3>5. req'[q] \in Request
      <4>1. CASE ReadWindow(q)
        BY <3>2, <3>4, <4>1 DEF ReadWindow
      <4>2. CASE ReadLimit(q) /\ req[q].at = "alone"
        <5> DEFINE l == rule[req[q].rule].limit
        <5>1. req'[q] = [req[q] EXCEPT !.at = "making", !.limit = l, !.window = 1]
          BY <4>2, Zenon DEF ReadLimit
        <5>2. l \in Limits
          BY <3>2
        <5> HIDE DEF l
        <5>3. [req[q] EXCEPT !.at = "making", !.limit = l, !.window = 1] \in Request
          BY <3>1, <3>3, <5>2 DEF Request
        <5> QED BY <5>1, <5>3, Zenon
      <4>3. CASE ReadLimit(q) /\ req[q].at = "limit"
        BY <3>2, <3>4, <4>3 DEF ReadLimit
      <4> QED BY <2>14, <4>1, <4>2, <4>3 DEF ReadLimit
    <3>6. req' \in [Requests -> Request]
      BY <2>14, <3>5 DEF ReadLimit, ReadWindow
    <3> QED BY <2>14, <3>6 DEF ReadLimit, ReadWindow
  <2>12. ASSUME NEW q \in Requests, BucketMade(q) PROVE TypeOK'
    <3>1. req[q] \in Request /\ rule[req[q].rule] \in RuleObject
      BY DEF Request
    <3>2. [limit |-> req[q].limit, window |-> req[q].window,
           burst |-> rule[req[q].rule].limit] \in Bucket
      BY <3>1 DEF Request, RuleObject, Bucket
    <3>3. cached' \in [Rules -> SUBSET Bucket]
      BY <2>12, <3>2 DEF BucketMade
    <3>4. made' \in [Rules -> Nat]
      <4>1. req[q].rule \in Rules
        BY <3>1 DEF Request
      <4>2. made[req[q].rule] + 1 \in Nat
        BY <4>1
      <4> QED BY <2>12, <4>2 DEF BucketMade
    <3> QED BY <2>12, <3>3, <3>4, Defaults DEF BucketMade
  <2>13. CASE UNCHANGED vars
    BY <2>13 DEF vars
  <2> QED BY <2>1, <2>2, <2>3, <2>4, <2>5, <2>6, <2>7, <2>8, <2>9, <2>10, <2>11,
             <2>12, <2>13, <2>14 DEF Next, AdminStep, RequestStep, RuleGone
<1> QED BY <1>1, <1>2, PTL DEF Spec

-----------------------------------------------------------------------------
\* What the middle steps of an update do to the update calls: the call goes on
\* with the same rule, or fails and leaves the rule dirty.
LEMMA UpdateGoesOn ==
    ASSUME TypeOK, NEW a \in Admins,
           UpdateLimit(a) \/ UpdateWindow(a) \/ UpdateValidate(a) \/ UpdateStore(a)
    PROVE  /\ \A b \in Admins : b # a => upd'[b] = upd[b]
           /\ upd[a].at # "idle"
           /\ \/ upd'[a].at # "idle" /\ upd'[a].rule = upd[a].rule /\ dirty' = dirty
              \/ upd'[a] = Idle /\ dirty' = dirty \cup {upd[a].rule}
<1> USE DEF TypeOK, Update
<1>1. CASE UpdateLimit(a)
  BY <1>1 DEF UpdateLimit
<1>2. CASE UpdateWindow(a)
  BY <1>2 DEF UpdateWindow
<1>3. CASE UpdateValidate(a)
  <2>1. CASE ValidateLimit(a)
    BY <2>1 DEF ValidateLimit, UpdateFails
  <2>2. CASE ValidateWindow(a)
    BY <2>2 DEF ValidateWindow
  <2>3. CASE ReplaceWindow(a)
    BY <2>3 DEF ReplaceWindow
  <2> QED BY <1>3, <2>1, <2>2, <2>3 DEF UpdateValidate
<1>4. CASE UpdateStore(a)
  BY <1>4 DEF UpdateStore, UpdateFails
<1> QED BY <1>1, <1>2, <1>3, <1>4

\* A rule that CacheFresh speaks about.
Stable(r) == ~Updating(r) /\ r \notin dirty

\* So a rule that is stable afterwards is not the one it updates.
LEMMA StableApart ==
    ASSUME TypeOK, NEW a \in Admins,
           UpdateLimit(a) \/ UpdateWindow(a) \/ UpdateValidate(a) \/ UpdateStore(a),
           NEW s \in Rules, Stable(s)'
    PROVE  Stable(s) /\ s # upd[a].rule
<1>1. /\ \A b \in Admins : b # a => upd'[b] = upd[b]
      /\ \/ upd'[a].at # "idle" /\ upd'[a].rule = upd[a].rule /\ dirty' = dirty
         \/ upd'[a] = Idle /\ dirty' = dirty \cup {upd[a].rule}
  BY UpdateGoesOn
<1>2. /\ \A b \in Admins : upd'[b].at # "idle" => upd'[b].rule # s
      /\ s \notin dirty'
  BY DEF Stable, Updating
<1>3. s # upd[a].rule /\ s \notin dirty
  BY <1>1, <1>2
<1>4. \A b \in Admins : upd[b].at # "idle" => upd[b].rule # s
  BY <1>1, <1>2, <1>3
<1> QED BY <1>3, <1>4 DEF Stable, Updating

-----------------------------------------------------------------------------
\* Between looking for a bucket and inserting one.
Making(q) == req[q].at \in {"alone", "limit", "window", "making"}

\* Service.mu is held by the one request that is making a bucket.
MuInv ==
    /\ \A q \in Requests : q \in mu <=> Making(q)
    /\ \A p, q \in mu : p = q

\* Calls in flight are about rules that exist, and only those have buckets.
BornInv ==
    /\ \A q \in Requests : req[q].at # "idle" => req[q].rule \in born
    /\ \A a \in Admins : upd[a].at # "idle" => upd[a].rule \in born
    /\ \A r \in Rules : r \notin born => cached[r] = {}

\* While a bucket is being made its rule has none, and at most one is made
\* between two resets.
CountInv ==
    /\ \A q \in Requests : Making(q) => cached[req[q].rule] = {}
    /\ \A r \in Rules : made[r] <= 1 /\ (cached[r] = {} => made[r] = 0)

\* What a request c that is making a bucket has read so far is what its rule o
\* has.
ReadSoFar(c, o) ==
    /\ c.at = "alone" => o.window = 0
    /\ c.at = "limit" => o.window # 0
    /\ c.at = "window" => c.limit = o.limit /\ o.window # 0
    /\ c.at = "making" => /\ c.limit = o.limit
                           /\ c.window = IF o.window = 0 THEN 1 ELSE o.window

\* A stable rule is what its bucket was made from, and what a bucket being
\* made has read so far.
FreshInv ==
    /\ \A r \in Rules : Stable(r) => \A b \in cached[r] : Matches(b, rule[r])
    /\ \A q \in Requests : Stable(req[q].rule) => ReadSoFar(req[q], rule[req[q].rule])

IInv == MuInv /\ BornInv /\ CountInv /\ FreshInv

\* The fields FreshInv compares change only under an update or at birth, and a
\* rule becomes stable only by ResetBuckets.
LEMMA MuStep == TypeOK /\ MuInv /\ [Next]_vars => MuInv'
<1> SUFFICES ASSUME TypeOK, MuInv, [Next]_vars PROVE MuInv'
  OBVIOUS
<1> USE DEF TypeOK, MuInv, Making, Idle
<1>1. ASSUME UNCHANGED <<req, mu>> PROVE MuInv'
  BY <1>1
<1>2. ASSUME NEW q \in Requests, NEW r \in Rules, FindRule(q, r) PROVE MuInv'
  BY <1>2 DEF FindRule
<1>3. ASSUME NEW q \in Requests, BucketHit(q) PROVE MuInv'
  BY <1>3 DEF BucketHit
<1>4. ASSUME NEW q \in Requests, BucketMiss(q) PROVE MuInv'
  BY <1>4 DEF BucketMiss
<1>5. ASSUME NEW q \in Requests, BucketMade(q) PROVE MuInv'
  BY <1>5 DEF BucketMade
<1>6. ASSUME NEW q \in Requests, ReadLimit(q) \/ ReadWindow(q) PROVE MuInv'
  <2>1. \A p \in Requests : req'[p].at \in {"alone", "limit", "window", "making"} <=>
                                req[p].at \in {"alone", "limit", "window", "making"}
    BY <1>6 DEF ReadLimit, ReadWindow, Request
  <2> QED BY <1>6, <2>1 DEF ReadLimit, ReadWindow
<1> QED BY <1>1, <1>2, <1>3, <1>4, <1>5, <1>6
        DEF Next, AdminStep, RequestStep, RuleGone, CreateRule, DeleteRule, UpdateName,
            UpdateLimit, UpdateWindow, UpdateValidate, ValidateLimit, ValidateWindow,
            ReplaceWindow, UpdateStore, ResetBuckets, vars

LEMMA BornStep == TypeOK /\ BornInv /\ [Next]_vars => BornInv'
<1> SUFFICES ASSUME TypeOK, BornInv, [Next]_vars PROVE BornInv'
  OBVIOUS
<1> USE DEF TypeOK, BornInv, Idle
<1>1. ASSUME UNCHANGED <<req, upd, born, cached>> PROVE BornInv'
  BY <1>1
<1>2. ASSUME NEW r \in Rules, NEW n \in Names, NEW l \in Limits, NEW w \in Windows,
             CreateRule(r, n, l, w)
      PROVE  BornInv'
  BY <1>2 DEF CreateRule
<1>3. ASSUME NEW a \in Admins, NEW r \in Rules, NEW n \in Names,
             NEW l \in Limits, NEW w \in Windows, UpdateName(a, r, n, l, w)
      PROVE  BornInv'
  BY <1>3 DEF UpdateName
<1>4. ASSUME NEW a \in Admins,
             \/ UpdateLimit(a) \/ UpdateWindow(a) \/ UpdateValidate(a) \/ UpdateStore(a)
      PROVE  BornInv'
  <2>1. \A b \in Admins : upd'[b].at # "idle" =>
                              upd[b].at # "idle" /\ upd'[b].rule = upd[b].rule
    BY <1>4, UpdateGoesOn
  <2>2. UNCHANGED <<req, born, cached>>
    BY <1>4 DEF UpdateLimit, UpdateWindow, UpdateValidate, ValidateLimit, ValidateWindow,
                ReplaceWindow, UpdateStore
  <2> QED BY <2>1, <2>2
<1>5. ASSUME NEW a \in Admins, ResetBuckets(a) PROVE BornInv'
  BY <1>5 DEF ResetBuckets
<1>6. ASSUME NEW q \in Requests, NEW r \in Rules, FindRule(q, r) PROVE BornInv'
  BY <1>6 DEF FindRule
<1>7. ASSUME NEW q \in Requests,
             BucketHit(q) \/ BucketMiss(q) \/ ReadLimit(q) \/ ReadWindow(q)
      PROVE  BornInv'
  <2>1. \A p \in Requests : req'[p].at # "idle" =>
                                req[p].at # "idle" /\ req'[p].rule = req[p].rule
    BY <1>7 DEF BucketHit, BucketMiss, ReadLimit, ReadWindow, Request
  <2>2. UNCHANGED <<upd, born, cached>>
    BY <1>7 DEF BucketHit, BucketMiss, ReadLimit, ReadWindow
  <2> QED BY <2>1, <2>2
<1>8. ASSUME NEW q \in Requests, BucketMade(q) PROVE BornInv'
  BY <1>8 DEF BucketMade
<1> QED BY <1>1, <1>2, <1>3, <1>4, <1>5, <1>6, <1>7, <1>8
        DEF Next, AdminStep, RequestStep, RuleGone, DeleteRule, vars

LEMMA CountStep == TypeOK /\ MuInv /\ CountInv /\ [Next]_vars => CountInv'
<1> SUFFICES ASSUME TypeOK, MuInv, CountInv, [Next]_vars PROVE CountInv'
  OBVIOUS
<1> USE DEF TypeOK, MuInv, CountInv, Making, Idle
<1>1. ASSUME UNCHANGED <<req, cached, made>> PROVE CountInv'
  BY <1>1
<1>2. ASSUME NEW a \in Admins, ResetBuckets(a) PROVE CountInv'
  BY <1>2 DEF ResetBuckets
<1>3. ASSUME NEW q \in Requests, NEW r \in Rules, FindRule(q, r) PROVE CountInv'
  <2>1. \A p \in Requests : Making(p)' => req'[p] = req[p]
    BY <1>3 DEF FindRule, Request
  <2> QED BY <1>3, <2>1 DEF FindRule
<1>4. ASSUME NEW q \in Requests, BucketHit(q) PROVE CountInv'
  BY <1>4 DEF BucketHit
<1>5. ASSUME NEW q \in Requests, BucketMiss(q) PROVE CountInv'
  BY <1>5 DEF BucketMiss
<1>6. ASSUME NEW q \in Requests, BucketMade(q) PROVE CountInv'
  <2>1. \A p \in Requests : ~Making(p)'
    BY <1>6 DEF BucketMade
  <2>2. req[q].rule \in Rules /\ made[req[q].rule] = 0
    BY <1>6 DEF BucketMade, Request
  <2>3. made'[req[q].rule] = 1 /\ cached'[req[q].rule] # {}
    <3>1. made'[req[q].rule] = made[req[q].rule] + 1
      BY <1>6, <2>2 DEF BucketMade
    <3>2. \E b : b \in cached'[req[q].rule]
      BY <1>6, <2>2, Zenon DEF BucketMade
    <3> QED BY <2>2, <3>1, <3>2
  <2>4. \A r \in Rules : r # req[q].rule => made'[r] = made[r] /\ cached'[r] = cached[r]
    BY <1>6 DEF BucketMade
  <2>5. \A r \in Rules : made'[r] <= 1 /\ (cached'[r] = {} => made'[r] = 0)
    BY <2>3, <2>4
  <2> QED BY <2>1, <2>5
<1>7. ASSUME NEW q \in Requests, ReadLimit(q) \/ ReadWindow(q) PROVE CountInv'
  <2>1. \A p \in Requests : Making(p)' => Making(p) /\ req'[p].rule = req[p].rule
    BY <1>7 DEF ReadLimit, ReadWindow, Request
  <2> QED BY <1>7, <2>1 DEF ReadLimit, ReadWindow
<1> QED BY <1>1, <1>2, <1>3, <1>4, <1>5, <1>6, <1>7
        DEF Next, AdminStep, RequestStep, RuleGone, CreateRule, DeleteRule, UpdateName,
            UpdateLimit, UpdateWindow, UpdateValidate, ValidateLimit, ValidateWindow,
            ReplaceWindow, UpdateStore, vars

\* The heart of it: how each step treats stable rules.
LEMMA FreshStep ==
    TypeOK /\ MuInv /\ BornInv /\ CountInv /\ FreshInv /\ [Next]_vars => FreshInv'
<1> SUFFICES ASSUME TypeOK, MuInv, BornInv, CountInv, FreshInv, [Next]_vars
             PROVE  FreshInv'
  OBVIOUS
<1> USE DEF TypeOK, FreshInv
\* A step that leaves requests and buckets alone, and every rule that is stable
\* after it stable before it and as it was.
<1>1. ASSUME UNCHANGED <<req, cached>>,
             \A r \in Rules : (Stable(r)' /\ r \in born) =>
                 /\ Stable(r)
                 /\ rule'[r].limit = rule[r].limit /\ rule'[r].window = rule[r].window
      PROVE  FreshInv'
  <2>1. \A q \in Requests : req[q].rule \in Rules
    BY DEF Request
  <2>2. \A q \in Requests : req[q].at # "idle" => req[q].rule \in born
    BY DEF BornInv
  <2>3. \A r \in Rules : Stable(r)' => \A b \in cached[r] : r \in born
    BY DEF BornInv
  <2>4. \A r \in Rules : Stable(r)' => \A b \in cached'[r] : Matches(b, rule[r])'
    BY <1>1, <2>3 DEF Matches
  <2>5. ASSUME NEW q \in Requests, Stable(req[q].rule)', req[q].at # "idle"
        PROVE  ReadSoFar(req[q], rule'[req[q].rule])
    <3>1. ReadSoFar(req[q], rule[req[q].rule])
      BY <1>1, <2>1, <2>2, <2>5
    <3> QED BY <1>1, <2>1, <2>2, <2>5, <3>1 DEF ReadSoFar
  <2>6. \A q \in Requests : Stable(req[q].rule)' => ReadSoFar(req[q], rule'[req[q].rule])
    BY <2>5 DEF ReadSoFar
  <2> QED BY <1>1, <2>4, <2>6
<1>2. ASSUME NEW r \in Rules, NEW n \in Names, NEW l \in Limits, NEW w \in Windows,
             CreateRule(r, n, l, w)
      PROVE  FreshInv'
  <2>1. \A s \in Rules : Stable(s)' => Stable(s)
    BY <1>2 DEF CreateRule, Stable, Updating
  <2>2. \A s \in Rules : s \in born => rule'[s] = rule[s]
    BY <1>2 DEF CreateRule
  <2> QED BY <1>1, <1>2, <2>1, <2>2 DEF CreateRule
<1>3. ASSUME NEW r \in Rules, DeleteRule(r) PROVE FreshInv'
  BY <1>1, <1>3 DEF DeleteRule, Stable, Updating
<1>4. ASSUME NEW a \in Admins, NEW r \in Rules, NEW n \in Names,
             NEW l \in Limits, NEW w \in Windows, UpdateName(a, r, n, l, w)
      PROVE  FreshInv'
  <2>1. \A s \in Rules : Stable(s)' => Stable(s)
    BY <1>4 DEF UpdateName, Stable, Updating
  <2>2. \A s \in Rules : rule'[s].limit = rule[s].limit /\ rule'[s].window = rule[s].window
    BY <1>4 DEF UpdateName, RuleObject
  <2> QED BY <1>1, <1>4, <2>1, <2>2 DEF UpdateName
\* A running update keeps its rule unstable, to its end.
<1>5. ASSUME NEW a \in Admins, UpdateLimit(a) \/ UpdateWindow(a) PROVE FreshInv'
  <2>1. \A s \in Rules : Stable(s)' => Stable(s) /\ s # upd[a].rule
    BY <1>5, StableApart
  <2>2. \A s \in Rules : s # upd[a].rule => rule'[s] = rule[s]
    BY <1>5 DEF UpdateLimit, UpdateWindow
  <2> QED BY <1>1, <1>5, <2>1, <2>2 DEF UpdateLimit, UpdateWindow
<1>6. ASSUME NEW a \in Admins, UpdateValidate(a) PROVE FreshInv'
  <2>1. \A s \in Rules : Stable(s)' => Stable(s) /\ s # upd[a].rule
    BY <1>6, StableApart
  <2>2. \A s \in Rules : s # upd[a].rule => rule'[s] = rule[s]
    BY <1>6 DEF UpdateValidate, ValidateLimit, ValidateWindow, ReplaceWindow
  <2> QED BY <1>1, <1>6, <2>1, <2>2
          DEF UpdateValidate, ValidateLimit, ValidateWindow, ReplaceWindow
<1>7. ASSUME NEW a \in Admins, UpdateStore(a) PROVE FreshInv'
  <2>1. \A s \in Rules : Stable(s)' => Stable(s)
    BY <1>7, StableApart
  <2> QED BY <1>1, <1>7, <2>1 DEF UpdateStore
\* ResetBuckets makes rules stable, but leaves no bucket and waits for those
\* being made.
<1>8. ASSUME NEW a \in Admins, ResetBuckets(a) PROVE FreshInv'
  BY <1>8 DEF ResetBuckets, MuInv, Making, ReadSoFar
<1>9. ASSUME UNCHANGED <<rule, upd, dirty>>
      PROVE  \A s \in Rules : Stable(s)' <=> Stable(s)
  BY <1>9 DEF Stable, Updating
\* A step of a request that leaves the buckets alone, if what it has read is
\* what the rule has.
<1>10. ASSUME NEW q \in Requests, UNCHANGED <<rule, cached, upd, dirty>>,
              \A p \in Requests : p # q => req'[p] = req[p],
              Stable(req'[q].rule) => ReadSoFar(req'[q], rule[req'[q].rule]),
              req'[q].rule \in Rules
       PROVE  FreshInv'
  <2>1. \A s \in Rules : Stable(s)' => Stable(s)
    BY <1>9, <1>10
  <2>2. \A s \in Rules : Stable(s)' => \A b \in cached'[s] : Matches(b, rule[s])'
    BY <1>10, <2>1 DEF Matches
  <2>3. \A p \in Requests : req[p].rule \in Rules
    BY DEF Request
  <2>4. ASSUME NEW p \in Requests, NEW s \in Rules, s = req'[p].rule, Stable(s)'
        PROVE  ReadSoFar(req'[p], rule'[s])
    BY <1>10, <2>1, <2>3, <2>4
  <2>5. \A p \in Requests : req'[p].rule \in Rules
    BY <1>10, <2>3
  <2>6. \A p \in Requests : (Stable(req[p].rule) => ReadSoFar(req[p], rule[req[p].rule]))'
    BY <2>4, <2>5
  <2> QED BY <2>2, <2>6
<1>11. ASSUME NEW q \in Requests, BucketHit(q) \/ \E r \in Rules : FindRule(q, r)
       PROVE  FreshInv'
  <2>1. req'[q].at \in {"idle", "holding"} /\ req'[q].rule \in Rules
    BY <1>11, Defaults DEF FindRule, BucketHit, Idle, Request
  <2>2. /\ UNCHANGED <<rule, cached, upd, dirty>>
        /\ \A p \in Requests : p # q => req'[p] = req[p]
    BY <1>11 DEF FindRule, BucketHit
  <2>3. ReadSoFar(req'[q], rule[req'[q].rule])
    BY <2>1 DEF ReadSoFar
  <2> QED BY <1>10, <2>1, <2>2, <2>3
<1>12. ASSUME NEW q \in Requests, BucketMiss(q) \/ ReadLimit(q) \/ ReadWindow(q)
       PROVE  FreshInv'
  <2>1. /\ UNCHANGED <<rule, cached, upd, dirty>>
        /\ \A p \in Requests : p # q => req'[p] = req[p]
        /\ req'[q].rule = req[q].rule /\ req[q].rule \in Rules
    BY <1>12 DEF BucketMiss, ReadLimit, ReadWindow, Request
  <2>2. ASSUME Stable(req[q].rule)
        PROVE  ReadSoFar(req'[q], rule[req[q].rule])
    <3>1. ReadSoFar(req[q], rule[req[q].rule]) /\ req[q] \in Request
      BY <2>2
    <3>2. CASE BucketMiss(q)
      BY <3>2 DEF BucketMiss, ReadSoFar, Request
    <3>3. CASE ReadLimit(q)
      BY <3>1, <3>3 DEF ReadLimit, ReadSoFar, Request
    <3>4. CASE ReadWindow(q)
      BY <3>1, <3>4 DEF ReadWindow, ReadSoFar, Request
    <3> QED BY <1>12, <3>2, <3>3, <3>4
  <2> QED BY <1>10, <2>1, <2>2
<1>13. ASSUME NEW q \in Requests, BucketMade(q) PROVE FreshInv'
  <2>1. \A p \in Requests : req'[p].at \in {"idle", "holding"}
    BY <1>13 DEF BucketMade, MuInv, Making, Idle, Request
  <2>2. req[q].rule \in Rules
    BY DEF Request
  <2>3. \A s \in Rules : s # req[q].rule => cached'[s] = cached[s]
    BY <1>13 DEF BucketMade
  <2>4. ASSUME Stable(req[q].rule), NEW b \in cached'[req[q].rule]
        PROVE  Matches(b, rule[req[q].rule])
    <3>1. ReadSoFar(req[q], rule[req[q].rule])
      BY <2>4
    <3> QED BY <1>13, <2>2, <2>4, <3>1 DEF BucketMade, Matches, ReadSoFar
  <2>5. \A s \in Rules : Stable(s)' => Stable(s)
    BY <1>9, <1>13 DEF BucketMade
  <2>6. rule' = rule
    BY <1>13 DEF BucketMade
  <2>7. \A s \in Rules : Stable(s)' => \A b \in cached'[s] : Matches(b, rule'[s])
    BY <2>3, <2>4, <2>5, <2>6
  <2>8. \A s \in Rules : Stable(s)' => \A b \in cached'[s] : Matches(b, rule[s])'
    BY <2>7 DEF Matches
  <2>9. \A p \in Requests : ReadSoFar(req[p], rule[req[p].rule])'
    BY <2>1 DEF ReadSoFar
  <2> QED BY <2>8, <2>9
<1>14. CASE UNCHANGED vars
  BY <1>1, <1>14 DEF vars, Stable, Updating
<1> QED BY <1>2, <1>3, <1>4, <1>5, <1>6, <1>7, <1>8, <1>11, <1>12, <1>13, <1>14
        DEF Next, AdminStep, RequestStep, RuleGone

LEMMA Invariant == Spec => []IInv
<1>1. Init => IInv
  BY Defaults DEF Init, IInv, MuInv, BornInv, CountInv, FreshInv, Making, ReadSoFar, Idle
<1>2. TypeOK /\ IInv /\ [Next]_vars => IInv'
  BY MuStep, BornStep, CountStep, FreshStep DEF IInv
<1> QED BY <1>1, <1>2, RulesTypeCorrect, PTL DEF Spec

\* No race of bucket making with updates leaves a stale or torn bucket behind.
THEOREM CacheStaysFresh == Spec => []CacheFresh
<1>1. TypeOK /\ IInv => CacheFresh
  BY DEF TypeOK, IInv, FreshInv, Stable, CacheFresh
<1> QED BY <1>1, Invariant, RulesTypeCorrect, PTL

\* No race of first requests makes two buckets for one rule.
THEOREM OneBucket == Spec => []OneBucketPerRule
<1>1. IInv => OneBucketPerRule
  BY DEF IInv, CountInv, OneBucketPerRule
<1> QED BY <1>1, Invariant, PTL
=============================================================================
