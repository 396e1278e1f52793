-------------------------- MODULE TokenBucketProofs --------------------------
(***************************************************************************)
(* Proofs about TokenBucket for every number of callers, every policy,     *)
(* every expiry, and clocks that differ by any amount.                     *)
(***************************************************************************)
EXTENDS TokenBucket, TLAPS

\* Before the first script nothing was consumed and there is no hash; after it, the
\* never-set-back bucket was refilled at least as late as the real one.
HistoryFits ==
    /\ latest = Nobody => spent = 0 /\ ~bucket.exists
    /\ latest # Nobody => bucket.last <= ideal.last

\* The inductive invariant.
IInv == TypeOK /\ HistoryFits /\ TokensAreEarned /\ NoneRefusedByDisorder

-----------------------------------------------------------------------------
\* The constants are what a policy and a configuration may be.
LEMMA ConstantTypes ==
    /\ Burst \in Nat \ {0} /\ Cost \in Nat \ {0} /\ Rate \in Nat \ {0}
    /\ Second \in Nat \ {0} /\ Ttl \in Nat \ {0} /\ Capacity \in Nat \ {0}
BY BucketAssumption DEF Capacity

\* A full bucket is what flows in before an expiry, and the gift.
LEMMA GiftCovers ==
    /\ Gift \in Nat
    /\ Capacity <= Rate * Ttl + Gift
<1>1. Rate * Ttl \in Nat /\ Capacity \in Nat
  BY ConstantTypes
<1> QED
  BY <1>1 DEF Gift, AtLeast

\* Each gift counts once.
LEMMA GiftsAdd ==
    ASSUME NEW n \in Nat
    PROVE  n * Gift \in Nat /\ (n + 1) * Gift = n * Gift + Gift
BY GiftCovers

\* What flows in grows with the time it flows.
LEMMA InflowGrows ==
    ASSUME NEW a \in Int, NEW b \in Int
    PROVE  /\ Rate * a \in Int
           /\ Rate * (a + b) = Rate * a + Rate * b
           /\ a <= b => Rate * a <= Rate * b
BY ConstantTypes

\* A refill lies between what there was and the capacity, and is earned by the time
\* that passed.
LEMMA RefillBounds ==
    ASSUME NEW tokens \in Int, tokens <= Capacity, NEW elapsed \in Int
    PROVE  /\ Refill(tokens, elapsed) \in Int
           /\ tokens <= Refill(tokens, elapsed)
           /\ Refill(tokens, elapsed) <= Capacity
           /\ Refill(tokens, elapsed) <= tokens + Rate * AtLeast(0, elapsed)
<1> DEFINE e == AtLeast(0, elapsed)
<1>1. e \in Nat
  BY DEF AtLeast
<1>2. e * Rate \in Nat /\ e * Rate = Rate * e
  BY <1>1, ConstantTypes
<1> HIDE DEF e
<1>3. Refill(tokens, elapsed) = AtMost(Capacity, tokens + e * Rate)
  BY DEF Refill, e
<1> QED
  BY <1>2, <1>3, ConstantTypes DEF AtMost, e

\* A fuller bucket that had more time to fill is fuller.
LEMMA RefillMonotone ==
    ASSUME NEW x \in Int, NEW y \in Int, x <= y, NEW d \in Int, NEW e \in Int, d <= e
    PROVE  Refill(x, d) <= Refill(y, e)
<1> DEFINE p == AtLeast(0, d)
           q == AtLeast(0, e)
<1>1. p \in Nat /\ q \in Nat /\ p <= q
  BY DEF AtLeast
<1>2. p * Rate \in Nat /\ q * Rate \in Nat /\ p * Rate <= q * Rate
  BY <1>1, ConstantTypes
<1> HIDE DEF p, q
<1>3. Refill(x, d) = AtMost(Capacity, x + p * Rate) /\ Refill(y, e) = AtMost(Capacity, y + q * Rate)
  BY DEF Refill, p, q
<1> QED
  BY <1>2, <1>3, ConstantTypes DEF AtMost

\* A Retry-After is at least a second.
LEMMA HeaderType ==
    ASSUME NEW tokens \in Int
    PROVE  RetryAfterHeader(tokens) \in Nat \ {0}
<1>1. RetryAfter(tokens) \in Int
  BY ConstantTypes DEF RetryAfter
<1>2. Rounded(RetryAfter(tokens)) \in Int
  BY <1>1, ConstantTypes DEF Rounded
<1> QED
  BY <1>2 DEF RetryAfterHeader, AtLeast

-----------------------------------------------------------------------------
\* What a script finds and leaves, and what it takes from where.
LEMMA ScriptEffect ==
    ASSUME TypeOK, NEW r \in Caller, Script(r),
           NEW found, found = Available(r),
           NEW taken, taken = IF found >= Cost THEN Cost ELSE 0
    PROVE  /\ found \in 0 .. Capacity /\ taken \in Nat
           /\ found - taken \in 0 .. Capacity
           /\ bucket' = [exists |-> TRUE, tokens |-> found - taken,
                         last |-> stamp[r], expires |-> clock + Ttl]
           /\ spent' = spent + taken /\ latest' = r
<1> USE DEF TypeOK
<1>1. /\ bucket.exists \in BOOLEAN /\ bucket.tokens \in 0 .. Capacity
      /\ bucket.last \in Nat /\ stamp[r] \in Nat
  OBVIOUS
<1>2. found \in 0 .. Capacity
  <2>1. CASE bucket.exists
    BY <1>1, <2>1, RefillBounds, ConstantTypes, SMTT(20) DEF Available
  <2>2. CASE ~bucket.exists
    BY <1>1, <2>2, ConstantTypes DEF Available
  <2> QED
    BY <2>1, <2>2
<1>3. taken \in Nat /\ found - taken \in 0 .. Capacity
  BY <1>2, ConstantTypes
<1>4. (IF found >= Cost THEN found - Cost ELSE found) = found - taken
  BY <1>2, ConstantTypes
<1>5. bucket' = [exists |-> TRUE, tokens |-> found - taken,
                 last |-> stamp[r], expires |-> clock + Ttl]
  BY <1>4 DEF Script, TimeStamp
<1>6. spent' = spent + taken /\ latest' = r
  BY DEF Script
<1> QED
  BY <1>2, <1>3, <1>5, <1>6

\* There is nothing in a script's account that time, the burst or a late stamp did
\* not pay for.
LEMMA ScriptEarns ==
    ASSUME IInv, NEW r \in Caller, Script(r)
    PROVE  rewound' \in Nat /\ first' \in Nat /\ renewals' \in Nat /\ TokensAreEarned'
<1> USE DEF IInv, TypeOK
<1> DEFINE found == Available(r)
           taken == IF found >= Cost THEN Cost ELSE 0
           t == stamp[r]
<1>1. /\ found \in 0 .. Capacity /\ taken \in Nat
      /\ bucket'.tokens = found - taken /\ bucket'.last = t
      /\ spent' = spent + taken /\ latest' = r
  BY ScriptEffect
<1>2. /\ first' = IF latest = Nobody THEN t ELSE first
      /\ rewound' = rewound + SetBack(r)
      /\ renewals' = IF ~bucket.exists /\ latest # Nobody THEN renewals + 1 ELSE renewals
  BY DEF Script
<1>3. /\ bucket.exists \in BOOLEAN /\ bucket.tokens \in 0 .. Capacity
      /\ bucket.last \in Nat /\ t \in Nat /\ spent \in Nat /\ first \in Nat /\ rewound \in Nat
      /\ renewals \in Nat /\ renewals * Gift \in Nat
      /\ Capacity \in Nat /\ Ttl \in Nat /\ Rate \in Nat /\ r # Nobody
  BY ConstantTypes, BucketAssumption, GiftsAdd
<1>4. SetBack(r) \in Nat
  BY <1>3 DEF SetBack, AtLeast
<1>5. spent + found <= Capacity + Rate * (t - first' + rewound') + renewals' * Gift
  <2>1. CASE latest = Nobody
    <3>1. ~bucket.exists /\ spent = 0
      BY <2>1 DEF HistoryFits
    <3>2. found = Capacity /\ SetBack(r) = 0
      BY <2>1, <3>1 DEF Available, SetBack
    <3>3. t - first' + rewound' = rewound
      BY <1>2, <1>3, <2>1, <3>2
    <3>4. Rate * rewound \in Nat
      BY <1>3
    <3>5. renewals' = renewals
      BY <1>2, <2>1
    <3> HIDE DEF found, t
    <3> QED
      BY <1>3, <3>1, <3>2, <3>3, <3>4, <3>5
  <2>2. CASE latest # Nobody /\ bucket.exists
    <3> DEFINE up   == AtLeast(0, t - bucket.last)
               base == bucket.last - first + rewound
    <3>1. up \in Int /\ base \in Int
      BY <1>3 DEF AtLeast
    <3>2. t - first' + rewound' = base + up
      BY <1>2, <1>3, <2>2 DEF SetBack, AtLeast
    <3>3. found <= bucket.tokens + Rate * up
      BY <1>3, <2>2, RefillBounds DEF Available
    <3>4. spent + bucket.tokens <= Capacity + Rate * base + renewals * Gift
      BY <2>2 DEF TokensAreEarned
    <3> HIDE DEF up, base
    <3>5. Rate * (base + up) = Rate * base + Rate * up /\ Rate * base \in Int /\ Rate * up \in Int
      BY <3>1, InflowGrows
    <3> HIDE DEF found, taken, t
    <3>6. spent + found <= Capacity + (Rate * base + Rate * up) + renewals * Gift
      BY <1>1, <1>3, <3>3, <3>4, <3>5
    <3>7. renewals' = renewals
      BY <1>2, <2>2
    <3> QED
      BY <3>2, <3>5, <3>6, <3>7
  <2>3. CASE latest # Nobody /\ ~bucket.exists
    <3> DEFINE base == bucket.last - first + rewound
               now  == t - first' + rewound'
    <3>1. base \in Int /\ now \in Int /\ base + Ttl <= now
      BY <1>2, <1>3, <1>4, <2>3 DEF SetBack, AtLeast
    <3>2. found = Capacity
      BY <2>3 DEF Available
    <3>3. spent + bucket.tokens <= Capacity + Rate * base + renewals * Gift
      BY <2>3 DEF TokensAreEarned
    <3> HIDE DEF base, now
    <3>4. /\ Rate * (base + Ttl) = Rate * base + Rate * Ttl
          /\ Rate * (base + Ttl) <= Rate * now
          /\ Rate * base \in Int /\ Rate * now \in Int /\ Rate * Ttl \in Int
      BY <1>3, <3>1, InflowGrows
    <3>5. renewals' * Gift = renewals * Gift + Gift
      BY <1>2, <1>3, <2>3, GiftsAdd
    <3>6. spent + Capacity <= Capacity + Rate * now + renewals' * Gift
      BY <1>3, <3>3, <3>4, <3>5, GiftCovers
    <3> QED
      BY <3>2, <3>6 DEF now
  <2> QED
    BY <1>3, <2>1, <2>2, <2>3
<1>6. rewound' \in Nat /\ first' \in Nat /\ renewals' \in Nat
  BY <1>2, <1>3, <1>4
<1>7. spent' + bucket'.tokens = spent + found
  BY <1>1, <1>3
<1> HIDE DEF found, taken
<1>8. TokensAreEarned'
  BY <1>1, <1>5, <1>7 DEF TokensAreEarned
<1> QED
  BY <1>6, <1>8

\* A script never finds less than the bucket that is never set back would hold.
LEMMA ScriptSpares ==
    ASSUME IInv, NEW r \in Caller, Script(r)
    PROVE  /\ ideal' \in [level : Int, last : Nat]
           /\ bucket'.last <= ideal'.last
           /\ NoneRefusedByDisorder'
<1> USE DEF IInv, TypeOK
<1> DEFINE found  == Available(r)
           taken  == IF found >= Cost THEN Cost ELSE 0
           t      == stamp[r]
           origin == IF latest = Nobody THEN t ELSE ideal.last
           fill   == Refill(ideal.level, t - origin)
<1>1. /\ found \in 0 .. Capacity /\ taken \in Nat
      /\ bucket'.tokens = found - taken /\ bucket'.last = t
  BY ScriptEffect
<1>2. ideal' = [level |-> fill - taken, last |-> AtLeast(origin, t)]
  BY DEF Script
<1>3. /\ bucket.exists \in BOOLEAN /\ bucket.tokens \in 0 .. Capacity
      /\ bucket.last \in Nat /\ t \in Nat /\ origin \in Nat
      /\ ideal.level \in Int /\ ideal.level <= bucket.tokens /\ Capacity \in Nat
  BY ConstantTypes DEF NoneRefusedByDisorder
<1>4. fill \in Int /\ fill <= Capacity
  <2>1. t - origin \in Int /\ ideal.level <= Capacity
    BY <1>3
  <2> HIDE DEF t, origin
  <2> QED
    BY <1>3, <2>1, RefillBounds
<1>5. fill <= found
  <2>1. CASE bucket.exists
    <3>1. bucket.last <= origin
      BY <1>3, <2>1 DEF HistoryFits
    <3>2. t - origin \in Int /\ t - bucket.last \in Int /\ t - origin <= t - bucket.last
      BY <1>3, <3>1
    <3>3. fill <= Refill(bucket.tokens, t - bucket.last)
      <4> HIDE DEF t, origin
      <4>1. bucket.tokens \in Int
        BY <1>3
      <4> QED
        BY <1>3, <3>2, <4>1, RefillMonotone
    <3> QED
      BY <2>1, <3>3 DEF Available
  <2>2. CASE ~bucket.exists
    BY <1>4, <2>2 DEF Available
  <2> QED
    BY <1>3, <2>1, <2>2
<1> HIDE DEF found, taken, fill, origin, t
<1>6. AtLeast(origin, t) \in Nat /\ t <= AtLeast(origin, t)
  BY <1>3 DEF AtLeast
<1>7. fill - taken \in Int /\ fill - taken <= found - taken
  BY <1>1, <1>4, <1>5
<1> QED
  BY <1>1, <1>2, <1>6, <1>7 DEF NoneRefusedByDisorder

-----------------------------------------------------------------------------
\* At the start nothing has happened.
LEMMA InitHolds == Init => IInv
BY ConstantTypes, BucketAssumption, GiftsAdd
   DEF Init, IInv, TypeOK, HistoryFits, TokensAreEarned, NoneRefusedByDisorder

\* Every step keeps the invariant.
LEMMA StepHolds == IInv /\ [Next]_vars => IInv'
<1> SUFFICES ASSUME IInv, [Next]_vars PROVE IInv'
  OBVIOUS
<1> DEFINE Account == <<bucket, latest, spent, first, rewound, renewals, ideal>>
<1>1. ASSUME UNCHANGED Account, TypeOK' PROVE IInv'
  BY <1>1 DEF IInv, HistoryFits, TokensAreEarned, NoneRefusedByDisorder
<1> USE DEF IInv
<1>2. ASSUME NEW r \in Caller, NEW o \in Offset, Begin(r, o) PROVE IInv'
  BY <1>1, <1>2, BucketAssumption DEF Begin, Goto, TypeOK, ghostVars
<1>3. ASSUME NEW r \in Caller, CheckAndConsume(r) PROVE IInv'
  <2>1. Script(r)
    BY <1>3 DEF CheckAndConsume
  <2>2. /\ bucket' \in [exists : BOOLEAN, tokens : 0 .. Capacity, last : Nat, expires : Nat]
        /\ spent' \in Nat /\ latest' = r
    <3> DEFINE found == Available(r)
               taken == IF found >= Cost THEN Cost ELSE 0
    <3>1. /\ taken \in Nat /\ found - taken \in 0 .. Capacity
          /\ bucket' = [exists |-> TRUE, tokens |-> found - taken,
                        last |-> stamp[r], expires |-> clock + Ttl]
          /\ spent' = spent + taken /\ latest' = r
      BY <2>1, ScriptEffect
    <3>2. stamp[r] \in Nat /\ clock + Ttl \in Nat /\ spent \in Nat
      BY ConstantTypes DEF TypeOK
    <3> HIDE DEF found, taken
    <3> QED
      BY <3>1, <3>2
  <2>3. header' \in [Caller -> Nat \ {0}]
    <3> DEFINE found == Available(r)
    <3>1. found \in 0 .. Capacity
      BY <2>1, ScriptEffect
    <3>2. /\ RetryAfterHeader(found) \in Nat \ {0}
          /\ RetryAfterHeader(found - Cost) \in Nat \ {0}
      BY <3>1, HeaderType, ConstantTypes
    <3> HIDE DEF found
    <3>3. header' = [header EXCEPT ![r] =
              IF found >= Cost THEN @
              ELSE RetryAfterHeader(IF found >= Cost THEN found - Cost ELSE found)]
      BY <2>1 DEF Script, found
    <3> QED
      BY <3>2, <3>3 DEF TypeOK
  <2>4. /\ clock' = clock /\ stamp' = stamp /\ deadline' = deadline
        /\ pc' \in [Caller -> {"idle", "sent", "admitted", "rejected", "waiting", "failed"}]
    BY <2>1 DEF Script, Goto, TypeOK
  <2>5. rewound' \in Nat /\ first' \in Nat /\ renewals' \in Nat /\ TokensAreEarned'
    BY <2>1, ScriptEarns
  <2>6. /\ ideal' \in [level : Int, last : Nat] /\ bucket'.last <= ideal'.last
        /\ NoneRefusedByDisorder'
    BY <2>1, ScriptSpares
  <2>7. TypeOK'
    BY <2>2, <2>3, <2>4, <2>5, <2>6 DEF TypeOK
  <2>8. HistoryFits'
    BY <2>2, <2>6, BucketAssumption DEF HistoryFits
  <2> QED
    BY <2>5, <2>6, <2>7, <2>8
<1>4. ASSUME NEW r \in Caller, RedisDown(r) PROVE IInv'
  BY <1>1, <1>4 DEF RedisDown, Goto, TypeOK, ghostVars
<1>5. ASSUME NEW r \in Caller, Wait(r) PROVE IInv'
  <2>1. clock + header[r] * Second \in Nat
    BY ConstantTypes DEF TypeOK
  <2> QED
    BY <1>1, <1>5, <2>1 DEF Wait, Goto, TypeOK, ghostVars
<1>6. ASSUME NEW r \in Caller, Retry(r) PROVE IInv'
  BY <1>1, <1>6 DEF Retry, Goto, TypeOK, ghostVars
<1>7. CASE Tick
  <2>1. /\ clock' = clock + 1 /\ UNCHANGED <<callVars, ghostVars>>
        /\ bucket'.tokens = bucket.tokens /\ bucket'.last = bucket.last
        /\ bucket'.exists => bucket.exists
        /\ bucket' \in [exists : BOOLEAN, tokens : 0 .. Capacity, last : Nat, expires : Nat]
    BY <1>7 DEF Tick, TypeOK
  <2>2. TypeOK'
    BY <2>1 DEF TypeOK, callVars, ghostVars
  <2> QED
    BY <2>1, <2>2 DEF HistoryFits, TokensAreEarned, NoneRefusedByDisorder, ghostVars
<1>8. CASE UNCHANGED vars
  BY <1>1, <1>8 DEF vars, callVars, ghostVars, TypeOK
<1> QED
  BY <1>2, <1>3, <1>4, <1>5, <1>6, <1>7, <1>8 DEF Next, Done

\* Every reachable state satisfies the inductive invariant.
THEOREM BucketInvariant == Spec => []IInv
BY InitHolds, StepHolds, PTL DEF Spec

\* The hash, the calls and the accounts are well formed: a bucket holds between
\* nothing and its capacity, and each 429 tells its caller to wait.
THEOREM BucketTypeCorrect == Spec => []TypeOK
<1>1. IInv => TypeOK
  BY DEF IInv
<1> QED
  BY <1>1, BucketInvariant, PTL

\* Tokens come from the burst, from time, from stamps that are late, and, only when
\* the burst takes longer than Ttl to flow in, from an expiry that somebody met: never
\* from refused or concurrent calls.
THEOREM BucketEarns == Spec => []TokensAreEarned
<1>1. IInv => TokensAreEarned
  BY DEF IInv
<1> QED
  BY <1>1, BucketInvariant, PTL

\* Late scripts and clocks that differ never empty the bucket further than the calls
\* it admitted.
THEOREM BucketSpares == Spec => []NoneRefusedByDisorder
<1>1. IInv => NoneRefusedByDisorder
  BY DEF IInv
<1> QED
  BY <1>1, BucketInvariant, PTL
-----------------------------------------------------------------------------
\* A refused caller who honours Retry-After.

\* A quotient, plus one, times the divisor is more than what was divided.
LEMMA QuotientBound ==
    ASSUME NEW a \in Nat, NEW b \in Nat \ {0}
    PROVE  /\ a \div b \in Nat
           /\ a < (a \div b + 1) * b
OBVIOUS

\* In retry_after_ms the missing units flow in.
LEMMA RetryAfterSuffices ==
    ASSUME NEW tokens \in Nat, tokens < Cost
    PROVE  /\ RetryAfter(tokens) \in Nat
           /\ Cost <= tokens + RetryAfter(tokens) * Rate
<1> DEFINE a == Cost - tokens + Rate - 1
           w == RetryAfter(tokens)
<1>1. a \in Nat /\ Rate \in Nat \ {0} /\ Cost \in Nat
  BY ConstantTypes
<1>2. w = a \div Rate
  BY DEF RetryAfter
<1>3. w \in Nat /\ a < (w + 1) * Rate
  <2> HIDE DEF a, w
  <2> QED BY <1>1, <1>2, QuotientBound
<1>4. (w + 1) * Rate = w * Rate + Rate /\ w * Rate \in Nat
  BY <1>1, <1>3
<1> HIDE DEF w
<1> QED
  BY <1>1, <1>3, <1>4 DEF w

\* The header, which round() may have shortened, is at least a second and less than
\* a second too short.
LEMMA HeaderSuffices ==
    ASSUME NEW tokens \in Nat, tokens < Cost
    PROVE  RetryAfter(tokens) <= (RetryAfterHeader(tokens) + 1) * Second
<1> DEFINE w == RetryAfter(tokens)
           s == w \div Second
           h == RetryAfterHeader(tokens)
<1>1. w \in Nat /\ Second \in Nat \ {0}
  BY RetryAfterSuffices, ConstantTypes
<1>2. s \in Nat /\ w < (s + 1) * Second
  <2> HIDE DEF w
  <2> QED BY <1>1, QuotientBound
<1>3. h \in Nat /\ s <= h
  <2>1. Rounded(w) \in {s, s + 1}
    BY DEF Rounded
  <2> HIDE DEF w, s
  <2> QED
    BY <1>2, <2>1 DEF RetryAfterHeader, AtLeast, w
<1> HIDE DEF w, s, h
<1>4. (s + 1) * Second <= (h + 1) * Second /\ (h + 1) * Second \in Nat /\ (s + 1) * Second \in Nat
  BY <1>1, <1>2, <1>3
<1> QED
  BY <1>1, <1>2, <1>4 DEF w, h

\* Whoever waits as long as the first two headers say has waited long enough.
LEMMA TwoWaitsSuffice ==
    ASSUME NEW t \in Int, t = bucket.last, bucket.tokens \in Nat
    PROVE  LET t1 == NextTry(t, bucket.tokens)
               t2 == NextTry(t1, LevelAt(t1))
           IN  LevelAt(t1) >= Cost \/ LevelAt(t2) >= Cost
<1> DEFINE x  == bucket.tokens
           w  == RetryAfter(x)
           h1 == RetryAfterHeader(x)
           t1 == NextTry(t, x)
           h2 == RetryAfterHeader(LevelAt(t1))
           t2 == NextTry(t1, LevelAt(t1))
<1> SUFFICES ASSUME LevelAt(t1) < Cost PROVE LevelAt(t2) >= Cost
  <2>1. LevelAt(t1) \in Int
    <3>1. t1 - t \in Int
      BY HeaderType, ConstantTypes DEF NextTry
    <3>2. LevelAt(t1) = AtMost(Capacity, x + AtLeast(0, t1 - t) * Rate)
      BY DEF LevelAt, Refill
    <3>3. AtLeast(0, t1 - t) * Rate \in Int
      BY <3>1, ConstantTypes DEF AtLeast
    <3> HIDE DEF t1
    <3> QED
      BY <3>2, <3>3, ConstantTypes DEF AtMost
  <2> HIDE DEF t1, t2
  <2>2. LevelAt(t1) >= Cost \/ LevelAt(t1) < Cost
    BY <2>1, ConstantTypes
  <2> QED
    BY <2>2 DEF t1, t2
<1>1. /\ Rate \in Nat \ {0} /\ Second \in Nat \ {0} /\ Cost \in Nat \ {0}
      /\ Capacity \in Nat /\ Cost <= Capacity
  <2>1. Burst \in Nat \ {0} /\ Cost \in Nat \ {0}
    BY ConstantTypes
  <2>2. Cost <= Burst * Cost
    BY <2>1
  <2> QED
    BY <2>2, ConstantTypes DEF Capacity
<1>2. h1 \in Nat \ {0}
  BY HeaderType
<1>3. t1 = t + h1 * Second
  BY DEF NextTry
<1>4. h1 * Second \in Nat /\ h1 * Second * Rate \in Nat
  <2> HIDE DEF h1
  <2> QED BY <1>1, <1>2
<1>5. LevelAt(t1) = AtMost(Capacity, x + h1 * Second * Rate)
  <2>1. AtLeast(0, t1 - bucket.last) = h1 * Second
    <3> HIDE DEF h1, t1
    <3> QED BY <1>3, <1>4 DEF AtLeast
  <2> HIDE DEF h1, t1
  <2> QED BY <2>1 DEF LevelAt, Refill
<1>6. x < Cost /\ LevelAt(t1) \in Nat
  <2> HIDE DEF h1, t1
  <2> QED BY <1>1, <1>4, <1>5 DEF AtMost
<1>7. h2 \in Nat \ {0}
  <2> HIDE DEF t1
  <2> QED BY <1>6, HeaderType
<1>8. t2 = t + (h1 + h2) * Second
  <2>1. t2 = t1 + h2 * Second
    BY DEF NextTry
  <2> HIDE DEF h1, h2, t1, t2
  <2> QED BY <1>1, <1>2, <1>3, <1>7, <2>1
<1>9. w \in Nat /\ w <= (h1 + 1) * Second /\ Cost <= x + w * Rate
  BY <1>6, RetryAfterSuffices, HeaderSuffices
<1> DEFINE wait == (h1 + h2) * Second
<1>10. wait \in Nat /\ w <= wait
  <2> HIDE DEF h1, h2, w
  <2>1. (h1 + 1) * Second <= (h1 + h2) * Second /\ (h1 + h2) * Second \in Nat
        /\ (h1 + 1) * Second \in Nat
    BY <1>1, <1>2, <1>7
  <2> QED BY <1>9, <2>1
<1>11. LevelAt(t2) = AtMost(Capacity, x + wait * Rate)
  <2>1. AtLeast(0, t2 - bucket.last) = wait
    <3> HIDE DEF wait, t2
    <3>1. t2 = t + wait
      BY <1>8 DEF wait
    <3> QED BY <1>10, <3>1 DEF AtLeast
  <2> HIDE DEF wait, t2
  <2> QED BY <2>1 DEF LevelAt, Refill
<1> HIDE DEF wait, w, t1, t2, h1, h2
<1>12. w * Rate <= wait * Rate /\ w * Rate \in Nat /\ wait * Rate \in Nat
  BY <1>1, <1>9, <1>10
<1> QED
  BY <1>1, <1>6, <1>9, <1>11, <1>12 DEF AtMost

\* As long as no other script ran since a call's own, the refill time is that call's.
StampIsLast ==
    \A r \in Caller :
        latest = r /\ pc[r] \in {"rejected", "waiting"} => bucket.last = stamp[r]

\* Only a script sets the refill time, and then it is the latest.
LEMMA StampStep == IInv /\ StampIsLast /\ [Next]_vars => StampIsLast'
<1> SUFFICES ASSUME IInv, StampIsLast, [Next]_vars,
                    NEW q \in Caller, latest' = q, pc'[q] \in {"rejected", "waiting"}
             PROVE  bucket'.last = stamp'[q]
  BY DEF StampIsLast
<1> USE DEF IInv, TypeOK
<1>1. ASSUME NEW r \in Caller, NEW o \in Offset, Begin(r, o)
      PROVE  bucket'.last = stamp'[q]
  BY <1>1 DEF Begin, Goto, ghostVars, StampIsLast
<1>2. ASSUME NEW r \in Caller, CheckAndConsume(r)
      PROVE  bucket'.last = stamp'[q]
  BY <1>2 DEF CheckAndConsume, Script, TimeStamp
<1>3. ASSUME NEW r \in Caller, RedisDown(r) \/ Wait(r) \/ Retry(r)
      PROVE  bucket'.last = stamp'[q]
  BY <1>3 DEF RedisDown, Wait, Retry, Goto, ghostVars, StampIsLast
<1>4. CASE Tick
  BY <1>4 DEF Tick, callVars, ghostVars, StampIsLast
<1>5. CASE UNCHANGED vars
  BY <1>5 DEF vars, callVars, ghostVars, StampIsLast
<1> QED
  BY <1>1, <1>2, <1>3, <1>4, <1>5 DEF Next, Done

\* A refused caller whom nobody forestalls is admitted at the latest on its second
\* return, although round() may shorten the first Retry-After: for every rate, burst
\* and length of a tick.
THEOREM BucketServesSecondRetry == Spec => []SecondRetrySucceeds
<1>1. Init => StampIsLast
  BY DEF Init, StampIsLast
<1>2. IInv /\ StampIsLast => SecondRetrySucceeds
  <2> SUFFICES ASSUME IInv, StampIsLast, NEW r \in Caller,
                      latest = r, pc[r] \in {"rejected", "waiting"}
               PROVE  LET t1 == NextTry(stamp[r], bucket.tokens)
                          t2 == NextTry(t1, LevelAt(t1))
                      IN  LevelAt(t1) >= Cost \/ LevelAt(t2) >= Cost
    BY DEF SecondRetrySucceeds
  <2>1. stamp[r] \in Int /\ stamp[r] = bucket.last /\ bucket.tokens \in Nat
    BY ConstantTypes DEF StampIsLast, IInv, TypeOK
  <2> QED
    BY <2>1, TwoWaitsSuffice
<1> QED
  BY <1>1, <1>2, StampStep, BucketInvariant, PTL DEF Spec
=============================================================================
