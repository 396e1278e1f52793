---------------------------- MODULE TokenBucket ----------------------------
(***************************************************************************)
(* gateway/ratelimit/token_bucket.py and scripts/token_bucket.lua, with    *)
(* app.py's Retry-After header and callers who honour it.                  *)
(*                                                                         *)
(* One Redis hash per (tenant, requested model).  The script is atomic,    *)
(* but `now` is read by the caller, on the clock of its replica and before *)
(* the await: scripts run in another order than that of their time stamps. *)
(* Amounts are whole: a request costs Cost units and Rate units flow in    *)
(* with each tick, Second ticks being a second.                            *)
(***************************************************************************)
EXTENDS Integers

CONSTANTS
    Caller,     \* requests of one tenant for one model
    Burst,      \* capacity, in requests
    Cost,       \* units that a request takes
    Rate,       \* units that a tick brings: requests_per_minute / 60
    Second,     \* ticks of a second
    Ttl,        \* EXPIRE, 3600 seconds
    Offset,     \* by how much the replicas' clocks may be ahead
    MaxTime,    \* bound: the last tick
    Nobody      \* no script has run yet

Capacity == Burst * Cost

\* RateLimitPolicy has gt=0 for both fields, and nothing relates them to the expiry.
ASSUME BucketAssumption ==
    /\ {Burst, Cost, Rate, Second, Ttl} \subseteq Nat \ {0}
    /\ Offset \subseteq Nat
    /\ MaxTime \in Nat
    /\ Nobody \notin Caller

VARIABLES
    clock,      \* Redis's time
    bucket,     \* the hash, and when it expires
    pc,         \* where each call is
    stamp,      \* now, as the call read it
    header,     \* Retry-After of the 429 it got
    deadline,   \* when a caller who honours the header comes again
    \* What happened, for the properties:
    latest,     \* the call whose script ran last
    spent,      \* units consumed
    first,      \* the stamp that the first bucket was filled with
    rewound,    \* ticks by which the refill time was set back, together
    renewals,   \* scripts that found the key expired
    ideal       \* a bucket that pays for the same calls and is never set back

callVars  == <<pc, stamp, header, deadline>>
ghostVars == <<latest, spent, first, rewound, renewals, ideal>>
vars      == <<clock, bucket, callVars, ghostVars>>

AtMost(x, y)  == IF x <= y THEN x ELSE y
AtLeast(x, y) == IF x >= y THEN x ELSE y

\* What an expiry gives away: the part of the burst that does not flow in by then.
Gift == AtLeast(0, Capacity - Rate * Ttl)

\* The refill after so many ticks.
Refill(tokens, elapsed) ==
    AtMost(Capacity, tokens + AtLeast(0, elapsed) * Rate)

\* retry_after_ms: the time in which the missing units flow in, rounded up.
RetryAfter(tokens) == (Cost - tokens + Rate - 1) \div Rate

\* Python's round(): to the nearest second, and halves to the even one.
Rounded(ticks) ==
    LET s == ticks \div Second
        d == 2 * (ticks % Second)
    IN  IF d < Second \/ (d = Second /\ s % 2 = 0) THEN s ELSE s + 1

\* Seeded bug: a wait of less than half a second is a Retry-After of 0.
RetryAfterUnbounded(tokens) == Rounded(RetryAfter(tokens))

\* gateway_error_handler's header.
RetryAfterHeader(tokens) == AtLeast(1, Rounded(RetryAfter(tokens)))

Goto(r, place) == pc' = [pc EXCEPT ![r] = place]

-----------------------------------------------------------------------------
Init ==
    /\ clock = 0
    /\ bucket = [exists |-> FALSE, tokens |-> Capacity, last |-> 0, expires |-> 0]
    /\ pc = [r \in Caller |-> "idle"]
    /\ stamp = [r \in Caller |-> 0]
    /\ header = [r \in Caller |-> 1]
    /\ deadline = [r \in Caller |-> 0]
    /\ latest = Nobody
    /\ spent = 0
    /\ first = 0
    /\ rewound = 0
    /\ renewals = 0
    /\ ideal = [level |-> Capacity, last |-> 0]

\* check_and_consume() up to its await, on a replica whose clock is off by o.
Begin(r, o) ==
    /\ pc[r] = "idle"
    /\ stamp' = [stamp EXCEPT ![r] = clock + o]
    /\ Goto(r, "sent")
    /\ UNCHANGED <<clock, bucket, header, deadline, ghostVars>>

\* Seeded bug: the refill time stays as it is when the request is refused.
TimeStampIfAllowed(r, allowed) == IF allowed THEN stamp[r] ELSE bucket.last

\* last_refill_ts is the stamp of the call, allowed or not.
TimeStamp(r, allowed) == stamp[r]

\* Seeded bug: a stamp older than the last refill takes tokens away.
AvailableSigned(r) ==
    IF bucket.exists
    THEN AtMost(Capacity, AtLeast(0, bucket.tokens + (stamp[r] - bucket.last) * Rate))
    ELSE Capacity

\* Units in the bucket as the script sees it: a key that is gone is a full one.
Available(r) ==
    IF bucket.exists THEN Refill(bucket.tokens, stamp[r] - bucket.last) ELSE Capacity

\* How far this script sets the refill time back.  A full bucket made anew counts
\* from when the old one expired.
SetBack(r) ==
    CASE bucket.exists      -> AtLeast(0, bucket.last - stamp[r])
      [] latest = Nobody    -> 0
      [] OTHER              -> AtLeast(0, bucket.last + Ttl - stamp[r])

\* The script: refill, consume if that much is there, store, EXPIRE.
Script(r) ==
    LET tokens  == Available(r)
        allowed == tokens >= Cost
        left    == IF allowed THEN tokens - Cost ELSE tokens
        taken   == IF allowed THEN Cost ELSE 0
        origin  == IF latest = Nobody THEN stamp[r] ELSE ideal.last
    IN  /\ bucket' = [exists |-> TRUE, tokens |-> left,
                      last |-> TimeStamp(r, allowed), expires |-> clock + Ttl]
        /\ Goto(r, IF allowed THEN "admitted" ELSE "rejected")
        /\ header' = [header EXCEPT ![r] = IF allowed THEN @ ELSE RetryAfterHeader(left)]
        /\ latest' = r
        /\ spent' = spent + taken
        /\ first' = IF latest = Nobody THEN stamp[r] ELSE first
        /\ rewound' = rewound + SetBack(r)
        /\ renewals' = IF ~bucket.exists /\ latest # Nobody THEN renewals + 1 ELSE renewals
        /\ ideal' = [level |-> Refill(ideal.level, stamp[r] - origin) - taken,
                     last  |-> AtLeast(origin, stamp[r])]
        /\ UNCHANGED <<clock, stamp, deadline>>

CheckAndConsume(r) ==
    /\ pc[r] = "sent"
    /\ Script(r)

\* Redis cannot be reached: the error propagates and nothing is admitted.  (When
\* only the reply is lost, a call is admitted here that its caller sees fail.)
RedisDown(r) ==
    /\ pc[r] = "sent"
    /\ Goto(r, "failed")
    /\ UNCHANGED <<clock, bucket, stamp, header, deadline, ghostVars>>

\* The 429 is on its way: the caller waits as long as it says.
Wait(r) ==
    /\ pc[r] = "rejected"
    /\ Goto(r, "waiting")
    /\ deadline' = [deadline EXCEPT ![r] = clock + header[r] * Second]
    /\ UNCHANGED <<clock, bucket, stamp, header, ghostVars>>

Retry(r) ==
    /\ pc[r] = "waiting"
    /\ clock >= deadline[r]
    /\ Goto(r, "idle")
    /\ UNCHANGED <<clock, bucket, stamp, header, deadline, ghostVars>>

\* Time passes, and with it the key.
Tick ==
    /\ clock < MaxTime
    /\ clock' = clock + 1
    /\ bucket' = [bucket EXCEPT !.exists = @ /\ clock' < bucket.expires]
    /\ UNCHANGED <<callVars, ghostVars>>

\* The instance's time is up.
Done ==
    /\ clock = MaxTime
    /\ \A r \in Caller : pc[r] \in {"admitted", "failed", "waiting"}
    /\ UNCHANGED vars

Next ==
    \/ \E r \in Caller :
          \/ \E o \in Offset : Begin(r, o)
          \/ CheckAndConsume(r)
          \/ RedisDown(r)
          \/ Wait(r)
          \/ Retry(r)
    \/ Tick
    \/ Done

Spec == Init /\ [][Next]_vars

-----------------------------------------------------------------------------
\* The hash, the calls and what is remembered of them.
TypeOK ==
    /\ clock \in Nat
    /\ bucket \in [exists : BOOLEAN, tokens : 0 .. Capacity, last : Nat, expires : Nat]
    /\ pc \in [Caller -> {"idle", "sent", "admitted", "rejected", "waiting", "failed"}]
    /\ stamp \in [Caller -> Nat]
    /\ header \in [Caller -> Nat \ {0}]
    /\ deadline \in [Caller -> Nat]
    /\ latest \in Caller \cup {Nobody}
    /\ {spent, first, rewound, renewals} \subseteq Nat
    /\ ideal \in [level : Int, last : Nat]

\* What was consumed and what is left came from the burst, from the time between
\* the first stamp and the latest, from stamps that set the refill time back, and
\* from expiries of the key: neither refused nor concurrent calls make tokens.
\* rewound is the price of reading `now` before the await.  An expiry costs nothing
\* as long as the burst flows in within Ttl; of a larger one it gives the rest.
TokensAreEarned ==
    latest # Nobody =>
        spent + bucket.tokens <=
            Capacity + Rate * (bucket.last - first + rewound) + renewals * Gift

\* The bucket is never emptier than one that charged the same calls and whose clock
\* never ran back: late scripts and clocks that differ get nobody refused.
NoneRefusedByDisorder == bucket.tokens >= ideal.level

LevelAt(t) == Refill(bucket.tokens, t - bucket.last)

\* When the refused caller's next try reaches Redis, on the same clock.
NextTry(t, tokens) == t + RetryAfterHeader(tokens) * Second

\* A refused caller who honours Retry-After, and with whom nobody competes, is
\* admitted at the latest on its second return.
SecondRetrySucceeds ==
    \A r \in Caller : latest = r /\ pc[r] \in {"rejected", "waiting"} =>
        LET t1 == NextTry(stamp[r], bucket.tokens)
            t2 == NextTry(t1, LevelAt(t1))
        IN  LevelAt(t1) >= Cost \/ LevelAt(t2) >= Cost
=============================================================================
