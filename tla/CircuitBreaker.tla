--------------------------- MODULE CircuitBreaker ---------------------------
(***************************************************************************)
(* gateway/routing/circuit_breaker.py and those who use it: request        *)
(* handlers (registry.py filters by is_available, service.py reports the   *)
(* outcome of the call) and health pollers (health.py calls the backend    *)
(* whatever the breaker says, and reports).  All replicas share one Redis  *)
(* hash for each (backend, model); this module is about one such hash.     *)
(*                                                                         *)
(* record_failure is three commands, HINCRBY, HSET state open, EXPIRE, and *)
(* anybody may run, or the key may expire, between two of them.            *)
(* Names that HealthPoller has too are prefixed: proofs extend both.       *)
(***************************************************************************)
EXTENDS Integers, FiniteSets

CONSTANTS
    Router,     \* request handlers, of any replica
    Poller,     \* health pollers, one for each replica
    Mortal,     \* clients that may die at an await (process, connection, task)
    Threshold,  \* circuit_breaker_failure_threshold
    Cooldown,   \* circuit_breaker_cooldown_seconds, in ticks
    NoTTL       \* the key has no expiry

Client == Router \cup Poller

ASSUME BreakerAssumption ==
    /\ Threshold \in Nat \ {0}
    /\ Cooldown \in Nat \ {0}
    /\ NoTTL \notin Nat
    /\ Mortal \subseteq Client

VARIABLES
    up,         \* whether the backend answers calls
    hash,       \* the Redis hash: fields state and consecutive_failures, TTL
    pc          \* where each client is

breakerVars == <<up, hash, pc>>

\* A hash without a state field, or no key at all, reads as closed.  Failures
\* are counted up to Threshold, the bound past which the code sees no difference.
Hash == [state    : {"none", "closed", "open"},
         failures : 0 .. Threshold,
         ttl      : (1 .. Cooldown) \cup {NoTTL}]

NoKey == [state |-> "none", failures |-> 0, ttl |-> NoTTL]

\* Redis keeps no empty hash: the key exists when a field does.
Exists == hash.state # "none" \/ hash.failures > 0

Goto(c, place) == pc' = [pc EXCEPT ![c] = place]

-----------------------------------------------------------------------------
BreakerInit ==
    /\ up \in BOOLEAN
    /\ hash = NoKey
    /\ pc = [c \in Client |-> "idle"]

\* The backend breaks or recovers.
Flip ==
    /\ up' = ~up
    /\ UNCHANGED <<hash, pc>>

\* is_available(), asked by the registry for a request; the call follows later.
IsAvailable(c) ==
    /\ pc[c] = "idle"
    /\ hash.state # "open"
    /\ Goto(c, "calling")
    /\ UNCHANGED <<up, hash>>

\* HealthPoller._check_one(): the poller calls without asking the breaker.
Probe(c) ==
    /\ pc[c] = "idle"
    /\ Goto(c, "calling")
    /\ UNCHANGED <<up, hash>>

\* The backend answers, or the call fails with a GatewayError.
Answer(c) ==
    /\ pc[c] = "calling"
    /\ Goto(c, IF up THEN "good" ELSE "bad")
    /\ UNCHANGED <<up, hash>>

\* The call ends in an error that is not reported: a cancelled request, or a body
\* that is no JSON.  (It would end a poller: see Die.)
Abandon(c) ==
    /\ pc[c] = "calling"
    /\ Goto(c, "idle")
    /\ UNCHANGED <<up, hash>>

\* Seeded bug: the failures are reset but the state field is left as it is.
RecordSuccessCountOnly(c) ==
    /\ pc[c] = "good"
    /\ hash' = [hash EXCEPT !.failures = 0]
    /\ Goto(c, "idle")
    /\ UNCHANGED up

\* record_success(): one HSET of both fields; the TTL of the key stays.
RecordSuccess(c) ==
    /\ pc[c] = "good"
    /\ hash' = [hash EXCEPT !.state = "closed", !.failures = 0]
    /\ Goto(c, "idle")
    /\ UNCHANGED up

\* Seeded bug: one failure more than the threshold is needed.
RecordFailureLate(c) ==
    LET failures == hash.failures + 1
    IN  /\ pc[c] = "bad"
        /\ hash' = [hash EXCEPT !.failures =
                       IF failures > Threshold THEN Threshold ELSE failures]
        /\ Goto(c, IF failures > Threshold THEN "tripped" ELSE "idle")
        /\ UNCHANGED up

\* Seeded bug: every failure, not only an opening one, starts the cooldown.
RecordFailureExpiring(c) ==
    LET failures == hash.failures + 1
    IN  /\ pc[c] = "bad"
        /\ hash' = [hash EXCEPT
                       !.failures = IF failures > Threshold THEN Threshold ELSE failures,
                       !.ttl = Cooldown]
        /\ Goto(c, IF failures >= Threshold THEN "tripped" ELSE "idle")
        /\ UNCHANGED up

\* record_failure(), HINCRBY and the comparison of what it returned.
RecordFailure(c) ==
    LET failures == hash.failures + 1
    IN  /\ pc[c] = "bad"
        /\ hash' = [hash EXCEPT !.failures =
                       IF failures > Threshold THEN Threshold ELSE failures]
        /\ Goto(c, IF failures >= Threshold THEN "tripped" ELSE "idle")
        /\ UNCHANGED up

\* Seeded bug: the breaker is opened without a cooldown.
OpenForGood(c) ==
    /\ pc[c] = "tripped"
    /\ hash' = [hash EXCEPT !.state = "open"]
    /\ Goto(c, "idle")
    /\ UNCHANGED up

\* record_failure(), HSET state open: of a key that may have expired meanwhile.
Open(c) ==
    /\ pc[c] = "tripped"
    /\ hash' = [hash EXCEPT !.state = "open"]
    /\ Goto(c, "opened")
    /\ UNCHANGED up

\* Seeded bug: the cooldown is written whether the key is still there or not.
SetExpiryBlindly(c) ==
    /\ pc[c] = "opened"
    /\ hash' = [hash EXCEPT !.ttl = Cooldown]
    /\ Goto(c, "idle")
    /\ UNCHANGED up

\* record_failure(), EXPIRE: nothing to do when the key has just expired.
SetExpiry(c) ==
    /\ pc[c] = "opened"
    /\ hash' = IF Exists THEN [hash EXCEPT !.ttl = Cooldown] ELSE hash
    /\ Goto(c, "idle")
    /\ UNCHANGED up

\* Time passes.  A key whose TTL has run down is gone, failures and all.
Elapse ==
    /\ hash.ttl # NoTTL
    /\ hash' = IF hash.ttl = 1 THEN NoKey ELSE [hash EXCEPT !.ttl = @ - 1]
    /\ UNCHANGED <<up, pc>>

\* A client dies; what it had still to send to Redis is never sent.
Die(c) ==
    /\ pc[c] \notin {"dead", "lost_open", "lost_expiry"}
    /\ Goto(c, CASE pc[c] = "tripped" -> "lost_open"
                 [] pc[c] = "opened"  -> "lost_expiry"
                 [] OTHER             -> "dead")
    /\ UNCHANGED <<up, hash>>

BreakerNext ==
    \/ Flip
    \/ Elapse
    \/ \E c \in Router : IsAvailable(c) \/ Abandon(c)
    \/ \E c \in Poller : Probe(c)
    \/ \E c \in Client :
          \/ Answer(c)
          \/ RecordSuccess(c)
          \/ RecordFailure(c)
          \/ Open(c)
          \/ SetExpiry(c)
    \/ \E c \in Mortal : Die(c)

\* Every await of a client that lives comes back: provider calls and health
\* checks have a timeout, Redis answers, the poll loop sleeps and goes on.
Fairness ==
    /\ \A c \in Poller : WF_breakerVars(Probe(c))
    /\ \A c \in Client :
          /\ WF_breakerVars(Answer(c))
          /\ WF_breakerVars(RecordSuccess(c) \/ RecordFailure(c))
          /\ WF_breakerVars(Open(c))
          /\ WF_breakerVars(SetExpiry(c))
    /\ WF_breakerVars(Elapse)

BreakerSpec == BreakerInit /\ [][BreakerNext]_breakerVars

FairBreakerSpec == BreakerSpec /\ Fairness

-----------------------------------------------------------------------------
\* The hash has the fields the code writes; a client is at one of its awaits.
TypeOK ==
    /\ up \in BOOLEAN
    /\ hash \in Hash
    /\ pc \in [Client -> {"idle", "calling", "good", "bad", "tripped", "opened",
                          "dead", "lost_open", "lost_expiry"}]
    /\ hash.ttl # NoTTL => Exists

\* A failure count at the threshold opens the breaker: it is open, or the client
\* whose HINCRBY got there is about to open it, or has died before it could.
TripsAtThreshold ==
    hash.failures >= Threshold =>
        \/ hash.state = "open"
        \/ \E c \in Client : pc[c] \in {"tripped", "lost_open"}

\* An open breaker closes by itself: its key has an expiry, or the client that
\* opened it is about to set one, or has died before it could.
OpenOnlyForCooldown ==
    hash.state = "open" =>
        \/ hash.ttl # NoTTL
        \/ \E c \in Client : pc[c] \in {"opened", "lost_expiry"}

\* A backend that has recovered for good is used again: the poller's successes
\* close even a breaker that was left open without an expiry.
RecoveredBackendIsUsed == <>[]up => <>[](hash.state # "open")

\* A backend that is down for good is skipped again and again, even when the
\* gateway gets no traffic for it and its key keeps expiring.
DeadBackendIsSkipped == <>[](~up) => []<>(hash.state = "open")
=============================================================================
