---------------------------- MODULE BudgetTracker ----------------------------
(***************************************************************************)
(* gateway/budget/tracker.py: reserve-then-reconcile token budgets.        *)
(*                                                                         *)
(* One Redis counter per (tenant, requested model, period) is moved by     *)
(* INCRBY.  reserve() adds the estimate, compares the total it got back    *)
(* with the policy and, when a blocking policy is exceeded, takes the      *)
(* estimate off again with a SECOND INCRBY before it raises.  The service  *)
(* later calls reconcile() with the real usage or release().  Every INCRBY *)
(* is atomic; between two of them any other request, of any replica, may   *)
(* run.  A request may also die between two of them (process killed, Redis *)
(* connection lost, task cancelled): nothing repairs its counter then.     *)
(***************************************************************************)
EXTENDS Integers, FiniteSets, TokenSum

CONSTANTS
    Request,    \* calls of BudgetTracker.reserve, one per gateway request
    Account,    \* (tenant, requested model) pairs
    Policy,     \* Policy[a]: the BudgetPolicy of the account
    Unlimited,  \* max_tokens = None
    Estimate,   \* the estimates requests come with (num_predict, gt=0)
    Prompt,     \* how many tokens a request uses beyond its estimate, if any
    MaxDay,     \* bound: the last day of the modelled calendar
    MonthOf,    \* calendar: the month a day lies in
    NoCall      \* reserve() not yet called

ASSUME RequestAssumption == IsFiniteSet(Request)

ASSUME UnlimitedAssumption == Unlimited \notin Nat

ASSUME PolicyAssumption ==
    Policy \in [Account -> [period     : {"daily", "monthly"},
                            max_tokens : (Nat \ {0}) \cup {Unlimited},
                            on_exceed  : {"block", "warn"}]]

ASSUME AmountAssumption ==
    /\ Estimate \subseteq Nat \ {0}
    /\ Prompt \subseteq Nat

ASSUME CalendarAssumption ==
    /\ MaxDay \in Nat
    /\ MonthOf \in [0 .. MaxDay -> 0 .. MaxDay]

VARIABLES
    clock,      \* today
    counter,    \* the Redis counters; a key that does not exist reads as 0
    pc,         \* how far each call has come
    call,       \* the arguments and locals of the call: the BudgetReservation
    billed      \* actual_tokens of a reconciled request

vars == <<clock, counter, pc, call, billed>>

Day == 0 .. MaxDay

\* Redis keys "budget:{tenant}:{model}:{period_key}".
Key == Account \X Day

Call == [account : Account, period_key : Day, tokens : Nat, started : Day]

ASSUME NoCallAssumption == NoCall \notin Call

\* Seeded bug: a gateway whose clock runs a day ahead names tomorrow's key.
PeriodKeyAhead(period, now) ==
    IF period = "daily" THEN now + 1 ELSE MonthOf[now]

\* current_period_key: the day itself, or the month of the day.
CurrentPeriodKey(period, now) ==
    IF period = "daily" THEN now ELSE MonthOf[now]

KeyOf(c) == <<c.account, c.period_key>>

\* Seeded bug: a total that just reaches the limit already exceeds it.
ExceedsAtLimit(account, total) ==
    /\ Policy[account].max_tokens # Unlimited
    /\ total >= Policy[account].max_tokens

\* The policy has a limit and the total is past it.
Exceeds(account, total) ==
    /\ Policy[account].max_tokens # Unlimited
    /\ total > Policy[account].max_tokens

Blocks(account) == Policy[account].on_exceed = "block"

-----------------------------------------------------------------------------
Init ==
    /\ clock = 0
    /\ counter = [k \in Key |-> 0]
    /\ pc = [r \in Request |-> "idle"]
    /\ call = [r \in Request |-> NoCall]
    /\ billed = [r \in Request |-> 0]

\* reserve(), up to its first await: the period key is fixed here.
Begin(r, a, est) ==
    /\ pc[r] = "idle"
    /\ call' = [call EXCEPT ![r] =
                   [account    |-> a,
                    period_key |-> CurrentPeriodKey(Policy[a].period, clock),
                    tokens     |-> est,
                    started    |-> clock]]
    /\ pc' = [pc EXCEPT ![r] = "reserving"]
    /\ UNCHANGED <<clock, counter, billed>>

\* Seeded bug: the check looks at the counter as it was before the INCRBY.
ChargeChecksFirst(r) ==
    LET c == call[r]
    IN  /\ pc[r] = "reserving"
        /\ counter' = [counter EXCEPT ![KeyOf(c)] = @ + c.tokens]
        /\ pc' = [pc EXCEPT ![r] =
                     IF Exceeds(c.account, counter[KeyOf(c)]) /\ Blocks(c.account)
                     THEN "blocked" ELSE "held"]
        /\ UNCHANGED <<clock, call, billed>>

\* reserve(): the INCRBY and the comparison of the total it returned.
Charge(r) ==
    LET c     == call[r]
        total == counter[KeyOf(c)] + c.tokens
    IN  /\ pc[r] = "reserving"
        /\ counter' = [counter EXCEPT ![KeyOf(c)] = total]
        /\ pc' = [pc EXCEPT ![r] =
                     IF Exceeds(c.account, total) /\ Blocks(c.account)
                     THEN "blocked" ELSE "held"]
        /\ UNCHANGED <<clock, call, billed>>

\* Seeded bug: the blocked reservation is taken off but returned all the same.
UndoWithoutRaise(r) ==
    /\ pc[r] = "blocked"
    /\ counter' = [counter EXCEPT ![KeyOf(call[r])] = @ - call[r].tokens]
    /\ pc' = [pc EXCEPT ![r] = "held"]
    /\ UNCHANGED <<clock, call, billed>>

\* reserve(): the compensating INCRBY, then raise BudgetExceeded.
Undo(r) ==
    /\ pc[r] = "blocked"
    /\ counter' = [counter EXCEPT ![KeyOf(call[r])] = @ - call[r].tokens]
    /\ pc' = [pc EXCEPT ![r] = "rejected"]
    /\ UNCHANGED <<clock, call, billed>>

\* Seeded bug: the delta goes to today's key instead of the reservation's.
ReconcileToday(r, actual) ==
    LET today == CurrentPeriodKey(Policy[call[r].account].period, clock)
    IN  /\ pc[r] = "held"
        /\ counter' = [counter EXCEPT ![<<call[r].account, today>>] =
                          @ + actual - call[r].tokens]
        /\ billed' = [billed EXCEPT ![r] = actual]
        /\ pc' = [pc EXCEPT ![r] = "reconciled"]
        /\ UNCHANGED <<clock, call>>

\* reconcile(reservation, actual_tokens): no Redis call when delta is 0.
Reconcile(r, actual) ==
    LET delta == actual - call[r].tokens
    IN  /\ pc[r] = "held"
        /\ IF delta = 0
           THEN UNCHANGED counter
           ELSE counter' = [counter EXCEPT ![KeyOf(call[r])] = @ + delta]
        /\ billed' = [billed EXCEPT ![r] = actual]
        /\ pc' = [pc EXCEPT ![r] = "reconciled"]
        /\ UNCHANGED <<clock, call>>

\* release(reservation): the request failed before it produced tokens.
Release(r) ==
    /\ pc[r] = "held"
    /\ counter' = [counter EXCEPT ![KeyOf(call[r])] = @ - call[r].tokens]
    /\ pc' = [pc EXCEPT ![r] = "released"]
    /\ UNCHANGED <<clock, call, billed>>

\* The request dies at an await: what it has charged stays charged.
Die(r) ==
    /\ \/ /\ pc[r] = "reserving"
          /\ pc' = [pc EXCEPT ![r] = "failed"]
       \/ /\ pc[r] = "blocked"
          /\ pc' = [pc EXCEPT ![r] = "stray"]
       \/ /\ pc[r] = "held"
          /\ pc' = [pc EXCEPT ![r] = "leaked"]
    /\ UNCHANGED <<clock, counter, call, billed>>

\* Midnight.
Tick ==
    /\ clock < MaxDay
    /\ clock' = clock + 1
    /\ UNCHANGED <<counter, pc, call, billed>>

Final == {"rejected", "reconciled", "released", "failed", "stray", "leaked"}

\* Every request of the instance has ended and the calendar is used up.
Done ==
    /\ clock = MaxDay
    /\ \A r \in Request : pc[r] \in Final
    /\ UNCHANGED vars

\* What providers report: the prompt's tokens, which no estimate covers, and the
\* completion's, which num_predict caps.
Usage(r) ==
    IF pc[r] = "held"
    THEN {p + c : p \in Prompt, c \in 0 .. call[r].tokens}
    ELSE {}

Next ==
    \/ \E r \in Request :
          \/ \E a \in Account, est \in Estimate : Begin(r, a, est)
          \/ Charge(r)
          \/ Undo(r)
          \/ \E actual \in Usage(r) : Reconcile(r, actual)
          \/ Release(r)
          \/ Die(r)
    \/ Tick
    \/ Done

Spec == Init /\ [][Next]_vars

-----------------------------------------------------------------------------
\* What a request's key should be by PRD.md 10b: that of the period in which it
\* started.  (The code bills whatever key the reservation carries.)
StartKey(r) ==
    <<call[r].account,
      CurrentPeriodKey(Policy[call[r].account].period, call[r].started)>>

On(r, k) == pc[r] # "idle" /\ StartKey(r) = k

\* What a request in each stage should weigh on its counter.
Weight(r) ==
    CASE pc[r] \in {"blocked", "held", "stray", "leaked"} -> call[r].tokens
      [] pc[r] = "reconciled"                             -> billed[r]
      [] OTHER                                            -> 0

\* The requests that reserve() let through: blocked and stray ones are not.
Admitted(r) == pc[r] \in {"held", "leaked", "reconciled"}

\* By how much a reconciled request used more than it had reserved.
Overrun(r) ==
    IF pc[r] = "reconciled" /\ billed[r] > call[r].tokens
    THEN billed[r] - call[r].tokens ELSE 0

\* The most that a started request will have weighed on its counter.
Demand(r) == IF Overrun(r) > 0 THEN billed[r] ELSE call[r].tokens

\* These amounts, request by request, as far as they concern key k.
Weights(k)   == [r \in Request |-> IF On(r, k) THEN Weight(r) ELSE 0]
Admissions(k) ==
    [r \in Request |-> IF On(r, k) /\ Admitted(r) THEN Weight(r) ELSE 0]
Overruns(k)  == [r \in Request |-> IF On(r, k) THEN Overrun(r) ELSE 0]
Demands(k)   == [r \in Request |-> IF On(r, k) THEN Demand(r) ELSE 0]

\* What the admitted requests weigh on key k.
Committed(k) == Total(Request, Admissions(k))

Limited(k) == Blocks(k[1]) /\ Policy[k[1]].max_tokens # Unlimited

Limit(k) == Policy[k[1]].max_tokens

\* The state of the tracker: counters, one stage for each call, and the call's
\* locals, which exist exactly from the start of reserve() on.
TypeOK ==
    /\ clock \in Day
    /\ counter \in [Key -> Int]
    /\ pc \in [Request -> {"idle", "reserving", "blocked", "held"} \cup Final]
    /\ call \in [Request -> Call \cup {NoCall}]
    /\ billed \in [Request -> Nat]
    /\ \A r \in Request : pc[r] = "idle" <=> call[r] = NoCall

\* Every counter is exactly the sum of what its requests should weigh on it:
\* no interleaving of reserve, undo, reconcile and release, and no midnight
\* between two of them, loses a token, counts one twice or bills it to another
\* period than the request's own.
Conservation ==
    \A k \in Key : counter[k] = Total(Request, Weights(k))

\* Under a blocking policy what was admitted stays within max_tokens, but for
\* what requests used beyond their own estimates.  It holds although reserve()
\* is not atomic and although blocked requests transiently inflate the counter.
OvershootIsOverrun ==
    \A k \in Key : Limited(k) =>
        Committed(k) <= Limit(k) + Total(Request, Overruns(k))

\* A request is refused only when the demand on its counter, the refused
\* requests included, is past max_tokens: two requests that fit together are
\* never refused, however their INCRBYs interleave.
RefusedOnlyUnderPressure ==
    \A r \in Request :
        pc[r] \in {"blocked", "rejected", "stray"} =>
            /\ Limited(StartKey(r))
            /\ Total(Request, Demands(StartKey(r))) > Limit(StartKey(r))

-----------------------------------------------------------------------------
\* Seen from outside, reserve() is one atomic check-and-reserve: the tracker
\* implements BudgetLedger.
AbstractStatus ==
    [r \in Request |->
        CASE pc[r] \in {"idle", "reserving", "blocked"}  -> "none"
          [] pc[r] = "held"                              -> "held"
          [] pc[r] = "leaked"                            -> "lost"
          [] pc[r] = "reconciled"                        -> "billed"
          [] pc[r] = "released"                          -> "cancelled"
          [] OTHER                                       -> "refused"]

AbstractHold ==
    [r \in Request |->
        IF AbstractStatus[r] \in {"none", "refused"}
        THEN <<>> ELSE <<StartKey(r), call[r].tokens>>]

Fits(k, n) == Limited(k) => n <= Limit(k)

Ledger ==
    INSTANCE BudgetLedger WITH
        committed <- [k \in Key |-> Committed(k)],
        status    <- AbstractStatus,
        hold      <- AbstractHold,
        Billable  <- {p + c : p \in Prompt,
                              c \in UNION {0 .. est : est \in Estimate}},
        Fits      <- Fits

ImplementsLedger == Ledger!Spec
=============================================================================
