--------------------------- MODULE GatewayService ---------------------------
(***************************************************************************)
(* gateway/core/service.py: GatewayService._dispatch, the path every chat  *)
(* and embedding request takes, on top of the budget tracker's model.      *)
(*                                                                         *)
(* A request is a coroutine: it resolves its policies, takes a token from  *)
(* the rate limiter, reserves its budget, asks the registry for backends,  *)
(* calls them one after the other until one answers, reports each outcome  *)
(* to the circuit breaker, reconciles, and in the finally block writes its *)
(* usage record.  Each of these is an await, hence a step of its own.  The *)
(* rate limiter, the breakers and the providers decide as they please:     *)
(* other requests and the pollers change them between any two steps.       *)
(*                                                                         *)
(* When Faults is TRUE any await may raise something that is no            *)
(* GatewayError: Redis or the database is out of reach, a backend sends a  *)
(* body that is no JSON, the task is cancelled.  `except GatewayError`     *)
(* does not see it; `finally` does.                                        *)
(***************************************************************************)
EXTENDS Integers, Sequences, FiniteSets, TokenSum

CONSTANTS
    Request, Account, Policy, Unlimited, Estimate, Prompt, MaxDay, MonthOf,
    NoCall,         \* as in BudgetTracker
    Entitled,       \* accounts with a rate-limit and a budget policy
    Chain,          \* the model's enabled backends, in order of priority
    MaxFailover,    \* max_failover_attempts
    Faults,         \* whether awaits may raise other errors
    None            \* Python's None; also the period key "unknown"

ASSUME ServiceAssumption ==
    /\ Entitled \subseteq Account
    /\ MaxFailover \in Nat
    /\ Faults \in BOOLEAN

\* What BudgetTracker assumes of its constants, as far as the service's state needs it.
ASSUME TrackerAssumption ==
    /\ Estimate \subseteq Nat \ {0}
    /\ Prompt \subseteq Nat
    /\ MaxDay \in Nat
    /\ MonthOf \in [0 .. MaxDay -> 0 .. MaxDay]

VARIABLES
    clock, counter, stage, call, billed,    \* the budget tracker's
    at,         \* the await each request is in
    account,    \* the (tenant, model) it is for
    status,     \* local variable status of _dispatch
    backends,   \* what the registry returned
    called,     \* the backends called so far: failover_attempts is one less
    lastError,  \* local variable last_error: how the last call failed
    result,     \* backend_used and the tokens of its answer
    raised,     \* what is being raised: nothing, a GatewayError, another error
    reported,   \* history: what record_success and record_failure were told
    record      \* the UsageRecord that reached the sink

budgetVars == <<clock, counter, stage, call, billed>>
callVars   == <<account, backends, called, lastError, result, reported>>
vars       == <<budgetVars, callVars, at, status, raised, record>>

Budget == INSTANCE BudgetTracker WITH pc <- stage

Backend == {Chain[i] : i \in 1 .. Len(Chain)}

\* What the registry may answer: the chain in its order, without the backends whose
\* breakers were open when it asked.
Routes ==
    LET Picks == UNION {[1 .. n -> DOMAIN Chain] : n \in 0 .. Len(Chain)}
    IN  {[i \in DOMAIN pick |-> Chain[pick[i]]] :
            pick \in {p \in Picks : \A i, j \in DOMAIN p : i < j => p[i] < p[j]}}

\* backend_used and the tokens of an answer.
Answer == [backend : Backend, tokens : Nat]

Statuses ==
    {"success", "provider_error", "timeout", "rate_limited", "budget_exceeded",
     "all_providers_down"}

\* The usage records that may reach the sink.
Records ==
    [status : Statuses, model : Account, backend_id : Backend \cup {None}, tokens : Nat,
     failover_attempts : Nat, budget_period_key : Budget!Day \cup {None}]

ASSUME ChainAssumption == Chain \in Seq(Backend)

ASSUME NoneAssumption ==
    NoCall \notin Budget!Call /\ None \notin Answer /\ None \notin Records

-----------------------------------------------------------------------------
Init ==
    /\ Budget!Init
    /\ at = [r \in Request |-> "new"]
    /\ account = [r \in Request |-> None]
    /\ status = [r \in Request |-> "success"]
    /\ backends = [r \in Request |-> <<>>]
    /\ called = [r \in Request |-> <<>>]
    /\ lastError = [r \in Request |-> "none"]
    /\ result = [r \in Request |-> None]
    /\ raised = [r \in Request |-> "nothing"]
    /\ reported = [r \in Request |-> <<>>]
    /\ record = [r \in Request |-> None]

Goto(r, place) == at' = [at EXCEPT ![r] = place]

\* raise a GatewayError, with what _dispatch made of its status before.
Raise(r, newStatus) ==
    /\ Goto(r, "handler")
    /\ status' = [status EXCEPT ![r] = newStatus]
    /\ raised' = [raised EXCEPT ![r] = "gateway error"]

\* The policies are looked up: a tenant without one is not entitled.
ResolvePolicies(r, a) ==
    /\ at[r] = "new"
    /\ account' = [account EXCEPT ![r] = a]
    /\ IF a \in Entitled
       THEN Goto(r, "limit") /\ UNCHANGED <<status, raised>>
       ELSE Raise(r, status[r])
    /\ UNCHANGED <<budgetVars, backends, called, lastError, result, reported, record>>

\* await rate_limiter.check_and_consume()
CheckRate(r) ==
    /\ at[r] = "limit"
    /\ \/ Goto(r, "reserve") /\ UNCHANGED <<status, raised>>
       \/ Raise(r, "rate_limited")
    /\ UNCHANGED <<budgetVars, callVars, record>>

\* await budget_tracker.reserve(): its start, its INCRBY, its compensation.
Reserve(r, est) ==
    /\ at[r] = "reserve"
    /\ Budget!Begin(r, account[r], est)
    /\ Goto(r, "reserving")
    /\ UNCHANGED <<callVars, status, raised, record>>

ReserveCharge(r) ==
    /\ at[r] = "reserving"
    /\ Budget!Charge(r)
    /\ Goto(r, IF stage'[r] = "held" THEN "route" ELSE "reserving")
    /\ UNCHANGED <<callVars, status, raised, record>>

ReserveUndo(r) ==
    /\ at[r] = "reserving"
    /\ Budget!Undo(r)
    /\ Raise(r, "budget_exceeded")
    /\ UNCHANGED <<callVars, record>>

\* Seeded bug: max_failover_attempts counts the attempts after the first.
AttemptsBeyondFirst(chain) ==
    IF Len(chain) < MaxFailover + 1 THEN Len(chain) ELSE MaxFailover + 1

\* How many backends of the chain the loop may try.
Attempts(chain) ==
    IF Len(chain) < MaxFailover THEN Len(chain) ELSE MaxFailover

\* Seeded bug: the status is the name of the last error.
GiveUpVerbatim(r, error) == Raise(r, error)

\* Seeded bug: the two statuses of a walk that failed are mixed up.
GiveUpSwapped(r, error) ==
    Raise(r, IF error = "timeout" THEN "all_providers_down" ELSE "timeout")

\* The for loop's else: every attempt failed, or there was none.
GiveUp(r, error) ==
    Raise(r, IF error = "timeout" THEN "timeout" ELSE "all_providers_down")

\* await get_backends(): the backends it found usable.  The registry raises when
\* there is none; the loop may have no attempt to make.
Route(r, usable) ==
    /\ at[r] = "route"
    /\ backends' = [backends EXCEPT ![r] = usable]
    /\ CASE usable = <<>>          -> Raise(r, status[r])
         [] Attempts(usable) > 0   -> Goto(r, "call") /\ UNCHANGED <<status, raised>>
         [] OTHER                  -> GiveUp(r, "none")
    /\ UNCHANGED <<budgetVars, account, called, lastError, result, reported, record>>

\* The loop has an attempt left.
MayCall(r) == Len(called[r]) < Attempts(backends[r])

NextBackend(r) == backends[r][Len(called[r]) + 1]

\* await call_provider(backend): it answers with n tokens of usage...
ProviderAnswers(r, n) ==
    /\ at[r] = "call"
    /\ MayCall(r)
    /\ called' = [called EXCEPT ![r] = Append(@, NextBackend(r))]
    /\ result' = [result EXCEPT ![r] = [backend |-> NextBackend(r), tokens |-> n]]
    /\ Goto(r, "answered")
    /\ UNCHANGED <<budgetVars, account, backends, lastError, reported, status, raised, record>>

\* ... or it fails with ProviderTimeout or AllProvidersUnavailable.
ProviderFails(r, error) ==
    /\ at[r] = "call"
    /\ MayCall(r)
    /\ called' = [called EXCEPT ![r] = Append(@, NextBackend(r))]
    /\ lastError' = [lastError EXCEPT ![r] = error]
    /\ Goto(r, "failed")
    /\ UNCHANGED <<budgetVars, account, backends, result, reported, status, raised, record>>

Report(r, outcome) ==
    reported' = [reported EXCEPT ![r] =
                    Append(@, <<called[r][Len(called[r])], outcome>>)]

\* await circuit_breaker.record_success(), then break.
RecordSuccess(r) ==
    /\ at[r] = "answered"
    /\ Report(r, "success")
    /\ Goto(r, "reconcile")
    /\ UNCHANGED <<budgetVars, account, backends, called, lastError, result, status, raised, record>>

\* Seeded bug: a timed-out backend is tried again, neither counted nor reported.
RecordFailureRetries(r) ==
    /\ at[r] = "failed"
    /\ IF lastError[r] = "timeout"
       THEN /\ called' = [called EXCEPT ![r] = SubSeq(@, 1, Len(@) - 1)]
            /\ Goto(r, "call")
            /\ UNCHANGED <<status, raised, reported>>
       ELSE /\ Report(r, "failure")
            /\ IF MayCall(r)
               THEN Goto(r, "call") /\ UNCHANGED <<status, raised>>
               ELSE GiveUp(r, lastError[r])
            /\ UNCHANGED called
    /\ UNCHANGED <<budgetVars, account, backends, lastError, result, record>>

\* await circuit_breaker.record_failure(), then the next attempt or the else.
RecordFailure(r) ==
    /\ at[r] = "failed"
    /\ Report(r, "failure")
    /\ IF MayCall(r)
       THEN Goto(r, "call") /\ UNCHANGED <<status, raised>>
       ELSE GiveUp(r, lastError[r])
    /\ UNCHANGED <<budgetVars, account, backends, called, lastError, result, record>>

\* await budget_tracker.reconcile()
Reconcile(r) ==
    /\ at[r] = "reconcile"
    /\ Budget!Reconcile(r, result[r].tokens)
    /\ Goto(r, "sink")
    /\ UNCHANGED <<callVars, status, raised, record>>

\* Seeded bug: a timeout is taken for a request that did produce tokens.
HandleErrorKeepsTimeouts(r) ==
    /\ at[r] = "handler"
    /\ IF stage[r] = "held" /\ status[r] \notin {"success", "timeout"}
       THEN Budget!Release(r)
       ELSE UNCHANGED budgetVars
    /\ status' = [status EXCEPT ![r] = IF @ = "success" THEN "provider_error" ELSE @]
    /\ Goto(r, "sink")
    /\ UNCHANGED <<callVars, raised, record>>

\* The except block: release what is reserved, unless status is still success.
HandleError(r) ==
    /\ at[r] = "handler"
    /\ IF stage[r] = "held" /\ status[r] # "success"
       THEN Budget!Release(r)
       ELSE UNCHANGED budgetVars
    /\ status' = [status EXCEPT ![r] = IF @ = "success" THEN "provider_error" ELSE @]
    /\ Goto(r, "sink")
    /\ UNCHANGED <<callVars, raised, record>>

\* Seeded bug: the record is filed under the period it is written in.
RecordKeysNow(r) ==
    {IF stage[r] \in {"held", "reconciled", "released", "leaked"}
     THEN Budget!CurrentPeriodKey(Policy[account[r]].period, clock) ELSE None}

\* The period key of the record: that of the reservation, or "unknown" when reserve()
\* returned none.  A reservation that was lost before there was a backend may be one
\* whose INCRBY was executed and its reply lost: the tracker counts it, _dispatch
\* never had it.
RecordKeys(r) ==
    CASE stage[r] \in {"held", "reconciled", "released"} -> {call[r].period_key}
      [] stage[r] = "leaked" /\ backends[r] # <<>>      -> {call[r].period_key}
      [] stage[r] = "leaked" /\ backends[r] = <<>>      -> {call[r].period_key, None}
      [] OTHER                                          -> {None}

UsageRecord(r, key) ==
    [status            |-> status[r],
     model             |-> account[r],
     backend_id        |-> IF result[r] = None THEN None ELSE result[r].backend,
     tokens            |-> IF result[r] = None THEN 0 ELSE result[r].tokens,
     failover_attempts |-> IF called[r] = <<>> THEN 0 ELSE Len(called[r]) - 1,
     budget_period_key |-> key]

\* The finally block: await usage_sink(record).
WriteRecord(r) ==
    /\ at[r] = "sink"
    /\ \E key \in RecordKeys(r) : record' = [record EXCEPT ![r] = UsageRecord(r, key)]
    /\ Goto(r, "done")
    /\ UNCHANGED <<budgetVars, callVars, status, raised>>

\* Another error leaves the try block: what is reserved is left as it is.
Escape(r) ==
    /\ raised' = [raised EXCEPT ![r] = "other error"]
    /\ Goto(r, "sink")
    /\ IF stage[r] \in {"reserving", "blocked", "held"}
       THEN Budget!Die(r)
       ELSE UNCHANGED budgetVars
    /\ UNCHANGED <<status, record>>

\* The limiter, the tracker, the registry or the breaker raises it...
RedisFails(r) ==
    /\ Faults
    /\ \/ at[r] \in {"limit", "reserving", "route", "answered", "failed", "reconcile"}
       \/ at[r] = "handler" /\ stage[r] = "held" /\ status[r] # "success"
    /\ Escape(r)
    /\ UNCHANGED callVars

\* ... or the provider does: a body that is no JSON, an answer with no vectors.
ProviderRaises(r) ==
    /\ Faults
    /\ at[r] = "call"
    /\ MayCall(r)
    /\ called' = [called EXCEPT ![r] = Append(@, NextBackend(r))]
    /\ Escape(r)
    /\ UNCHANGED <<account, backends, lastError, result, reported>>

\* usage_sink raises: that error replaces the answer or the error under way.
SinkFails(r) ==
    /\ Faults
    /\ at[r] = "sink"
    /\ raised' = [raised EXCEPT ![r] = "other error"]
    /\ Goto(r, "done")
    /\ UNCHANGED <<budgetVars, callVars, status, record>>

\* What a provider may report for a request: see BudgetTracker.
Usage(r) == Budget!Usage(r)

\* A request under way takes its next step.
Proceed(r) ==
    \/ CheckRate(r)
    \/ \E est \in Estimate : Reserve(r, est)
    \/ ReserveCharge(r)
    \/ ReserveUndo(r)
    \/ \E usable \in Routes : Route(r, usable)
    \/ \E n \in Usage(r) : ProviderAnswers(r, n)
    \/ \E error \in {"timeout", "unavailable"} : ProviderFails(r, error)
    \/ RecordSuccess(r)
    \/ RecordFailure(r)
    \/ Reconcile(r)
    \/ HandleError(r)
    \/ WriteRecord(r)
    \/ RedisFails(r)
    \/ ProviderRaises(r)
    \/ SinkFails(r)

\* Midnight.
Tick ==
    /\ Budget!Tick
    /\ UNCHANGED <<callVars, at, status, raised, record>>

\* Every request of the instance is done and the calendar is used up.
Done ==
    /\ clock = MaxDay
    /\ \A r \in Request : at[r] = "done"
    /\ UNCHANGED vars

Next ==
    \/ \E r \in Request :
          \/ \E a \in Account : ResolvePolicies(r, a)
          \/ Proceed(r)
    \/ Tick
    \/ Done

Spec == Init /\ [][Next]_vars

\* Provider calls have a timeout, and Redis and the database answer or fail:
\* every await of a request that has begun comes back.
FairSpec == Spec /\ \A r \in Request : WF_vars(Proceed(r))

-----------------------------------------------------------------------------
\* The caller gets 200, a mapped GatewayError, or a 500.
Answered(r) == at[r] = "done" /\ raised[r] = "nothing"
Refused(r)  == at[r] = "done" /\ raised[r] = "gateway error"
Broken(r)   == at[r] = "done" /\ raised[r] = "other error"

\* The state of the coroutines.
TypeOK ==
    /\ Budget!TypeOK
    /\ at \in [Request -> {"new", "limit", "reserve", "reserving", "route", "call",
                           "answered", "failed", "reconcile", "handler", "sink",
                           "done"}]
    /\ account \in [Request -> Account \cup {None}]
    /\ status \in [Request -> Statuses]
    /\ backends \in [Request -> Seq(Backend)]
    /\ called \in [Request -> Seq(Backend)]
    /\ lastError \in [Request -> {"none", "timeout", "unavailable"}]
    /\ result \in [Request -> Answer \cup {None}]
    /\ raised \in [Request -> {"nothing", "gateway error", "other error"}]
    /\ reported \in [Request -> Seq(Backend \X {"success", "failure"})]
    /\ record \in [Request -> Records \cup {None}]

\* A request that is over, and that nothing but GatewayErrors befell, keeps budget
\* only for what it used; the one exception is the request that found no backend
\* to route to.  A reservation is lost only with an error of another kind.
ReservationsSettled ==
    \A r \in Request : at[r] = "done" =>
        /\ Answered(r) => stage[r] = "reconciled"
        /\ stage[r] = "held" => ~Answered(r) /\ backends[r] = <<>>
        /\ stage[r] \in {"leaked", "stray", "failed"} => Broken(r)

\* The usage record and the budget counter tell the same story: what a request
\* reconciled is recorded as a success with the same tokens, against the same
\* period, by the backend that really answered.
RecordMatchesBudget ==
    \A r \in Request : record[r] # None /\ stage[r] = "reconciled" =>
        /\ record[r].status = "success"
        /\ record[r].tokens = billed[r]
        /\ record[r].budget_period_key = call[r].period_key
        /\ record[r].backend_id = called[r][Len(called[r])]

\* The status that the outcome of a request deserves, told from what befell its
\* reservation and its calls.  "provider_error" stands for the two exits that no
\* except clause names, and on both of them no provider was called: the tenant is
\* not entitled to the model, or the registry found no backend usable.
Verdict(r) ==
    CASE stage[r] = "reconciled"                           -> "success"
      [] stage[r] = "idle" /\ account[r] \notin Entitled   -> "provider_error"
      [] stage[r] = "idle" /\ account[r] \in Entitled      -> "rate_limited"
      [] stage[r] = "rejected"                             -> "budget_exceeded"
      [] stage[r] = "held" /\ backends[r] = <<>>           -> "provider_error"
      [] stage[r] = "released" /\ lastError[r] = "timeout" -> "timeout"
      [] OTHER                                             -> "all_providers_down"

\* A request that is answered or refused has its usage record, and the status of the
\* record is the one that what happened to the request deserves.  A timeout or
\* all_providers_down is recorded only for a walk that had a backend to begin with
\* and made every attempt that the chain allows, and the one says how the last
\* attempt failed, the other that it failed otherwise.
StatusTellsCause ==
    \A r \in Request : Answered(r) \/ Refused(r) =>
        /\ record[r] # None
        /\ record[r].status = Verdict(r)
        /\ record[r].status \in {"timeout", "all_providers_down"} =>
              /\ stage[r] = "released"
              /\ backends[r] # <<>>
              /\ Len(called[r]) = Attempts(backends[r])

\* The chain is walked in order, one backend after the other, no further than
\* max_failover_attempts and never past an answer: a request generates once.
\* Every call but one in flight was reported to the breaker as it ended.
FailoverDiscipline ==
    \A r \in Request :
        /\ Len(called[r]) <= MaxFailover
        /\ called[r] = SubSeq(backends[r], 1, Len(called[r]))
        /\ \A i \in 1 .. Len(reported[r]) :
              /\ reported[r][i][1] = called[r][i]
              /\ reported[r][i][2] = "success" => i = Len(called[r])
        /\ at[r] \in {"call", "reconcile", "handler"} =>
              Len(reported[r]) = Len(called[r])

\* A request that has begun gets its answer, whatever fails on the way.
RequestsEnd == \A r \in Request : (at[r] # "new") ~> (at[r] = "done")

\* A reservation for which there was a backend to try is reconciled or released,
\* unless an error of another kind tears the request off.
RoutedReservationsSettle ==
    \A r \in Request :
        (stage[r] = "held" /\ backends[r] # <<>>)
            ~> (stage[r] \in {"reconciled", "released"} \/ raised[r] = "other error")

\* ARCHITECTURE.md:110-111: on failure the full reservation is released.
FailureReleases ==
    \A r \in Request : Refused(r) => stage[r] \notin {"held", "leaked"}
=============================================================================
