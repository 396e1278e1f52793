------------------------- MODULE GatewayServiceProofs -------------------------
(***************************************************************************)
(* Proofs about GatewayService for every set of requests and accounts,     *)
(* every chain of backends and every number of failover attempts, with or  *)
(* without faults.                                                         *)
(***************************************************************************)
EXTENDS GatewayService, SequenceTheorems, TLAPS

-----------------------------------------------------------------------------
\* How far the reservation is, by the await that the request is in.
StageOf(r) ==
    /\ at[r] \in {"new", "limit", "reserve"} => stage[r] = "idle"
    /\ at[r] = "reserving" => stage[r] \in {"reserving", "blocked"}
    /\ at[r] \in {"route", "call", "answered", "failed", "reconcile"} => stage[r] = "held"
    /\ at[r] = "handler" => stage[r] \in {"idle", "rejected", "held"}
    /\ at[r] \in {"sink", "done"} => stage[r] \notin {"reserving", "blocked"}
    /\ at[r] # "new" => account[r] \in Account
    /\ at[r] \in {"limit", "reserve"} => account[r] \in Entitled

\* All attempts that the chain allows were made.
Exhausted(r) ==
    /\ status[r] = IF lastError[r] = "timeout" THEN "timeout" ELSE "all_providers_down"
    /\ backends[r] # <<>>
    /\ Len(called[r]) = Attempts(backends[r])

\* What a raised GatewayError can have come from: the status, and what became of the
\* reservation until then.
Cause(r, unclassified, exhausted) ==
    \/ /\ stage[r] = "idle"
       /\ status[r] = IF account[r] \in Entitled THEN "rate_limited" ELSE unclassified
    \/ stage[r] = "rejected" /\ status[r] = "budget_exceeded"
    \/ stage[r] = "held" /\ status[r] = unclassified /\ backends[r] = <<>>
    \/ stage[r] = exhausted /\ Exhausted(r)

CauseOf(r) ==
    /\ at[r] \notin {"handler", "sink", "done"} =>
          raised[r] = "nothing" /\ status[r] = "success"
    /\ at[r] = "handler" =>
          raised[r] = "gateway error" /\ Cause(r, "success", "held")
    /\ at[r] \in {"sink", "done"} =>
          /\ raised[r] = "nothing" => stage[r] = "reconciled"
          /\ raised[r] = "gateway error" => Cause(r, "provider_error", "released")
          /\ raised[r] = "other error" => (stage[r] = "held" => backends[r] = <<>>)
    /\ stage[r] = "reconciled" => status[r] = "success"

\* The answer that is billed is that of the last call.
AnswerOf(r) ==
    /\ at[r] \in {"answered", "reconcile"} \/ stage[r] = "reconciled" =>
          /\ result[r] \in Answer
          /\ called[r] # <<>>
          /\ result[r].backend = called[r][Len(called[r])]
    /\ at[r] \in {"answered", "reconcile"} => result[r].tokens \in Usage(r)
    /\ stage[r] = "reconciled" => result[r].tokens = billed[r]

\* The record is written once, when all that it tells of is over.
RecordOf(r) ==
    /\ at[r] = "done" /\ raised[r] # "other error" => record[r] # None
    /\ record[r] # None =>
        /\ at[r] = "done"
        /\ record[r].status = status[r]
        /\ stage[r] = "reconciled" =>
              /\ record[r].status = "success"
              /\ record[r].tokens = billed[r]
              /\ record[r].budget_period_key = call[r].period_key
              /\ record[r].backend_id = called[r][Len(called[r])]

\* How far the chain has been walked, and what of it was reported.
WalkOf(r) ==
    /\ at[r] \in {"new", "limit", "reserve", "reserving", "route"} =>
          called[r] = <<>> /\ reported[r] = <<>> /\ lastError[r] = "none"
    /\ Len(called[r]) <= Attempts(backends[r])
    /\ \A i \in 1 .. Len(called[r]) : called[r][i] = backends[r][i]
    /\ at[r] \in {"call", "reconcile", "handler"} => Len(reported[r]) = Len(called[r])
    /\ at[r] \in {"answered", "failed"} => Len(reported[r]) + 1 = Len(called[r])
    /\ Len(reported[r]) <= Len(called[r])
    /\ \A i \in 1 .. Len(reported[r]) :
          /\ reported[r][i][1] = called[r][i]
          /\ reported[r][i][2] = "success" => i = Len(called[r])
          /\ at[r] \in {"call", "answered", "failed"} => reported[r][i][2] = "failure"
    /\ at[r] = "failed" => lastError[r] \in {"timeout", "unavailable"}

\* The inductive invariant: what is raised, recorded and billed at the end follows
\* from where the request has been, so it relates all locals of _dispatch at each
\* await to the stage of the reservation.
Consistent(r) == StageOf(r) /\ CauseOf(r) /\ AnswerOf(r) /\ RecordOf(r) /\ WalkOf(r)

IInv == TypeOK /\ \A r \in Request : Consistent(r)

-----------------------------------------------------------------------------
\* The locals of another request are its own.
Untouched(q) ==
    /\ stage'[q] = stage[q] /\ call'[q] = call[q] /\ billed'[q] = billed[q]
    /\ at'[q] = at[q] /\ account'[q] = account[q] /\ status'[q] = status[q]
    /\ backends'[q] = backends[q] /\ called'[q] = called[q]
    /\ lastError'[q] = lastError[q] /\ result'[q] = result[q]
    /\ raised'[q] = raised[q] /\ reported'[q] = reported[q] /\ record'[q] = record[q]

\* What is true of a request stays true when none of its locals changes.
LEMMA UntouchedKeeps ==
    ASSUME NEW q \in Request, Consistent(q), Untouched(q)
    PROVE  Consistent(q)'
<1> USE DEF Consistent, Untouched
<1>1. StageOf(q)'
  BY DEF StageOf
<1>2. CauseOf(q)'
  BY DEF CauseOf, Cause, Exhausted, Attempts
<1>3. AnswerOf(q)'
  BY DEF AnswerOf, Usage, Budget!Usage
<1>4. RecordOf(q)'
  BY DEF RecordOf
<1>5. WalkOf(q)'
  BY DEF WalkOf, Attempts
<1> QED
  BY <1>1, <1>2, <1>3, <1>4, <1>5

\* A step of one request keeps the invariant if it keeps the types, touches no other
\* request and leaves the request itself consistent.
LEMMA StepOfOne ==
    ASSUME IInv, TypeOK', NEW r \in Request, Consistent(r)',
           \A q \in Request \ {r} : Untouched(q)
    PROVE  IInv'
BY UntouchedKeeps DEF IInv

\* A request that is routed gets backends of the chain.
LEMMA RoutesAreChains == Routes \subseteq Seq(Backend)
<1> SUFFICES ASSUME NEW s \in Routes PROVE s \in Seq(Backend)
  OBVIOUS
<1>1. Len(Chain) \in Nat /\ DOMAIN Chain = 1 .. Len(Chain)
  BY ChainAssumption
<1>2. PICK n \in 0 .. Len(Chain) :
           \E pick \in [1 .. n -> DOMAIN Chain] : s = [i \in DOMAIN pick |-> Chain[pick[i]]]
  BY DEF Routes
<1>3. PICK pick \in [1 .. n -> DOMAIN Chain] : s = [i \in DOMAIN pick |-> Chain[pick[i]]]
  BY <1>2
<1>4. n \in Nat
  BY <1>1
<1>5. s \in [1 .. n -> Backend]
  BY <1>1, <1>3 DEF Backend
<1> QED
  BY <1>4, <1>5

\* The number of attempts is a number, no more than the chain and the bound allow.
LEMMA AttemptsType ==
    ASSUME NEW s \in Seq(Backend)
    PROVE  /\ Attempts(s) \in Nat
           /\ Attempts(s) <= Len(s)
           /\ Attempts(s) <= MaxFailover
BY ServiceAssumption DEF Attempts

-----------------------------------------------------------------------------
\* What the tracker's actions do to the tracker's state, when the request has a
\* reservation: they keep it well formed and leave all other requests alone.
OthersStay(r) ==
    \A q \in Request \ {r} :
        stage'[q] = stage[q] /\ call'[q] = call[q] /\ billed'[q] = billed[q]

\* reserve() up to its first await.
LEMMA BeginStep ==
    ASSUME Budget!TypeOK, NEW r \in Request, NEW a \in Account, NEW est \in Estimate,
           Budget!Begin(r, a, est)
    PROVE  Budget!TypeOK' /\ OthersStay(r) /\ stage'[r] = "reserving"
<1> DEFINE c == [account    |-> a,
                 period_key |-> Budget!CurrentPeriodKey(Policy[a].period, clock),
                 tokens     |-> est,
                 started    |-> clock]
<1>1. clock \in Budget!Day /\ Budget!CurrentPeriodKey(Policy[a].period, clock) \in Budget!Day
  BY TrackerAssumption DEF Budget!TypeOK, Budget!CurrentPeriodKey, Budget!Day
<1>2. c \in Budget!Call /\ c # NoCall
  BY <1>1, TrackerAssumption, NoneAssumption DEF Budget!Call
<1>3. call' = [call EXCEPT ![r] = c]
  BY DEF Budget!Begin
<1> HIDE DEF c
<1> QED
  BY <1>2, <1>3 DEF Budget!Begin, Budget!TypeOK, Budget!Final, OthersStay

\* A reservation under way names a counter and a number of tokens.
LEMMA Reserved ==
    ASSUME Budget!TypeOK, NEW r \in Request, stage[r] # "idle"
    PROVE  /\ call[r] \in Budget!Call
           /\ Budget!KeyOf(call[r]) \in Budget!Key
           /\ call[r].tokens \in Nat
BY TrackerAssumption DEF Budget!TypeOK, Budget!Call, Budget!Key, Budget!KeyOf

\* The INCRBY and the comparison.
LEMMA ChargeStep ==
    ASSUME Budget!TypeOK, NEW r \in Request, Budget!Charge(r)
    PROVE  /\ Budget!TypeOK' /\ OthersStay(r)
           /\ stage[r] = "reserving" /\ stage'[r] \in {"blocked", "held"}
BY Reserved DEF Budget!Charge, Budget!TypeOK, Budget!Final, OthersStay

\* The compensation.
LEMMA UndoStep ==
    ASSUME Budget!TypeOK, NEW r \in Request, Budget!Undo(r)
    PROVE  /\ Budget!TypeOK' /\ OthersStay(r)
           /\ stage[r] = "blocked" /\ stage'[r] = "rejected"
BY Reserved DEF Budget!Undo, Budget!TypeOK, Budget!Final, OthersStay

\* The settlement of an answered request.
LEMMA ReconcileStep ==
    ASSUME Budget!TypeOK, NEW r \in Request, NEW n \in Nat, Budget!Reconcile(r, n)
    PROVE  /\ Budget!TypeOK' /\ OthersStay(r)
           /\ stage[r] = "held" /\ stage'[r] = "reconciled" /\ billed'[r] = n
           /\ call' = call
<1>1. stage[r] = "held"
  BY DEF Budget!Reconcile
<1>2. counter' \in [Budget!Key -> Int]
  BY <1>1, Reserved DEF Budget!Reconcile, Budget!TypeOK
<1>3. billed' \in [Request -> Nat]
  BY DEF Budget!Reconcile, Budget!TypeOK
<1> QED
  BY <1>1, <1>2, <1>3 DEF Budget!Reconcile, Budget!TypeOK, Budget!Final, OthersStay

\* The settlement of a failed one.
LEMMA ReleaseStep ==
    ASSUME Budget!TypeOK, NEW r \in Request, Budget!Release(r)
    PROVE  /\ Budget!TypeOK' /\ OthersStay(r)
           /\ stage[r] = "held" /\ stage'[r] = "released"
BY Reserved DEF Budget!Release, Budget!TypeOK, Budget!Final, OthersStay

\* No settlement at all.
LEMMA DieStep ==
    ASSUME Budget!TypeOK, NEW r \in Request, Budget!Die(r)
    PROVE  /\ Budget!TypeOK' /\ OthersStay(r)
           /\ stage'[r] \in {"failed", "stray", "leaked"}
BY DEF Budget!Die, Budget!TypeOK, Budget!Final, OthersStay

-----------------------------------------------------------------------------
\* Nothing has begun.
LEMMA InitHolds == Init => IInv
<1> SUFFICES ASSUME Init PROVE IInv
  OBVIOUS
<1>1. Budget!TypeOK
  BY TrackerAssumption, NoneAssumption
  DEF Init, Budget!Init, Budget!TypeOK, Budget!Day, Budget!Key, Budget!Final
<1>2. TypeOK
  BY <1>1 DEF Statuses, Init, TypeOK
<1>3. ASSUME NEW r \in Request PROVE Consistent(r)
  <2>1. Attempts(<<>>) = 0
    BY ServiceAssumption DEF Attempts
  <2>2. /\ at[r] = "new" /\ stage[r] = "idle" /\ raised[r] = "nothing"
        /\ status[r] = "success" /\ called[r] = <<>> /\ reported[r] = <<>>
        /\ backends[r] = <<>> /\ record[r] = None /\ lastError[r] = "none"
    BY DEF Init, Budget!Init
  <2> QED
    BY <2>1, <2>2
    DEF Consistent, StageOf, CauseOf, AnswerOf, RecordOf, WalkOf
<1> QED
  BY <1>2, <1>3 DEF IInv

\* Until it is routed a request has called nobody, so what it has answered, recorded
\* and walked is in order.
LEMMA EarlyKeeps ==
    ASSUME NEW r \in Request, Consistent(r),
           at[r] \in {"new", "limit", "reserve", "reserving"},
           at'[r] \in {"limit", "reserve", "reserving", "route", "handler"},
           stage'[r] # "reconciled", backends'[r] = backends[r], called'[r] = called[r],
           lastError'[r] = lastError[r], reported'[r] = reported[r],
           record'[r] = record[r]
    PROVE  AnswerOf(r)' /\ RecordOf(r)' /\ WalkOf(r)'
<1>1. called[r] = <<>> /\ reported[r] = <<>> /\ lastError[r] = "none" /\ record[r] = None
  BY DEF Consistent, WalkOf, RecordOf
<1>2. Attempts(backends[r])' = Attempts(backends[r])
  BY DEF Attempts
<1>3. AnswerOf(r)' /\ RecordOf(r)'
  BY <1>1 DEF AnswerOf, RecordOf
<1>4. WalkOf(r)'
  <2>1. 0 <= Attempts(backends[r])
    BY <1>1 DEF Consistent, WalkOf
  <2> QED
    BY <1>1, <1>2, <2>1 DEF WalkOf
<1> QED
  BY <1>3, <1>4

\* The policies are looked up.
LEMMA ResolvePoliciesKeeps ==
    ASSUME IInv, NEW r \in Request, NEW a \in Account, ResolvePolicies(r, a)
    PROVE  IInv'
<1> USE DEF IInv, ResolvePolicies, Goto, Raise
<1>1. TypeOK'
  BY ZenonT(40) DEF Statuses, TypeOK, budgetVars, Budget!TypeOK
<1>2. \A q \in Request \ {r} : Untouched(q)
  BY ZenonT(40) DEF TypeOK, Untouched, budgetVars
<1>3. Consistent(r)'
  <2>1. /\ at'[r] = IF a \in Entitled THEN "limit" ELSE "handler"
        /\ account'[r] = a /\ status'[r] = status[r]
        /\ raised'[r] = IF a \in Entitled THEN raised[r] ELSE "gateway error"
        /\ UNCHANGED <<stage, call, billed, called, lastError, reported, backends, result,
                       record>>
    BY DEF TypeOK, budgetVars
  <2>2. Consistent(r) /\ at[r] = "new" /\ stage[r] = "idle"
    BY DEF Consistent, StageOf
  <2>8. AnswerOf(r)' /\ RecordOf(r)' /\ WalkOf(r)'
    BY <2>1, <2>2, EarlyKeeps
  <2>9. StageOf(r)' /\ CauseOf(r)'
    BY <2>1, <2>2
    DEF Consistent, StageOf, CauseOf, Cause
  <2> QED
    BY <2>8, <2>9 DEF Consistent
<1> QED
  BY <1>1, <1>2, <1>3, StepOfOne

\* The rate limiter answers.
LEMMA CheckRateKeeps ==
    ASSUME IInv, NEW r \in Request, CheckRate(r)
    PROVE  IInv'
<1> USE DEF IInv, CheckRate, Goto, Raise
<1>1. TypeOK'
  BY DEF Statuses, TypeOK, budgetVars, callVars, Budget!TypeOK
<1>2. \A q \in Request \ {r} : Untouched(q)
  BY DEF TypeOK, Untouched, budgetVars, callVars
<1>3. Consistent(r)'
  <2>1. /\ \/ at'[r] = "reserve" /\ status'[r] = status[r] /\ raised'[r] = raised[r]
           \/ at'[r] = "handler" /\ status'[r] = "rate_limited" /\ raised'[r] = "gateway error"
        /\ UNCHANGED <<stage, call, billed, callVars, record>>
    BY DEF TypeOK, budgetVars
  <2>2. Consistent(r) /\ at[r] = "limit" /\ stage[r] = "idle"
    BY DEF Consistent, StageOf
  <2>8. AnswerOf(r)' /\ RecordOf(r)' /\ WalkOf(r)'
    BY <2>1, <2>2, EarlyKeeps DEF callVars
  <2>9. StageOf(r)' /\ CauseOf(r)'
    BY <2>1, <2>2
    DEF Consistent, StageOf, CauseOf, Cause, callVars
  <2> QED
    BY <2>8, <2>9 DEF Consistent
<1> QED
  BY <1>1, <1>2, <1>3, StepOfOne

\* The reservation begins.
LEMMA ReserveKeeps ==
    ASSUME IInv, NEW r \in Request, NEW est \in Estimate, Reserve(r, est)
    PROVE  IInv'
<1> USE DEF IInv, Reserve, Goto
<1>0. account[r] \in Account /\ Budget!TypeOK /\ Consistent(r) /\ at[r] = "reserve"
  BY ServiceAssumption DEF Consistent, StageOf, TypeOK
<1>1. Budget!TypeOK' /\ OthersStay(r) /\ stage'[r] = "reserving"
  BY <1>0, BeginStep
<1>2. TypeOK'
  BY <1>1 DEF TypeOK, callVars
<1>3. \A q \in Request \ {r} : Untouched(q)
  BY <1>1 DEF TypeOK, Untouched, OthersStay, callVars
<1>4. Consistent(r)'
  <2>1. at'[r] = "reserving" /\ UNCHANGED <<callVars, status, raised, record>>
    BY DEF TypeOK
  <2>8. AnswerOf(r)' /\ RecordOf(r)' /\ WalkOf(r)'
    BY <1>0, <1>1, <2>1, EarlyKeeps DEF callVars
  <2>9. StageOf(r)' /\ CauseOf(r)'
    BY <1>0, <1>1, <2>1
    DEF Consistent, StageOf, CauseOf, Cause, callVars
  <2> QED
    BY <2>8, <2>9 DEF Consistent
<1> QED
  BY <1>2, <1>3, <1>4, StepOfOne

\* The INCRBY is back.
LEMMA ReserveChargeKeeps ==
    ASSUME IInv, NEW r \in Request, ReserveCharge(r)
    PROVE  IInv'
<1> USE DEF IInv, ReserveCharge, Goto
<1>0. Budget!TypeOK /\ Consistent(r) /\ at[r] = "reserving"
  BY DEF TypeOK
<1>1. Budget!TypeOK' /\ OthersStay(r) /\ stage'[r] \in {"blocked", "held"}
  BY <1>0, ChargeStep
<1>2. TypeOK'
  BY <1>1 DEF TypeOK, callVars
<1>3. \A q \in Request \ {r} : Untouched(q)
  BY <1>1 DEF TypeOK, Untouched, OthersStay, callVars
<1>4. Consistent(r)'
  <2>1. /\ at'[r] = IF stage'[r] = "held" THEN "route" ELSE "reserving"
        /\ UNCHANGED <<callVars, status, raised, record>>
    BY DEF TypeOK
  <2>2. /\ account'[r] = account[r] /\ status'[r] = status[r] /\ raised'[r] = raised[r]
        /\ account[r] \in Account /\ raised[r] = "nothing" /\ status[r] = "success"
    BY <1>0, <2>1 DEF Consistent, StageOf, CauseOf, callVars
  <2>8. AnswerOf(r)' /\ RecordOf(r)' /\ WalkOf(r)'
    BY <1>0, <1>1, <2>1, EarlyKeeps DEF callVars
  <2>9. StageOf(r)' /\ CauseOf(r)'
    BY <1>1, <2>1, <2>2 DEF StageOf, CauseOf
  <2> QED
    BY <2>8, <2>9 DEF Consistent
<1> QED
  BY <1>2, <1>3, <1>4, StepOfOne

\* The compensating INCRBY is back.
LEMMA ReserveUndoKeeps ==
    ASSUME IInv, NEW r \in Request, ReserveUndo(r)
    PROVE  IInv'
<1> USE DEF IInv, ReserveUndo, Goto, Raise
<1>0. Budget!TypeOK /\ Consistent(r) /\ at[r] = "reserving"
  BY DEF TypeOK
<1>1. Budget!TypeOK' /\ OthersStay(r) /\ stage'[r] = "rejected"
  BY <1>0, UndoStep
<1>2. TypeOK'
  BY <1>1 DEF Statuses, TypeOK, callVars
<1>3. \A q \in Request \ {r} : Untouched(q)
  BY <1>1 DEF TypeOK, Untouched, OthersStay, callVars
<1>4. Consistent(r)'
  <2>1. /\ at'[r] = "handler" /\ status'[r] = "budget_exceeded"
        /\ raised'[r] = "gateway error" /\ UNCHANGED <<callVars, record>>
    BY DEF TypeOK
  <2>8. AnswerOf(r)' /\ RecordOf(r)' /\ WalkOf(r)'
    BY <1>0, <1>1, <2>1, EarlyKeeps DEF callVars
  <2>9. StageOf(r)' /\ CauseOf(r)'
    BY <1>0, <1>1, <2>1
    DEF Consistent, StageOf, CauseOf, Cause, callVars
  <2> QED
    BY <2>8, <2>9 DEF Consistent
<1> QED
  BY <1>2, <1>3, <1>4, StepOfOne

\* The registry answers: a chain to walk, an empty one, or one without an attempt.
LEMMA RouteKeeps ==
    ASSUME IInv, NEW r \in Request, NEW usable \in Routes, Route(r, usable)
    PROVE  IInv'
<1> USE DEF IInv, Route, Goto, Raise, GiveUp
<1>0. /\ Consistent(r) /\ at[r] = "route" /\ usable \in Seq(Backend)
      /\ Attempts(usable) \in Nat /\ status[r] = "success"
  BY RoutesAreChains, AttemptsType DEF Consistent, CauseOf
<1>1. TypeOK'
  BY <1>0, ZenonT(40) DEF Statuses, TypeOK, budgetVars, Budget!TypeOK
<1>2. \A q \in Request \ {r} : Untouched(q)
  BY ZenonT(40) DEF TypeOK, Untouched, budgetVars
<1>3. Consistent(r)'
  <2>1. /\ backends'[r] = usable
        /\ \/ /\ usable = <<>> /\ at'[r] = "handler"
              /\ status'[r] = "success" /\ raised'[r] = "gateway error"
           \/ at'[r] = "call" /\ status'[r] = status[r] /\ raised'[r] = raised[r]
           \/ /\ Attempts(usable) = 0 /\ usable # <<>> /\ at'[r] = "handler"
              /\ status'[r] = "all_providers_down" /\ raised'[r] = "gateway error"
    <3>1. CASE usable = <<>>
      BY <1>0, <3>1 DEF TypeOK
    <3>2. CASE usable # <<>> /\ Attempts(usable) > 0
      BY <1>0, <3>2 DEF TypeOK
    <3>3. CASE usable # <<>> /\ ~(Attempts(usable) > 0)
      <4> HIDE DEF GiveUp, Raise
      <4>1. GiveUp(r, "none")
        BY <3>3
      <4>2. Attempts(usable) = 0 /\ usable # <<>>
        BY <1>0, <3>3
      <4> QED
        BY <4>1, <4>2 DEF GiveUp, Raise, TypeOK
    <3> QED
      BY <3>1, <3>2, <3>3
  <2>0. UNCHANGED <<stage, call, billed, account, called, lastError, result, reported, record>>
    BY DEF budgetVars
  <2>2. /\ Attempts(backends'[r]) = Attempts(usable) /\ called'[r] = <<>>
        /\ reported'[r] = <<>> /\ lastError'[r] = "none"
    BY <1>0, <2>0, <2>1 DEF Consistent, WalkOf
  <2>3. StageOf(r)' /\ AnswerOf(r)' /\ RecordOf(r)'
    BY <1>0, <2>0, <2>1 DEF Consistent, StageOf, AnswerOf, RecordOf
  <2>4. CauseOf(r)'
    BY <1>0, <2>0, <2>1, <2>2 DEF Consistent, StageOf, CauseOf, Cause, Exhausted, Attempts
  <2>5. WalkOf(r)'
    <3> HIDE DEF IInv, Route
    <3>1. /\ Len(called'[r]) = 0 /\ Len(reported'[r]) = 0
          /\ Attempts(backends'[r]) = Attempts(usable) /\ 0 <= Attempts(usable)
      BY <1>0, <2>2
    <3>2. at'[r] \in {"call", "handler"}
      BY <2>1
    <3>3. Attempts(backends[r])' = Attempts(backends'[r])
      BY DEF Attempts
    <3> QED
      BY <2>2, <3>1, <3>2, <3>3 DEF WalkOf
  <2> QED
    BY <2>3, <2>4, <2>5 DEF Consistent
<1> QED
  BY <1>1, <1>2, <1>3, StepOfOne

-----------------------------------------------------------------------------
\* The chains of a request are sequences of backends.
LEMMA Sequences ==
    ASSUME TypeOK, NEW r \in Request
    PROVE  /\ backends[r] \in Seq(Backend) /\ Len(backends[r]) \in Nat
           /\ called[r] \in Seq(Backend) /\ Len(called[r]) \in Nat
           /\ reported[r] \in Seq(Backend \X {"success", "failure"})
           /\ Len(reported[r]) \in Nat
<1>1. /\ backends[r] \in Seq(Backend)
      /\ called[r] \in Seq(Backend)
      /\ reported[r] \in Seq(Backend \X {"success", "failure"})
  BY DEF TypeOK
<1> QED
  BY <1>1, LenProperties

\* The call of the next backend: it is the chain's, and the walk goes on in order.
LEMMA NextCall ==
    ASSUME TypeOK, NEW r \in Request, Consistent(r), at[r] = "call", MayCall(r),
           called' = [called EXCEPT ![r] = Append(@, NextBackend(r))]
    PROVE  /\ NextBackend(r) \in Backend
           /\ called' \in [Request -> Seq(Backend)]
           /\ \A q \in Request \ {r} : called'[q] = called[q]
           /\ Len(called'[r]) = Len(called[r]) + 1
           /\ Len(called'[r]) <= Attempts(backends[r])
           /\ called'[r][Len(called'[r])] = NextBackend(r)
           /\ \A i \in 1 .. Len(called'[r]) : called'[r][i] = backends[r][i]
           /\ \A i \in 1 .. Len(called[r]) : called'[r][i] = called[r][i]
<1> DEFINE s == called[r]
           n == Len(s) + 1
<1>1. /\ s \in Seq(Backend) /\ backends[r] \in Seq(Backend) /\ Len(s) \in Nat
      /\ Attempts(backends[r]) \in Nat /\ Attempts(backends[r]) <= Len(backends[r])
      /\ Len(s) < Attempts(backends[r])
  BY AttemptsType, Sequences DEF MayCall
<1>2. n \in 1 .. Len(backends[r]) /\ NextBackend(r) = backends[r][n]
  BY <1>1 DEF NextBackend
<1>3. NextBackend(r) \in Backend
  BY <1>1, <1>2
<1>4. called'[r] = Append(s, NextBackend(r)) /\ \A q \in Request \ {r} : called'[q] = called[q]
  BY DEF TypeOK
<1>5. /\ Append(s, NextBackend(r)) \in Seq(Backend)
      /\ Len(Append(s, NextBackend(r))) = n
      /\ Append(s, NextBackend(r))[n] = NextBackend(r)
      /\ \A i \in 1 .. Len(s) : Append(s, NextBackend(r))[i] = s[i]
  BY <1>1, <1>3
<1>6. \A i \in 1 .. n : i \in 1 .. Len(s) \/ i = n
  BY <1>1
<1>7. \A i \in 1 .. Len(s) : s[i] = backends[r][i]
  BY DEF Consistent, WalkOf
<1>8. called' \in [Request -> Seq(Backend)]
  BY <1>5 DEF TypeOK
<1> HIDE DEF s, n
<1>9. \A i \in 1 .. n : Append(s, NextBackend(r))[i] = backends[r][i]
  BY <1>2, <1>5, <1>6, <1>7
<1> QED
  BY <1>1, <1>3, <1>4, <1>5, <1>8, <1>9 DEF s, n

\* The backend answers.
LEMMA ProviderAnswersKeeps ==
    ASSUME IInv, NEW r \in Request, NEW n \in Usage(r), ProviderAnswers(r, n)
    PROVE  IInv'
<1>0. /\ TypeOK /\ Consistent(r) /\ at[r] = "call" /\ MayCall(r)
      /\ called' = [called EXCEPT ![r] = Append(@, NextBackend(r))]
      /\ stage[r] = "held" /\ raised[r] = "nothing" /\ status[r] = "success"
  BY DEF IInv, ProviderAnswers, Consistent, StageOf, CauseOf
<1>1. /\ NextBackend(r) \in Backend
      /\ called' \in [Request -> Seq(Backend)]
      /\ \A q \in Request \ {r} : called'[q] = called[q]
      /\ Len(called'[r]) = Len(called[r]) + 1
      /\ Len(called'[r]) <= Attempts(backends[r])
      /\ called'[r][Len(called'[r])] = NextBackend(r)
      /\ \A i \in 1 .. Len(called'[r]) : called'[r][i] = backends[r][i]
      /\ \A i \in 1 .. Len(called[r]) : called'[r][i] = called[r][i]
  BY <1>0, NextCall
<1>2. n \in Nat
  <2>1. call[r].tokens \in Nat
    BY <1>0, Reserved DEF TypeOK
  <2> QED
    BY <1>0, <2>1, TrackerAssumption DEF Usage, Budget!Usage
<1> DEFINE answer == [backend |-> NextBackend(r), tokens |-> n]
<1>3. answer \in Answer
  BY <1>1, <1>2 DEF Answer
<1>4. /\ result' = [result EXCEPT ![r] = answer]
      /\ at' = [at EXCEPT ![r] = "answered"]
      /\ UNCHANGED <<budgetVars, account, backends, lastError, reported, status, raised, record>>
  BY DEF ProviderAnswers, Goto
<1>5. answer.backend = NextBackend(r) /\ answer.tokens = n
  OBVIOUS
<1> HIDE DEF answer
<1>6. TypeOK'
  BY <1>0, <1>1, <1>3, <1>4 DEF TypeOK, budgetVars, Budget!TypeOK
<1>7. \A q \in Request \ {r} : Untouched(q)
  BY <1>0, <1>1, <1>4 DEF TypeOK, Untouched, budgetVars
<1>8. result'[r] = answer /\ at'[r] = "answered"
  BY <1>0, <1>4 DEF TypeOK
<1>9. Consistent(r)'
  <2>1. StageOf(r)' /\ CauseOf(r)' /\ RecordOf(r)'
    BY <1>0, <1>4, <1>8 DEF Consistent, StageOf, CauseOf, RecordOf, budgetVars
  <2>2. AnswerOf(r)'
    <3>1. n \in Usage(r)'
      BY <1>4 DEF Usage, Budget!Usage, budgetVars
    <3>2. called'[r] # <<>>
      <4>1. Len(called[r]) \in Nat
        BY <1>0, Sequences
      <4> QED
        BY <1>1, <4>1
    <3> QED
      BY <1>0, <1>1, <1>3, <1>4, <1>5, <1>8, <3>1, <3>2 DEF AnswerOf, budgetVars
  <2>3. WalkOf(r)'
    <3>1. Attempts(backends[r])' = Attempts(backends[r]) /\ reported'[r] = reported[r]
      BY <1>4 DEF Attempts
    <3>2. /\ Len(called[r]) \in Nat /\ Len(reported[r]) = Len(called[r])
          /\ \A i \in 1 .. Len(reported[r]) :
                /\ reported[r][i][1] = called[r][i]
                /\ reported[r][i][2] = "failure"
      BY <1>0, Sequences DEF Consistent, WalkOf
    <3>3. /\ Len(called'[r]) = Len(called[r]) + 1
          /\ Len(called'[r]) <= Attempts(backends'[r])
          /\ \A i \in 1 .. Len(called'[r]) : called'[r][i] = backends'[r][i]
          /\ \A i \in 1 .. Len(called[r]) : called'[r][i] = called[r][i]
      BY <1>1, <1>4
    <3> QED
      BY <1>8, <3>1, <3>2, <3>3 DEF WalkOf, Attempts
  <2> QED
    BY <2>1, <2>2, <2>3 DEF Consistent
<1> QED
  BY <1>6, <1>7, <1>9, StepOfOne

\* The backend fails.
LEMMA ProviderFailsKeeps ==
    ASSUME IInv, NEW r \in Request, NEW error \in {"timeout", "unavailable"},
           ProviderFails(r, error)
    PROVE  IInv'
<1>0. /\ TypeOK /\ Consistent(r) /\ at[r] = "call" /\ MayCall(r)
      /\ called' = [called EXCEPT ![r] = Append(@, NextBackend(r))]
      /\ stage[r] = "held" /\ raised[r] = "nothing" /\ status[r] = "success"
  BY DEF IInv, ProviderFails, Consistent, StageOf, CauseOf
<1>1. /\ called' \in [Request -> Seq(Backend)]
      /\ \A q \in Request \ {r} : called'[q] = called[q]
      /\ Len(called'[r]) = Len(called[r]) + 1
      /\ Len(called'[r]) <= Attempts(backends[r])
      /\ \A i \in 1 .. Len(called'[r]) : called'[r][i] = backends[r][i]
      /\ \A i \in 1 .. Len(called[r]) : called'[r][i] = called[r][i]
  BY <1>0, NextCall
<1>2. /\ lastError' = [lastError EXCEPT ![r] = error]
      /\ at' = [at EXCEPT ![r] = "failed"]
      /\ UNCHANGED <<budgetVars, account, backends, result, reported, status, raised, record>>
  BY DEF ProviderFails, Goto
<1>3. TypeOK'
  BY <1>0, <1>1, <1>2 DEF TypeOK, budgetVars, Budget!TypeOK
<1>4. \A q \in Request \ {r} : Untouched(q)
  BY <1>0, <1>1, <1>2 DEF TypeOK, Untouched, budgetVars
<1>5. lastError'[r] = error /\ at'[r] = "failed"
  BY <1>0, <1>2 DEF TypeOK
<1>6. Consistent(r)'
  <2>1. StageOf(r)' /\ CauseOf(r)' /\ RecordOf(r)' /\ AnswerOf(r)'
    BY <1>0, <1>2, <1>5 DEF Consistent, StageOf, CauseOf, RecordOf, AnswerOf, budgetVars
  <2>2. WalkOf(r)'
    <3>1. Attempts(backends[r])' = Attempts(backends[r]) /\ reported'[r] = reported[r]
      BY <1>2 DEF Attempts
    <3>2. /\ Len(called[r]) \in Nat /\ Len(reported[r]) = Len(called[r])
          /\ \A i \in 1 .. Len(reported[r]) :
                /\ reported[r][i][1] = called[r][i]
                /\ reported[r][i][2] = "failure"
      BY <1>0, Sequences DEF Consistent, WalkOf
    <3> QED
      BY <1>1, <1>2, <1>5, <3>1, <3>2 DEF WalkOf
  <2> QED
    BY <2>1, <2>2 DEF Consistent
<1> QED
  BY <1>3, <1>4, <1>6, StepOfOne

\* The report of a call that has ended: with it every call is reported.
LEMMA Reported ==
    ASSUME TypeOK, NEW r \in Request, Consistent(r), at[r] \in {"answered", "failed"},
           NEW outcome \in {"success", "failure"}, Report(r, outcome)
    PROVE  /\ reported' \in [Request -> Seq(Backend \X {"success", "failure"})]
           /\ \A q \in Request \ {r} : reported'[q] = reported[q]
           /\ Len(reported'[r]) = Len(called[r])
           /\ \A i \in 1 .. Len(reported'[r]) : reported'[r][i][1] = called[r][i]
           /\ \A i \in 1 .. Len(reported'[r]) :
                 reported'[r][i][2] = "success" => i = Len(called[r]) /\ outcome = "success"
           /\ outcome = "failure" =>
                 \A i \in 1 .. Len(reported'[r]) : reported'[r][i][2] = "failure"
<1> DEFINE s == reported[r]
           n == Len(called[r])
           x == <<called[r][n], outcome>>
<1>1. /\ called[r] \in Seq(Backend) /\ n \in Nat
      /\ s \in Seq(Backend \X {"success", "failure"}) /\ Len(s) \in Nat
      /\ Len(s) + 1 = n
      /\ \A i \in 1 .. Len(s) : s[i][1] = called[r][i] /\ s[i][2] = "failure"
  BY Sequences DEF Consistent, WalkOf
<1>2. n \in 1 .. n /\ x \in Backend \X {"success", "failure"}
  BY <1>1
<1>3. x[1] = called[r][n] /\ x[2] = outcome
  OBVIOUS
<1>4. reported' = [reported EXCEPT ![r] = Append(s, x)]
  BY DEF Report
<1> HIDE DEF s, n, x
<1>5. /\ Append(s, x) \in Seq(Backend \X {"success", "failure"})
      /\ Len(Append(s, x)) = n
      /\ Append(s, x)[n] = x
      /\ \A i \in 1 .. Len(s) : Append(s, x)[i] = s[i]
  BY <1>1, <1>2, AppendProperties
<1>6. \A i \in 1 .. n : i \in 1 .. Len(s) \/ i = n
  BY <1>1
<1>7. /\ reported' \in [Request -> Seq(Backend \X {"success", "failure"})]
      /\ \A q \in Request \ {r} : reported'[q] = reported[q]
      /\ reported'[r] = Append(s, x)
  BY <1>4, <1>5 DEF TypeOK
<1>8. \A i \in 1 .. n : Append(s, x)[i][1] = called[r][i]
  BY <1>1, <1>3, <1>5, <1>6
<1>9. \A i \in 1 .. n : \/ Append(s, x)[i][2] = "failure"
                        \/ i = n /\ Append(s, x)[i][2] = outcome
  BY <1>1, <1>3, <1>5, <1>6
<1> QED
  BY <1>5, <1>7, <1>8, <1>9 DEF n

\* The breaker was told of the answer.
LEMMA RecordSuccessKeeps ==
    ASSUME IInv, NEW r \in Request, RecordSuccess(r)
    PROVE  IInv'
<1>0. TypeOK /\ Consistent(r) /\ at[r] = "answered" /\ Report(r, "success")
  BY DEF IInv, RecordSuccess
<1>1. /\ reported' \in [Request -> Seq(Backend \X {"success", "failure"})]
      /\ \A q \in Request \ {r} : reported'[q] = reported[q]
      /\ Len(reported'[r]) = Len(called[r])
      /\ \A i \in 1 .. Len(reported'[r]) : reported'[r][i][1] = called[r][i]
      /\ \A i \in 1 .. Len(reported'[r]) :
            reported'[r][i][2] = "success" => i = Len(called[r])
  BY <1>0, Reported
<1>2. /\ at' = [at EXCEPT ![r] = "reconcile"]
      /\ UNCHANGED <<budgetVars, account, backends, called, lastError, result, status, raised, record>>
  BY DEF RecordSuccess, Goto
<1>3. TypeOK'
  BY <1>0, <1>1, <1>2 DEF TypeOK, budgetVars, Budget!TypeOK
<1>4. \A q \in Request \ {r} : Untouched(q)
  BY <1>0, <1>1, <1>2 DEF TypeOK, Untouched, budgetVars
<1>5. at'[r] = "reconcile"
  BY <1>0, <1>2 DEF TypeOK
<1>6. StageOf(r)' /\ CauseOf(r)' /\ RecordOf(r)' /\ AnswerOf(r)'
  <2>1. StageOf(r)' /\ CauseOf(r)' /\ RecordOf(r)'
    BY <1>0, <1>2, <1>5 DEF Consistent, StageOf, CauseOf, RecordOf, budgetVars
  <2>2. Usage(r)' = Usage(r)
    BY <1>2 DEF Usage, Budget!Usage, budgetVars
  <2>3. AnswerOf(r)'
    BY <1>0, <1>2, <1>5, <2>2 DEF Consistent, AnswerOf, budgetVars
  <2> QED
    BY <2>1, <2>3
<1>7. WalkOf(r)'
  <2>1. Attempts(backends[r])' = Attempts(backends[r])
    BY <1>2 DEF Attempts
  <2>2. /\ Len(called[r]) \in Nat /\ Len(called[r]) <= Attempts(backends[r])
        /\ \A i \in 1 .. Len(called[r]) : called[r][i] = backends[r][i]
    BY <1>0, Sequences DEF Consistent, WalkOf
  <2> QED
    BY <1>1, <1>2, <1>5, <2>1, <2>2 DEF WalkOf
<1> QED
  BY <1>3, <1>4, <1>6, <1>7, StepOfOne DEF Consistent

\* The breaker was told of the failure: the next backend, or the end of the walk.
LEMMA RecordFailureKeeps ==
    ASSUME IInv, NEW r \in Request, RecordFailure(r)
    PROVE  IInv'
<1>0. /\ TypeOK /\ Consistent(r) /\ at[r] = "failed" /\ Report(r, "failure")
      /\ lastError[r] \in {"timeout", "unavailable"} /\ stage[r] = "held"
      /\ raised[r] = "nothing" /\ status[r] = "success"
  BY DEF IInv, RecordFailure, Consistent, WalkOf, StageOf, CauseOf
<1>1. /\ reported' \in [Request -> Seq(Backend \X {"success", "failure"})]
      /\ \A q \in Request \ {r} : reported'[q] = reported[q]
      /\ Len(reported'[r]) = Len(called[r])
      /\ \A i \in 1 .. Len(reported'[r]) : reported'[r][i][1] = called[r][i]
      /\ \A i \in 1 .. Len(reported'[r]) : reported'[r][i][2] = "failure"
  BY <1>0, Reported
<1> DEFINE end == IF lastError[r] = "timeout" THEN "timeout" ELSE "all_providers_down"
<1>2. UNCHANGED <<budgetVars, account, backends, called, lastError, result, record>>
  BY DEF RecordFailure
<1>3. /\ Len(called[r]) \in Nat /\ Len(called[r]) <= Attempts(backends[r])
      /\ Attempts(backends[r]) \in Nat
      /\ \A i \in 1 .. Len(called[r]) : called[r][i] = backends[r][i]
  BY <1>0, Sequences, AttemptsType DEF Consistent, WalkOf
<1>12. backends[r] # <<>>
  <2>1. Len(reported[r]) \in Nat /\ Len(reported[r]) + 1 = Len(called[r])
    BY <1>0, Sequences DEF Consistent, WalkOf
  <2>2. Attempts(backends[r]) <= Len(backends[r]) /\ Len(backends[r]) \in Nat
    BY <1>0, Sequences, AttemptsType
  <2> QED
    BY <1>3, <2>1, <2>2
<1>4. \/ at' = [at EXCEPT ![r] = "call"] /\ UNCHANGED <<status, raised>>
      \/ /\ at' = [at EXCEPT ![r] = "handler"]
         /\ status' = [status EXCEPT ![r] = end]
         /\ raised' = [raised EXCEPT ![r] = "gateway error"]
         /\ Len(called[r]) = Attempts(backends[r])
  <2>1. CASE MayCall(r)
    BY <2>1 DEF RecordFailure, Goto
  <2>2. CASE ~MayCall(r)
    <3>1. Len(called[r]) = Attempts(backends[r])
      BY <1>3, <2>2 DEF MayCall
    <3>2. GiveUp(r, lastError[r])
      BY <2>2 DEF RecordFailure
    <3> QED
      BY <3>1, <3>2 DEF GiveUp, Raise, Goto
  <2> QED
    BY <2>1, <2>2
<1>5. TypeOK'
  <2>1. /\ at' \in [Request -> {"new", "limit", "reserve", "reserving", "route", "call",
                                "answered", "failed", "reconcile", "handler", "sink",
                                "done"}]
        /\ status' \in [Request -> Statuses]
        /\ raised' \in [Request -> {"nothing", "gateway error", "other error"}]
    <3>1. CASE at' = [at EXCEPT ![r] = "call"] /\ UNCHANGED <<status, raised>>
      BY <1>0, <3>1 DEF TypeOK, Statuses
    <3>2. CASE /\ at' = [at EXCEPT ![r] = "handler"]
               /\ status' = [status EXCEPT ![r] = end]
               /\ raised' = [raised EXCEPT ![r] = "gateway error"]
      BY <1>0, <3>2 DEF TypeOK, Statuses
    <3> QED
      BY <1>4, <3>1, <3>2
  <2> QED
    BY <1>0, <1>1, <1>2, <2>1 DEF TypeOK, budgetVars, Budget!TypeOK
<1>6. \A q \in Request \ {r} : Untouched(q)
  BY <1>0, <1>1, <1>2, <1>4, ZenonT(40) DEF TypeOK, Untouched, budgetVars
<1>7. \/ at'[r] = "call" /\ status'[r] = "success" /\ raised'[r] = "nothing"
      \/ /\ at'[r] = "handler" /\ status'[r] = end /\ lastError'[r] = lastError[r]
         /\ raised'[r] = "gateway error" /\ Len(called[r]) = Attempts(backends[r])
         /\ backends[r] # <<>>
  BY <1>0, <1>2, <1>4, <1>12 DEF TypeOK
<1>8. Attempts(backends[r])' = Attempts(backends[r])
  BY <1>2 DEF Attempts
<1>9. StageOf(r)' /\ RecordOf(r)' /\ AnswerOf(r)'
  BY <1>0, <1>2, <1>7 DEF Consistent, StageOf, RecordOf, AnswerOf, budgetVars
<1>10. CauseOf(r)'
  BY <1>0, <1>2, <1>7, <1>8 DEF CauseOf, Cause, Exhausted, budgetVars
<1>11. WalkOf(r)'
  <2>1. called'[r] = called[r] /\ backends'[r] = backends[r]
    BY <1>2
  <2>2. at'[r] \in {"call", "handler"}
    BY <1>7
  <2> QED
    BY <1>1, <1>3, <1>8, <2>1, <2>2 DEF WalkOf
<1> QED
  BY <1>5, <1>6, <1>9, <1>10, <1>11, StepOfOne DEF Consistent

-----------------------------------------------------------------------------
\* A request that is past its last call walks no further.
LEMMA WalkEnds ==
    ASSUME NEW r \in Request, Consistent(r), UNCHANGED <<callVars>>,
           \/ at[r] \notin {"answered", "failed"} /\ at'[r] = at[r]
           \/ at'[r] \in {"sink", "done"}
    PROVE  WalkOf(r)'
<1>1. /\ called'[r] = called[r] /\ backends'[r] = backends[r]
      /\ reported'[r] = reported[r] /\ lastError'[r] = lastError[r]
  BY DEF callVars
<1>2. Attempts(backends[r])' = Attempts(backends[r])
  BY <1>1 DEF Attempts
<1> QED
  BY <1>1, <1>2 DEF WalkOf, Consistent

\* The answer is billed.
LEMMA ReconcileKeeps ==
    ASSUME IInv, NEW r \in Request, Reconcile(r)
    PROVE  IInv'
<1>0. /\ TypeOK /\ Consistent(r) /\ at[r] = "reconcile" /\ record[r] = None
      /\ Budget!Reconcile(r, result[r].tokens)
      /\ result[r] \in Answer /\ result[r].tokens \in Nat
      /\ raised[r] = "nothing" /\ status[r] = "success"
  BY DEF IInv, Reconcile, Consistent, AnswerOf, RecordOf, CauseOf, Answer
<1>1. /\ Budget!TypeOK' /\ OthersStay(r) /\ stage'[r] = "reconciled"
      /\ billed'[r] = result[r].tokens
  BY <1>0, ReconcileStep DEF TypeOK
<1>2. at' = [at EXCEPT ![r] = "sink"] /\ UNCHANGED <<callVars, status, raised, record>>
  BY DEF Reconcile, Goto
<1>3. TypeOK'
  BY <1>0, <1>1, <1>2 DEF TypeOK, callVars
<1>4. \A q \in Request \ {r} : Untouched(q)
  BY <1>0, <1>1, <1>2 DEF TypeOK, Untouched, OthersStay, callVars
<1>5. at'[r] = "sink"
  BY <1>0, <1>2 DEF TypeOK
<1>6. WalkOf(r)'
  BY <1>0, <1>2, <1>5, WalkEnds
<1>7. StageOf(r)' /\ CauseOf(r)' /\ RecordOf(r)'
  BY <1>0, <1>1, <1>2, <1>5 DEF Consistent, StageOf, CauseOf, RecordOf, callVars
<1>8. AnswerOf(r)'
  BY <1>0, <1>1, <1>2, <1>5 DEF Consistent, AnswerOf, callVars
<1> QED
  BY <1>3, <1>4, <1>6, <1>7, <1>8, StepOfOne DEF Consistent

\* The except block has run.
LEMMA HandleErrorKeeps ==
    ASSUME IInv, NEW r \in Request, HandleError(r)
    PROVE  IInv'
<1>0. /\ TypeOK /\ Consistent(r) /\ at[r] = "handler" /\ record[r] = None
      /\ raised[r] = "gateway error" /\ Cause(r, "success", "held")
  BY DEF IInv, HandleError, Consistent, CauseOf, RecordOf
<1>1. /\ at' = [at EXCEPT ![r] = "sink"]
      /\ status' = [status EXCEPT ![r] = IF @ = "success" THEN "provider_error" ELSE @]
      /\ UNCHANGED <<callVars, raised, record>>
  BY DEF HandleError, Goto
<1>2. /\ Budget!TypeOK' /\ OthersStay(r)
      /\ \/ stage[r] = "held" /\ status[r] # "success" /\ stage'[r] = "released"
         \/ ~(stage[r] = "held" /\ status[r] # "success") /\ stage'[r] = stage[r]
  <2>1. CASE stage[r] = "held" /\ status[r] # "success"
    BY <1>0, <2>1, ReleaseStep DEF HandleError, TypeOK
  <2>2. CASE ~(stage[r] = "held" /\ status[r] # "success")
    BY <1>0, <2>2 DEF HandleError, TypeOK, budgetVars, OthersStay, Budget!TypeOK
  <2> QED
    BY <2>1, <2>2
<1>3. TypeOK'
  BY <1>0, <1>1, <1>2 DEF TypeOK, Statuses, callVars
<1>4. \A q \in Request \ {r} : Untouched(q)
  BY <1>0, <1>1, <1>2 DEF TypeOK, Untouched, OthersStay, callVars
<1>5. /\ at'[r] = "sink"
      /\ status'[r] = IF status[r] = "success" THEN "provider_error" ELSE status[r]
  BY <1>0, <1>1 DEF TypeOK
<1>6. WalkOf(r)'
  BY <1>0, <1>1, <1>5, WalkEnds
<1>7. Attempts(backends[r])' = Attempts(backends[r])
  BY <1>1 DEF Attempts, callVars
<1>8. Cause(r, "provider_error", "released")' /\ stage'[r] # "reconciled"
  BY <1>0, <1>1, <1>2, <1>5, <1>7 DEF Cause, Exhausted, callVars
<1>9. StageOf(r)' /\ CauseOf(r)' /\ RecordOf(r)' /\ AnswerOf(r)'
  BY <1>0, <1>1, <1>2, <1>5, <1>8
  DEF Consistent, StageOf, CauseOf, RecordOf, AnswerOf, callVars
<1> QED
  BY <1>3, <1>4, <1>6, <1>9, StepOfOne DEF Consistent

\* The finally block has run.
LEMMA WriteRecordKeeps ==
    ASSUME IInv, NEW r \in Request, WriteRecord(r)
    PROVE  IInv'
<1>0. TypeOK /\ Consistent(r) /\ at[r] = "sink"
  BY DEF IInv, WriteRecord
<1>1. /\ at' = [at EXCEPT ![r] = "done"]
      /\ UNCHANGED <<budgetVars, callVars, status, raised>>
  BY DEF WriteRecord, Goto
<1>10. PICK key \in RecordKeys(r) : record' = [record EXCEPT ![r] = UsageRecord(r, key)]
  BY DEF WriteRecord
<1>11. UsageRecord(r, key) \in Records
  <2>1. account[r] \in Account /\ status[r] \in Statuses
    BY <1>0 DEF Consistent, StageOf, TypeOK
  <2>2. result[r] # None => result[r].backend \in Backend /\ result[r].tokens \in Nat
    BY <1>0 DEF TypeOK, Answer
  <2>3. called[r] # <<>> => Len(called[r]) - 1 \in Nat
    BY <1>0, Sequences, EmptySeq
  <2>4. key \in Budget!Day \cup {None}
    BY <1>0, Reserved DEF RecordKeys, Budget!Call, TypeOK
  <2> QED
    BY <2>1, <2>2, <2>3, <2>4 DEF UsageRecord, Records
<1>2. TypeOK'
  <2>1. record' \in [Request -> Records \cup {None}]
    BY <1>0, <1>10, <1>11 DEF TypeOK
  <2> QED
    BY <1>0, <1>1, <2>1 DEF TypeOK, callVars, budgetVars, Budget!TypeOK
<1>3. at'[r] = "done"
  BY <1>0, <1>1 DEF TypeOK
<1>4. \A q \in Request \ {r} : Untouched(q)
  BY <1>0, <1>1, <1>10 DEF TypeOK, Untouched, callVars, budgetVars
<1>5. WalkOf(r)'
  BY <1>0, <1>1, <1>3, WalkEnds
<1>6. Attempts(backends[r])' = Attempts(backends[r])
  BY <1>1 DEF Attempts, callVars
<1>7. StageOf(r)' /\ CauseOf(r)' /\ AnswerOf(r)'
  BY <1>0, <1>1, <1>3, <1>6
  DEF Consistent, StageOf, CauseOf, Cause, Exhausted, AnswerOf, callVars, budgetVars
<1>8. RecordOf(r)'
  <2>1. record'[r] = UsageRecord(r, key) /\ UsageRecord(r, key).status = status[r]
    BY <1>0, <1>10 DEF TypeOK, UsageRecord
  <2>2. ASSUME stage[r] = "reconciled"
        PROVE  /\ UsageRecord(r, key).status = "success"
               /\ UsageRecord(r, key).tokens = billed[r]
               /\ UsageRecord(r, key).budget_period_key = call[r].period_key
               /\ UsageRecord(r, key).backend_id = called[r][Len(called[r])]
    <3>1. result[r] # None
      BY <1>0, <2>2, NoneAssumption DEF Consistent, AnswerOf
    <3> QED
      BY <1>0, <2>2, <3>1 DEF Consistent, AnswerOf, CauseOf, UsageRecord, RecordKeys
  <2>3. UsageRecord(r, key) # None
    BY <1>11, NoneAssumption
  <2> QED
    BY <1>1, <1>3, <2>1, <2>2, <2>3 DEF RecordOf, callVars, budgetVars
<1> QED
  BY <1>2, <1>4, <1>5, <1>7, <1>8, StepOfOne DEF Consistent

-----------------------------------------------------------------------------
\* An error of another kind leaves a reservation that is held, if there is one, lost.
LEMMA EscapeStep ==
    ASSUME IInv, NEW r \in Request, Escape(r),
           at[r] \in {"limit", "reserving", "route", "call", "answered", "failed",
                      "reconcile", "handler"},
           account' = account
    PROVE  /\ Budget!TypeOK' /\ OthersStay(r)
           /\ at' \in [Request -> {"new", "limit", "reserve", "reserving", "route", "call",
                                   "answered", "failed", "reconcile", "handler", "sink",
                                   "done"}]
           /\ raised' \in [Request -> {"nothing", "gateway error", "other error"}]
           /\ \A q \in Request \ {r} : at'[q] = at[q] /\ raised'[q] = raised[q]
           /\ at'[r] = "sink" /\ raised'[r] = "other error"
           /\ UNCHANGED <<status, record>>
           /\ record[r] = None
           /\ stage'[r] \notin {"reserving", "blocked", "held", "reconciled"}
           /\ StageOf(r)'
<1>0. TypeOK /\ Consistent(r)
  BY DEF IInv
<1>1. /\ at' = [at EXCEPT ![r] = "sink"]
      /\ raised' = [raised EXCEPT ![r] = "other error"]
      /\ UNCHANGED <<status, record>>
  BY DEF Escape, Goto
<1>2. /\ Budget!TypeOK' /\ OthersStay(r)
      /\ stage'[r] \notin {"reserving", "blocked", "held", "reconciled"}
  <2>1. CASE stage[r] \in {"reserving", "blocked", "held"}
    BY <1>0, <2>1, DieStep DEF Escape, TypeOK
  <2>2. CASE stage[r] \notin {"reserving", "blocked", "held"}
    <3>1. UNCHANGED budgetVars
      BY <2>2 DEF Escape
    <3>2. stage[r] # "reconciled"
      BY <1>0 DEF Consistent, StageOf
    <3> QED
      BY <1>0, <2>2, <3>1, <3>2 DEF TypeOK, budgetVars, OthersStay, Budget!TypeOK
  <2> QED
    BY <2>1, <2>2
<1>3. record[r] = None /\ account[r] \in Account
  BY <1>0 DEF Consistent, RecordOf, StageOf
<1>4. at'[r] = "sink" /\ raised'[r] = "other error"
  BY <1>0, <1>1 DEF TypeOK
<1>5. StageOf(r)'
  BY <1>2, <1>3, <1>4 DEF StageOf
<1> QED
  BY <1>0, <1>1, <1>2, <1>3, <1>4, <1>5 DEF TypeOK

\* The limiter, the tracker, the registry or the breaker raised it.
LEMMA RedisFailsKeeps ==
    ASSUME IInv, NEW r \in Request, RedisFails(r)
    PROVE  IInv'
<1>0. TypeOK /\ Consistent(r) /\ UNCHANGED callVars /\ Escape(r)
  BY DEF IInv, RedisFails
<1>1. at[r] \in {"limit", "reserving", "route", "call", "answered", "failed",
                 "reconcile", "handler"}
  BY DEF RedisFails
<1>2. /\ Budget!TypeOK' /\ OthersStay(r)
      /\ at' \in [Request -> {"new", "limit", "reserve", "reserving", "route", "call",
                              "answered", "failed", "reconcile", "handler", "sink",
                              "done"}]
      /\ raised' \in [Request -> {"nothing", "gateway error", "other error"}]
      /\ \A q \in Request \ {r} : at'[q] = at[q] /\ raised'[q] = raised[q]
      /\ at'[r] = "sink" /\ raised'[r] = "other error"
      /\ UNCHANGED <<status, record>>
      /\ record[r] = None
      /\ stage'[r] \notin {"reserving", "blocked", "held", "reconciled"}
      /\ StageOf(r)'
  BY <1>0, <1>1, EscapeStep DEF callVars
<1>3. TypeOK'
  BY <1>0, <1>2 DEF TypeOK, callVars
<1>4. \A q \in Request \ {r} : Untouched(q)
  BY <1>0, <1>2 DEF Untouched, OthersStay, callVars
<1>5. WalkOf(r)'
  BY <1>0, <1>2, WalkEnds
<1>6. CauseOf(r)' /\ RecordOf(r)' /\ AnswerOf(r)'
  BY <1>2 DEF CauseOf, RecordOf, AnswerOf
<1> QED
  BY <1>2, <1>3, <1>4, <1>5, <1>6, StepOfOne DEF Consistent

\* The provider raised it.
LEMMA ProviderRaisesKeeps ==
    ASSUME IInv, NEW r \in Request, ProviderRaises(r)
    PROVE  IInv'
<1>0. /\ TypeOK /\ Consistent(r) /\ at[r] = "call" /\ MayCall(r)
      /\ called' = [called EXCEPT ![r] = Append(@, NextBackend(r))]
      /\ UNCHANGED <<account, backends, lastError, result, reported>>
      /\ Escape(r)
  BY DEF IInv, ProviderRaises
<1>1. /\ called' \in [Request -> Seq(Backend)]
      /\ \A q \in Request \ {r} : called'[q] = called[q]
      /\ Len(called'[r]) = Len(called[r]) + 1
      /\ Len(called'[r]) <= Attempts(backends[r])
      /\ \A i \in 1 .. Len(called'[r]) : called'[r][i] = backends[r][i]
      /\ \A i \in 1 .. Len(called[r]) : called'[r][i] = called[r][i]
  BY <1>0, NextCall
<1>2. /\ Budget!TypeOK' /\ OthersStay(r)
      /\ at' \in [Request -> {"new", "limit", "reserve", "reserving", "route", "call",
                              "answered", "failed", "reconcile", "handler", "sink",
                              "done"}]
      /\ raised' \in [Request -> {"nothing", "gateway error", "other error"}]
      /\ \A q \in Request \ {r} : at'[q] = at[q] /\ raised'[q] = raised[q]
      /\ at'[r] = "sink" /\ raised'[r] = "other error"
      /\ UNCHANGED <<status, record>>
      /\ record[r] = None
      /\ stage'[r] \notin {"reserving", "blocked", "held", "reconciled"}
      /\ StageOf(r)'
  BY <1>0, EscapeStep
<1>3. TypeOK'
  BY <1>0, <1>1, <1>2 DEF TypeOK
<1>4. \A q \in Request \ {r} : Untouched(q)
  BY <1>0, <1>1, <1>2 DEF Untouched, OthersStay
<1>5. WalkOf(r)'
  <2>1. Attempts(backends[r])' = Attempts(backends[r]) /\ reported'[r] = reported[r]
        /\ backends'[r] = backends[r]
    BY <1>0 DEF Attempts
  <2>2. /\ Len(called[r]) \in Nat /\ Len(reported[r]) = Len(called[r])
        /\ \A i \in 1 .. Len(reported[r]) :
              /\ reported[r][i][1] = called[r][i]
              /\ reported[r][i][2] = "failure"
    BY <1>0, Sequences DEF Consistent, WalkOf
  <2>3. /\ Len(called'[r]) = Len(called[r]) + 1
        /\ Len(called'[r]) <= Attempts(backends'[r])
        /\ \A i \in 1 .. Len(called'[r]) : called'[r][i] = backends'[r][i]
        /\ \A i \in 1 .. Len(called[r]) : called'[r][i] = called[r][i]
        /\ at'[r] = "sink"
    BY <1>1, <1>2, <2>1
  <2> QED
    BY <2>1, <2>2, <2>3, SMTT(20) DEF WalkOf, Attempts
<1>6. CauseOf(r)' /\ RecordOf(r)' /\ AnswerOf(r)'
  BY <1>2 DEF CauseOf, RecordOf, AnswerOf
<1> QED
  BY <1>2, <1>3, <1>4, <1>5, <1>6, StepOfOne DEF Consistent

\* The sink raised it.
LEMMA SinkFailsKeeps ==
    ASSUME IInv, NEW r \in Request, SinkFails(r)
    PROVE  IInv'
<1>0. TypeOK /\ Consistent(r) /\ at[r] = "sink" /\ record[r] = None
  BY DEF IInv, SinkFails, Consistent, RecordOf
<1>1. /\ at' = [at EXCEPT ![r] = "done"]
      /\ raised' = [raised EXCEPT ![r] = "other error"]
      /\ UNCHANGED <<budgetVars, callVars, status, record>>
  BY DEF SinkFails, Goto
<1>2. TypeOK'
  BY <1>0, <1>1 DEF TypeOK, callVars, budgetVars, Budget!TypeOK
<1>3. at'[r] = "done" /\ raised'[r] = "other error"
  BY <1>0, <1>1 DEF TypeOK
<1>4. \A q \in Request \ {r} : Untouched(q)
  BY <1>0, <1>1 DEF TypeOK, Untouched, callVars, budgetVars
<1>5. WalkOf(r)'
  BY <1>0, <1>1, <1>3, WalkEnds
<1>6. StageOf(r)' /\ AnswerOf(r)' /\ RecordOf(r)'
  BY <1>0, <1>1, <1>3
  DEF Consistent, StageOf, AnswerOf, RecordOf, callVars, budgetVars
<1>7. CauseOf(r)'
  <2>1. raised[r] \in {"nothing", "gateway error", "other error"}
    BY <1>0 DEF TypeOK
  <2>2. stage[r] = "held" => backends[r] = <<>>
    BY <1>0, <2>1 DEF Consistent, CauseOf, Cause
  <2>3. stage[r] = "reconciled" => status[r] = "success"
    BY <1>0 DEF Consistent, CauseOf
  <2> QED
    BY <1>1, <1>3, <2>2, <2>3 DEF CauseOf, callVars, budgetVars
<1> QED
  BY <1>2, <1>4, <1>5, <1>6, <1>7, StepOfOne DEF Consistent

-----------------------------------------------------------------------------
\* The invariant is inductive: one case for each action.
LEMMA StepHolds == IInv /\ [Next]_vars => IInv'
<1> SUFFICES ASSUME IInv, [Next]_vars PROVE IInv'
  OBVIOUS
<1>1. ASSUME NEW r \in Request, NEW a \in Account, ResolvePolicies(r, a) PROVE IInv'
  BY <1>1, ResolvePoliciesKeeps
<1>2. ASSUME NEW r \in Request, Proceed(r) PROVE IInv'
  <2>1. CASE CheckRate(r)
    BY <2>1, CheckRateKeeps
  <2>2. CASE \E est \in Estimate : Reserve(r, est)
    BY <2>2, ReserveKeeps
  <2>3. CASE ReserveCharge(r)
    BY <2>3, ReserveChargeKeeps
  <2>4. CASE ReserveUndo(r)
    BY <2>4, ReserveUndoKeeps
  <2>5. CASE \E usable \in Routes : Route(r, usable)
    BY <2>5, RouteKeeps
  <2>6. CASE \E n \in Usage(r) : ProviderAnswers(r, n)
    BY <2>6, ProviderAnswersKeeps
  <2>7. CASE \E error \in {"timeout", "unavailable"} : ProviderFails(r, error)
    BY <2>7, ProviderFailsKeeps
  <2>8. CASE RecordSuccess(r)
    BY <2>8, RecordSuccessKeeps
  <2>9. CASE RecordFailure(r)
    BY <2>9, RecordFailureKeeps
  <2>10. CASE Reconcile(r)
    BY <2>10, ReconcileKeeps
  <2>11. CASE HandleError(r)
    BY <2>11, HandleErrorKeeps
  <2>12. CASE WriteRecord(r)
    BY <2>12, WriteRecordKeeps
  <2>13. CASE RedisFails(r)
    BY <2>13, RedisFailsKeeps
  <2>14. CASE ProviderRaises(r)
    BY <2>14, ProviderRaisesKeeps
  <2>15. CASE SinkFails(r)
    BY <2>15, SinkFailsKeeps
  <2> QED
    BY <1>2, <2>1, <2>2, <2>3, <2>4, <2>5, <2>6, <2>7, <2>8, <2>9, <2>10, <2>11, <2>12,
       <2>13, <2>14, <2>15 DEF Proceed
<1>3. ASSUME UNCHANGED <<counter, stage, call, billed>>, clock' \in Budget!Day,
             UNCHANGED <<callVars, at, status, raised, record>>
      PROVE  IInv'
  <2>1. TypeOK'
    BY <1>3 DEF IInv, TypeOK, Budget!TypeOK, callVars
  <2>2. \A q \in Request : Untouched(q)
    BY <1>3 DEF Untouched, callVars
  <2> QED
    BY <2>1, <2>2, UntouchedKeeps DEF IInv
<1>4. CASE Tick
  <2>1. clock' \in Budget!Day
    <3>1. clock \in 0 .. MaxDay
      BY DEF IInv, TypeOK, Budget!TypeOK, Budget!Day
    <3>2. clock < MaxDay /\ clock' = clock + 1
      BY <1>4 DEF Tick, Budget!Tick
    <3> QED
      BY <3>1, <3>2, TrackerAssumption DEF Budget!Day
  <2> QED
    BY <1>3, <1>4, <2>1 DEF Tick, Budget!Tick
<1>5. CASE Done \/ UNCHANGED vars
  <2>1. clock' \in Budget!Day
    BY <1>5 DEF Done, vars, budgetVars, IInv, TypeOK, Budget!TypeOK
  <2> QED
    BY <1>3, <1>5, <2>1 DEF Done, vars, budgetVars
<1> QED
  BY <1>1, <1>2, <1>4, <1>5 DEF Next

\* Every reachable state satisfies the inductive invariant.
THEOREM ServiceInvariant == Spec => []IInv
BY InitHolds, StepHolds, PTL DEF Spec

\* The locals of every request stay well formed.
THEOREM ServiceTypeCorrect == Spec => []TypeOK
<1>1. IInv => TypeOK
  BY DEF IInv
<1> QED
  BY <1>1, ServiceInvariant, PTL

\* A request that is over keeps budget only for what it used, unless there was no
\* backend for it; a reservation is lost only with an error that is no GatewayError.
THEOREM ServiceSettles == Spec => []ReservationsSettled
<1>1. IInv => ReservationsSettled
  <2> SUFFICES ASSUME IInv, NEW r \in Request, at[r] = "done"
               PROVE  /\ Answered(r) => stage[r] = "reconciled"
                      /\ stage[r] = "held" => ~Answered(r) /\ backends[r] = <<>>
                      /\ stage[r] \in {"leaked", "stray", "failed"} => Broken(r)
    BY DEF ReservationsSettled
  <2>1. raised[r] \in {"nothing", "gateway error", "other error"}
    BY DEF IInv, TypeOK
  <2> QED
    BY <2>1 DEF IInv, Consistent, CauseOf, Cause, Answered, Broken
<1> QED
  BY <1>1, ServiceInvariant, PTL

\* What a request reconciled is recorded as a success with the same tokens, against
\* the same period and for the backend that answered.
THEOREM ServiceRecordsMatch == Spec => []RecordMatchesBudget
<1>1. IInv => RecordMatchesBudget
  BY DEF IInv, Consistent, RecordOf, RecordMatchesBudget
<1> QED
  BY <1>1, ServiceInvariant, PTL

\* An answered or a refused request has a usage record, and its status is the one that
\* what befell the request deserves; a timeout or all_providers_down stands for a walk
\* that had a backend and made every attempt.
THEOREM ServiceTellsCause == Spec => []StatusTellsCause
<1>1. IInv => StatusTellsCause
  <2> SUFFICES ASSUME IInv, NEW r \in Request, Answered(r) \/ Refused(r)
               PROVE  /\ record[r] # None
                      /\ record[r].status = Verdict(r)
                      /\ record[r].status \in {"timeout", "all_providers_down"} =>
                            /\ stage[r] = "released"
                            /\ backends[r] # <<>>
                            /\ Len(called[r]) = Attempts(backends[r])
    BY DEF StatusTellsCause
  <2>1. record[r] # None /\ record[r].status = status[r]
    BY DEF IInv, Consistent, RecordOf, Answered, Refused
  <2>2. CASE Answered(r)
    <3>1. stage[r] = "reconciled" /\ status[r] = "success"
      BY <2>2 DEF IInv, Consistent, CauseOf, Answered
    <3> QED
      BY <2>1, <3>1 DEF Verdict
  <2>3. CASE Refused(r)
    <3>1. Cause(r, "provider_error", "released")
      BY <2>3 DEF IInv, Consistent, CauseOf, Refused
    <3>2. CASE stage[r] = "idle"
      BY <2>1, <3>1, <3>2 DEF Verdict, Cause
    <3>3. CASE stage[r] \in {"rejected", "held", "released"}
      BY <2>1, <3>1, <3>3 DEF Verdict, Cause, Exhausted
    <3> QED
      BY <3>1, <3>2, <3>3 DEF Cause
  <2> QED
    BY <2>2, <2>3
<1> QED
  BY <1>1, ServiceInvariant, PTL

\* The chain is walked in order, no further than allowed and never past an answer,
\* and the breakers are told of every call that has ended.
THEOREM ServiceFailsOver == Spec => []FailoverDiscipline
<1>1. IInv => FailoverDiscipline
  <2> SUFFICES ASSUME IInv, NEW r \in Request
               PROVE  /\ Len(called[r]) <= MaxFailover
                      /\ called[r] = SubSeq(backends[r], 1, Len(called[r]))
                      /\ \A i \in 1 .. Len(reported[r]) :
                            /\ reported[r][i][1] = called[r][i]
                            /\ reported[r][i][2] = "success" => i = Len(called[r])
                      /\ at[r] \in {"call", "reconcile", "handler"} =>
                            Len(reported[r]) = Len(called[r])
    BY DEF FailoverDiscipline
  <2>1. WalkOf(r)
    BY DEF IInv, Consistent
  <2>2. /\ backends[r] \in Seq(Backend) /\ called[r] \in Seq(Backend)
        /\ Len(called[r]) \in Nat /\ Len(backends[r]) \in Nat
    BY Sequences DEF IInv
  <2>3. /\ Attempts(backends[r]) \in Nat /\ Attempts(backends[r]) <= MaxFailover
        /\ Attempts(backends[r]) <= Len(backends[r])
    BY <2>2, AttemptsType
  <2>4. MaxFailover \in Nat
    BY ServiceAssumption
  <2>5. called[r] = SubSeq(backends[r], 1, Len(called[r]))
    <3>1. called[r] = [i \in 1 .. Len(called[r]) |-> backends[r][i]]
      BY <2>1, <2>2, SMTT(30) DEF WalkOf
    <3>2. SubSeq(backends[r], 1, Len(called[r]))
             = [i \in 1 .. Len(called[r]) |-> backends[r][i]]
      BY <2>2
    <3> QED
      BY <3>1, <3>2
  <2> QED
    BY <2>1, <2>2, <2>3, <2>4, <2>5 DEF WalkOf
<1> QED
  BY <1>1, ServiceInvariant, PTL

-----------------------------------------------------------------------------
\* The service implements the tracker: it uses it as the tracker expects to be used.
\* So what is proved of BudgetTracker holds of the gateway as well.

\* Every step is a step of the tracker, or none of it.
LEMMA TrackerStep == IInv /\ [Next]_vars => [Budget!Next]_(Budget!vars)
<1> SUFFICES ASSUME IInv, [Next]_vars PROVE Budget!Next \/ UNCHANGED Budget!vars
  OBVIOUS
<1>1. ASSUME UNCHANGED budgetVars PROVE UNCHANGED Budget!vars
  BY <1>1 DEF budgetVars, Budget!vars
<1>2. ASSUME NEW r \in Request, NEW a \in Account, ResolvePolicies(r, a)
      PROVE  UNCHANGED budgetVars
  BY <1>2 DEF ResolvePolicies
<1>3. ASSUME NEW r \in Request, Proceed(r)
      PROVE  Budget!Next \/ UNCHANGED budgetVars
  <2>1. CASE \E est \in Estimate : Reserve(r, est)
    <3>1. account[r] \in Account
      BY <2>1 DEF Reserve, IInv, Consistent, StageOf
    <3> QED
      BY <2>1, <3>1 DEF Reserve, Budget!Next
  <2>2. CASE ReserveCharge(r)
    BY <2>2 DEF ReserveCharge, Budget!Next
  <2>3. CASE ReserveUndo(r)
    BY <2>3 DEF ReserveUndo, Budget!Next
  <2>4. CASE Reconcile(r)
    <3>1. result[r].tokens \in Budget!Usage(r)
      BY <2>4 DEF Reconcile, IInv, Consistent, AnswerOf, Usage
    <3> QED
      BY <2>4, <3>1 DEF Reconcile, Budget!Next
  <2>5. CASE HandleError(r)
    BY <2>5 DEF HandleError, Budget!Next
  <2>6. CASE RedisFails(r) \/ ProviderRaises(r)
    BY <2>6 DEF RedisFails, ProviderRaises, Escape, Budget!Next
  <2>7. CASE \/ CheckRate(r) \/ RecordSuccess(r) \/ RecordFailure(r)
             \/ WriteRecord(r) \/ SinkFails(r)
             \/ \E usable \in Routes : Route(r, usable)
             \/ \E n \in Usage(r) : ProviderAnswers(r, n)
             \/ \E error \in {"timeout", "unavailable"} : ProviderFails(r, error)
    BY <2>7 DEF CheckRate, RecordSuccess, RecordFailure, WriteRecord, SinkFails, Route,
                ProviderAnswers, ProviderFails
  <2> QED
    BY <1>3, <2>1, <2>2, <2>3, <2>4, <2>5, <2>6, <2>7 DEF Proceed
<1>4. CASE Tick
  BY <1>4 DEF Tick, Budget!Next
<1>5. CASE Done \/ UNCHANGED vars
  BY <1>5 DEF Done, vars, budgetVars, Budget!vars
<1> QED
  BY <1>1, <1>2, <1>3, <1>4, <1>5 DEF Next

\* What the gateway does to the budget counters is a behaviour of BudgetTracker.
THEOREM ServiceImplementsTracker == Spec => Budget!Spec
<1>1. Init => Budget!Init
  BY DEF Init
<1> QED
  BY <1>1, TrackerStep, ServiceInvariant, PTL DEF Spec, Budget!Spec
=============================================================================
