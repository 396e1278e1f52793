------------------------- MODULE BudgetTrackerProofs -------------------------
(***************************************************************************)
(* Proofs about BudgetTracker for every set of requests and accounts,      *)
(* every policy, every estimate and every calendar.                        *)
(***************************************************************************)
EXTENDS BudgetTracker, FiniteSetTheorems, TLAPS

-----------------------------------------------------------------------------
(* The arithmetic of Total, from the laws of finite sets. *)

\* A request charged n tokens contributes n of them.
LEMMA TokensOfCardinality ==
    ASSUME NEW r, NEW n \in Nat
    PROVE  /\ IsFiniteSet(TokensOf(r, n))
           /\ Cardinality(TokensOf(r, n)) = n
<1>1. IsFiniteSet({r}) /\ Cardinality({r}) = 1
  BY FS_Singleton
<1>2. IsFiniteSet(1 .. n) /\ Cardinality(1 .. n) = n
  BY FS_Interval
<1>3. /\ IsFiniteSet({r} \X (1 .. n))
      /\ Cardinality({r} \X (1 .. n)) = Cardinality({r}) * Cardinality(1 .. n)
  BY <1>1, <1>2, FS_Product
<1> QED
  BY <1>1, <1>2, <1>3 DEF TokensOf

\* Finitely many requests are charged finitely many tokens.
LEMMA TotalType ==
    ASSUME NEW R, IsFiniteSet(R), NEW amount, \A r \in R : amount[r] \in Nat
    PROVE  /\ IsFiniteSet(Tokens(R, amount))
           /\ Total(R, amount) \in Nat
<1> DEFINE Parts == {TokensOf(r, amount[r]) : r \in R}
<1>1. IsFiniteSet(Parts)
  <2> DEFINE part == [r \in R |-> TokensOf(r, amount[r])]
  <2>1. part \in Surjection(R, Parts)
    BY DEF Surjection
  <2> HIDE DEF part, Parts
  <2> QED BY <2>1, FS_Surjection
<1>2. \A T \in Parts : IsFiniteSet(T)
  BY TokensOfCardinality
<1>3. IsFiniteSet(UNION Parts)
  <2> HIDE DEF Parts
  <2> QED BY <1>1, <1>2, FS_UNION
<1> QED
  BY <1>3, FS_CardinalityType DEF Tokens, Total

\* A request more in the sum, or one charged differently, counts by itself.
LEMMA TotalSplit ==
    ASSUME NEW R, IsFiniteSet(R), NEW amount, \A r \in R : amount[r] \in Nat,
           NEW x \in R
    PROVE  Total(R, amount) = Total(R \ {x}, amount) + amount[x]
<1> DEFINE Rest == Tokens(R \ {x}, amount)
           Own  == TokensOf(x, amount[x])
<1>1. Tokens(R, amount) = Rest \cup Own
  BY DEF Tokens
<1>2. Rest \cap Own = {}
  BY DEF Tokens, TokensOf
<1>3. IsFiniteSet(R \ {x})
  BY FS_RemoveElement
<1>4. IsFiniteSet(Rest) /\ Cardinality(Rest) \in Nat
  BY <1>3, TotalType DEF Total
<1>5. IsFiniteSet(Own) /\ Cardinality(Own) = amount[x]
  BY TokensOfCardinality
<1>6. Cardinality(Rest \cup Own) = Cardinality(Rest) + amount[x] - Cardinality({})
  <2> HIDE DEF Rest, Own
  <2> QED BY <1>2, <1>4, <1>5, FS_Union
<1> QED
  BY <1>1, <1>4, <1>6, FS_EmptySet DEF Total

\* The sum depends on the amounts of the requests in it only.
LEMMA TotalSame ==
    ASSUME NEW R, NEW f, NEW g, \A r \in R : f[r] = g[r]
    PROVE  Total(R, f) = Total(R, g)
<1>1. {TokensOf(r, f[r]) : r \in R} = {TokensOf(r, g[r]) : r \in R}
  OBVIOUS
<1> QED
  BY <1>1 DEF Total, Tokens

\* Changing what one request is charged changes the sum by that much.
LEMMA TotalUpdate ==
    ASSUME NEW R, IsFiniteSet(R), NEW x \in R,
           NEW f, \A r \in R : f[r] \in Nat,
           NEW g, \A r \in R : g[r] \in Nat,
           \A r \in R \ {x} : g[r] = f[r]
    PROVE  Total(R, g) = Total(R, f) - f[x] + g[x]
<1>1. Total(R, f) = Total(R \ {x}, f) + f[x]
  BY TotalSplit
<1>2. Total(R, g) = Total(R \ {x}, g) + g[x]
  BY TotalSplit
<1>3. Total(R \ {x}, f) = Total(R \ {x}, g)
  BY TotalSame
<1>4. IsFiniteSet(R \ {x}) /\ Total(R \ {x}, f) \in Nat
  BY FS_RemoveElement, TotalType
<1> QED
  BY <1>1, <1>2, <1>3, <1>4

\* Charging nobody less does not lower the sum.
LEMMA TotalMonotone ==
    ASSUME NEW R, IsFiniteSet(R),
           NEW f, \A r \in R : f[r] \in Nat,
           NEW g, \A r \in R : g[r] \in Nat,
           \A r \in R : f[r] <= g[r]
    PROVE  Total(R, f) <= Total(R, g)
<1>1. \A r \in R : TokensOf(r, f[r]) \subseteq TokensOf(r, g[r])
  BY DEF TokensOf
<1>2. Tokens(R, f) \subseteq Tokens(R, g)
  BY <1>1 DEF Tokens
<1>3. IsFiniteSet(Tokens(R, g))
  BY TotalType
<1> QED
  BY <1>2, <1>3, FS_Subset DEF Total

\* Nobody charged, nothing in the sum.
LEMMA TotalZero ==
    ASSUME NEW R, NEW f, \A r \in R : f[r] = 0
    PROVE  Total(R, f) = 0
<1>1. \A r \in R : TokensOf(r, f[r]) = {}
  BY DEF TokensOf
<1>2. Tokens(R, f) = {}
  BY <1>1 DEF Tokens
<1> QED
  BY <1>2, FS_EmptySet DEF Total

-----------------------------------------------------------------------------
(* The tracker. *)

-----------------------------------------------------------------------------
\* A period key lies in the calendar, be it the number of a day or of a month.
LEMMA PeriodKeyType ==
    ASSUME NEW period, NEW now \in Day
    PROVE  CurrentPeriodKey(period, now) \in Day
BY CalendarAssumption DEF CurrentPeriodKey, Day

\* The initial state is well formed: no call, and every counter reads 0.
LEMMA TypeInit == Init => TypeOK
BY CalendarAssumption, NoCallAssumption DEF Init, TypeOK, Day, Key, Final

\* Every step leaves the state well formed: a call has its locals from the start
\* of reserve() on and never loses them.
LEMMA TypeStep == TypeOK /\ [Next]_vars => TypeOK'
<1> SUFFICES ASSUME TypeOK, [Next]_vars PROVE TypeOK'
  OBVIOUS
<1> USE DEF TypeOK
<1>1. ASSUME NEW r \in Request, NEW a \in Account, NEW est \in Estimate,
             Begin(r, a, est)
      PROVE  TypeOK'
  <2> DEFINE c == [account    |-> a,
                   period_key |-> CurrentPeriodKey(Policy[a].period, clock),
                   tokens     |-> est,
                   started    |-> clock]
  <2>1. c \in Call
    BY PeriodKeyType, AmountAssumption DEF Call
  <2>2. c # NoCall
    BY <2>1, NoCallAssumption
  <2>3. call' = [call EXCEPT ![r] = c]
    BY <1>1 DEF Begin
  <2> HIDE DEF c
  <2> QED
    BY <1>1, <2>1, <2>2, <2>3 DEF Begin, Final
<1>2. ASSUME NEW r \in Request, pc[r] # "idle"
      PROVE  /\ call[r] \in Call
             /\ KeyOf(call[r]) \in Key
             /\ call[r].tokens \in Nat
  BY <1>2 DEF Call, Key, KeyOf
<1>3. ASSUME NEW r \in Request, Charge(r) PROVE TypeOK'
  BY <1>2, <1>3 DEF Charge, Final
<1>4. ASSUME NEW r \in Request, Undo(r) PROVE TypeOK'
  BY <1>2, <1>4 DEF Undo, Final
<1>5. ASSUME NEW r \in Request, NEW actual \in Usage(r), Reconcile(r, actual)
      PROVE  TypeOK'
  <2>1. pc[r] = "held" /\ call[r].tokens \in Nat /\ KeyOf(call[r]) \in Key
    BY <1>2, <1>5 DEF Reconcile
  <2>2. actual \in Nat
    BY <2>1, AmountAssumption DEF Usage
  <2>3. counter' \in [Key -> Int] /\ billed' \in [Request -> Nat]
    BY <1>5, <2>1, <2>2 DEF Reconcile
  <2> QED
    BY <1>5, <2>3 DEF Reconcile, Final
<1>6. ASSUME NEW r \in Request, Release(r) PROVE TypeOK'
  BY <1>2, <1>6 DEF Release, Final
<1>7. ASSUME NEW r \in Request, Die(r) PROVE TypeOK'
  BY <1>7 DEF Die, Final
<1>8. CASE Tick
  BY <1>8, CalendarAssumption DEF Tick, Day
<1>9. CASE Done
  BY <1>9 DEF Done, vars
<1>10. CASE UNCHANGED vars
  BY <1>10 DEF vars
<1> QED
  BY <1>1, <1>3, <1>4, <1>5, <1>6, <1>7, <1>8, <1>9, <1>10 DEF Next

\* The state is well formed in every behaviour: each counter is a number, each
\* call is at a stage reserve(), reconcile() and release() know, and carries its
\* reservation from the first stage to the last.
THEOREM TypeCorrect == Spec => []TypeOK
BY TypeInit, TypeStep, PTL DEF Spec

-----------------------------------------------------------------------------
\* The key a request charges is that of the period in which it started: the
\* reservation carries it from reserve() to reconcile() and release().
PeriodFixed ==
    \A r \in Request : pc[r] # "idle" => KeyOf(call[r]) = StartKey(r)

\* The inductive invariant.  The limits follow from what reserve() compares,
\* which is the counter: they need Conservation, which ties it to the requests,
\* and that needs every later step to use the key of the first.
IInv ==
    /\ TypeOK
    /\ PeriodFixed
    /\ Conservation
    /\ OvershootIsOverrun
    /\ RefusedOnlyUnderPressure

\* A step of a request that has started: it moves its own counter by the change
\* in what it weighs, and nothing of any other request.
Move(x) ==
    /\ pc[x] # "idle" /\ pc'[x] # "idle"
    /\ call' = call
    /\ \A r \in Request \ {x} : pc'[r] = pc[r] /\ billed'[r] = billed[r]
    /\ counter' = [counter EXCEPT ![StartKey(x)] = @ + (Weight(x)' - Weight(x))]

\* A step that moves nobody and no counter: calls may start, days may pass.
Idle ==
    /\ counter' = counter
    /\ \A r \in Request :
          /\ pc'[r] = pc[r] \/ (pc[r] = "idle" /\ pc'[r] = "reserving")
          /\ pc[r] # "idle" => call'[r] = call[r]
    /\ billed' = billed

\* All amounts that are added up are numbers of tokens.  Nobody weighs more on
\* a counter than it demanded, nor is admitted with more than it weighs.
AmountsOK ==
    \A k \in Key, r \in Request :
        /\ Weights(k)[r] \in Nat
        /\ Admissions(k)[r] \in Nat
        /\ Overruns(k)[r] \in Nat
        /\ Demands(k)[r] \in Nat
        /\ Admissions(k)[r] <= Weights(k)[r]
        /\ Weights(k)[r] <= Demands(k)[r]

\* Well-formed calls have such amounts.
LEMMA AmountTypes == TypeOK => AmountsOK
<1> SUFFICES ASSUME TypeOK, NEW k \in Key, NEW r \in Request
             PROVE  /\ Weights(k)[r] \in Nat
                    /\ Admissions(k)[r] \in Nat
                    /\ Overruns(k)[r] \in Nat
                    /\ Demands(k)[r] \in Nat
                    /\ Admissions(k)[r] <= Weights(k)[r]
                    /\ Weights(k)[r] <= Demands(k)[r]
  BY DEF AmountsOK
<1>1. billed[r] \in Nat
  BY DEF TypeOK
<1>2. pc[r] # "idle" => call[r].tokens \in Nat
  BY DEF TypeOK, Call
<1>3. CASE pc[r] = "idle"
  BY <1>3 DEF Weights, Admissions, Overruns, Demands, On
<1>4. CASE pc[r] # "idle"
  <2>1. Weight(r) \in Nat /\ Overrun(r) \in Nat /\ Demand(r) \in Nat
    BY <1>1, <1>2, <1>4 DEF Weight, Overrun, Demand
  <2>2. Weight(r) <= Demand(r)
    BY <1>1, <1>2, <1>4 DEF Weight, Overrun, Demand
  <2> QED
    BY <2>1, <2>2 DEF Weights, Admissions, Overruns, Demands
<1> QED
  BY <1>3, <1>4

\* What is summed stays well typed and ordered in a whole sum.
LEMMA TotalTypes ==
    ASSUME TypeOK, NEW k \in Key
    PROVE  /\ Total(Request, Weights(k)) \in Nat
           /\ Committed(k) \in Nat
           /\ Total(Request, Overruns(k)) \in Nat
           /\ Total(Request, Demands(k)) \in Nat
           /\ Committed(k) <= Total(Request, Weights(k))
           /\ Total(Request, Weights(k)) <= Total(Request, Demands(k))
<1>1. /\ \A r \in Request : Weights(k)[r] \in Nat
      /\ \A r \in Request : Admissions(k)[r] \in Nat
      /\ \A r \in Request : Overruns(k)[r] \in Nat
      /\ \A r \in Request : Demands(k)[r] \in Nat
      /\ \A r \in Request : Admissions(k)[r] <= Weights(k)[r]
      /\ \A r \in Request : Weights(k)[r] <= Demands(k)[r]
  BY AmountTypes DEF AmountsOK
<1>2. /\ Total(Request, Weights(k)) \in Nat
      /\ Total(Request, Admissions(k)) \in Nat
      /\ Total(Request, Overruns(k)) \in Nat
      /\ Total(Request, Demands(k)) \in Nat
  BY <1>1, RequestAssumption, TotalType
<1>3. /\ Total(Request, Admissions(k)) <= Total(Request, Weights(k))
      /\ Total(Request, Weights(k)) <= Total(Request, Demands(k))
  BY <1>1, RequestAssumption, TotalMonotone
<1> QED
  BY <1>2, <1>3 DEF Committed

\* A move changes each sum by the mover's own share.
LEMMA MoveTotals ==
    ASSUME TypeOK, TypeOK', NEW x \in Request, Move(x), NEW k \in Key
    PROVE  /\ Total(Request, Weights(k))' =
                 Total(Request, Weights(k)) - Weights(k)[x] + Weights(k)'[x]
           /\ Committed(k)' = Committed(k) - Admissions(k)[x] + Admissions(k)'[x]
           /\ Total(Request, Overruns(k))' =
                 Total(Request, Overruns(k)) - Overruns(k)[x] + Overruns(k)'[x]
           /\ Total(Request, Demands(k))' =
                 Total(Request, Demands(k)) - Demands(k)[x] + Demands(k)'[x]
<1>1. /\ \A r \in Request : Weights(k)[r] \in Nat /\ Weights(k)'[r] \in Nat
      /\ \A r \in Request : Admissions(k)[r] \in Nat /\ Admissions(k)'[r] \in Nat
      /\ \A r \in Request : Overruns(k)[r] \in Nat /\ Overruns(k)'[r] \in Nat
      /\ \A r \in Request : Demands(k)[r] \in Nat /\ Demands(k)'[r] \in Nat
  <2>1. AmountsOK
    BY AmountTypes
  <2>2. AmountsOK'
    BY AmountTypes, PTL
  <2> QED
    BY <2>1, <2>2 DEF AmountsOK, Key, Day
<1>2. \A r \in Request \ {x} :
         /\ Weights(k)'[r] = Weights(k)[r]
         /\ Admissions(k)'[r] = Admissions(k)[r]
         /\ Overruns(k)'[r] = Overruns(k)[r]
         /\ Demands(k)'[r] = Demands(k)[r]
  <2> SUFFICES ASSUME NEW r \in Request \ {x}
               PROVE  /\ Weights(k)'[r] = Weights(k)[r]
                      /\ Admissions(k)'[r] = Admissions(k)[r]
                      /\ Overruns(k)'[r] = Overruns(k)[r]
                      /\ Demands(k)'[r] = Demands(k)[r]
    OBVIOUS
  <2>1. pc'[r] = pc[r] /\ call'[r] = call[r] /\ billed'[r] = billed[r]
    BY DEF Move
  <2>2. On(r, k)' = On(r, k)
    BY <2>1 DEF On, StartKey
  <2>3. /\ Weight(r)' = Weight(r)
        /\ Admitted(r)' = Admitted(r)
        /\ Overrun(r)' = Overrun(r)
        /\ Demand(r)' = Demand(r)
    BY <2>1 DEF Weight, Admitted, Overrun, Demand
  <2> QED
    BY <2>2, <2>3 DEF Weights, Admissions, Overruns, Demands
<1>3. /\ Total(Request, Weights(k)') =
            Total(Request, Weights(k)) - Weights(k)[x] + Weights(k)'[x]
      /\ Total(Request, Admissions(k)') =
            Total(Request, Admissions(k)) - Admissions(k)[x] + Admissions(k)'[x]
      /\ Total(Request, Overruns(k)') =
            Total(Request, Overruns(k)) - Overruns(k)[x] + Overruns(k)'[x]
      /\ Total(Request, Demands(k)') =
            Total(Request, Demands(k)) - Demands(k)[x] + Demands(k)'[x]
  BY <1>1, <1>2, RequestAssumption, TotalUpdate
<1> QED
  BY <1>3 DEF Committed

\* The sums of the next state are numbers in the same order.
TotalsOK ==
    \A k \in Key :
        /\ Total(Request, Weights(k)) \in Nat
        /\ Committed(k) \in Nat
        /\ Total(Request, Overruns(k)) \in Nat
        /\ Total(Request, Demands(k)) \in Nat
        /\ Committed(k) <= Total(Request, Weights(k))
        /\ Total(Request, Weights(k)) <= Total(Request, Demands(k))

\* Well-formed calls have such sums.
LEMMA TotalsTypes == TypeOK => TotalsOK
BY TotalTypes DEF TotalsOK

\* The mover's shares, before and after, for its own key and for the others.
LEMMA MoveShares ==
    ASSUME NEW x \in Request, Move(x), NEW k \in Key
    PROVE  /\ StartKey(x)' = StartKey(x)
           /\ StartKey(x) # k =>
                 /\ Weights(k)[x] = 0 /\ Weights(k)'[x] = 0
                 /\ Admissions(k)[x] = 0 /\ Admissions(k)'[x] = 0
                 /\ Overruns(k)[x] = 0 /\ Overruns(k)'[x] = 0
                 /\ Demands(k)[x] = 0 /\ Demands(k)'[x] = 0
           /\ StartKey(x) = k =>
                 /\ Weights(k)[x] = Weight(x) /\ Weights(k)'[x] = Weight(x)'
                 /\ Admissions(k)[x] = IF Admitted(x) THEN Weight(x) ELSE 0
                 /\ Admissions(k)'[x] = IF Admitted(x)' THEN Weight(x)' ELSE 0
                 /\ Overruns(k)[x] = Overrun(x) /\ Overruns(k)'[x] = Overrun(x)'
                 /\ Demands(k)[x] = Demand(x) /\ Demands(k)'[x] = Demand(x)'
<1>1. StartKey(x)' = StartKey(x)
  BY DEF Move, StartKey
<1>2. /\ On(x, k) <=> StartKey(x) = k
      /\ On(x, k)' <=> StartKey(x) = k
  BY <1>1 DEF On, Move
<1> QED
  BY <1>1, <1>2 DEF Weights, Admissions, Overruns, Demands

\* A move keeps every counter equal to the sum of the weights on it.
LEMMA MoveConserves ==
    ASSUME TypeOK, TypeOK', Conservation,
           NEW x \in Request, Move(x), StartKey(x) \in Key
    PROVE  Conservation'
<1> SUFFICES ASSUME NEW k \in Key
             PROVE  counter'[k] = Total(Request, Weights(k))'
  BY DEF Conservation, Key, Day
<1>1. counter[k] = Total(Request, Weights(k)) /\ counter[k] \in Int
  BY DEF Conservation, TypeOK
<1>2. Total(Request, Weights(k))' =
         Total(Request, Weights(k)) - Weights(k)[x] + Weights(k)'[x]
  BY MoveTotals
<1>3. CASE StartKey(x) = k
  <2>1. counter'[k] = counter[k] + (Weight(x)' - Weight(x))
    BY <1>3 DEF Move, TypeOK
  <2>2. Weights(k)[x] = Weight(x) /\ Weights(k)'[x] = Weight(x)'
    BY <1>3, MoveShares
  <2>3. Weights(k)[x] \in Nat /\ Weights(k)'[x] \in Nat
    <3>1. AmountsOK /\ AmountsOK'
      BY AmountTypes, PTL
    <3> QED BY <3>1 DEF AmountsOK, Key, Day
  <2> QED
    BY <1>1, <1>2, <2>1, <2>2, <2>3
<1>4. CASE StartKey(x) # k
  <2>1. counter'[k] = counter[k]
    BY <1>4 DEF Move, TypeOK
  <2>2. Weights(k)[x] = 0 /\ Weights(k)'[x] = 0
    BY <1>4, MoveShares
  <2> QED
    BY <1>1, <1>2, <2>1, <2>2
<1> QED
  BY <1>3, <1>4

\* A move keeps the limit if it adds to what is admitted no more than to the
\* overruns, or if it leaves the counter itself within the limit.
LEMMA MoveKeepsLimit ==
    ASSUME TypeOK, TypeOK', OvershootIsOverrun, Conservation',
           NEW x \in Request, Move(x), NEW own \in Key, StartKey(x) = own,
           \/ Admissions(own)'[x] - Admissions(own)[x]
                 <= Overruns(own)'[x] - Overruns(own)[x]
           \/ Limited(own) => counter'[own] <= Limit(own)
    PROVE  OvershootIsOverrun'
<1> SUFFICES ASSUME NEW k \in Key, Limited(k)
             PROVE  Committed(k)' <= Limit(k) + Total(Request, Overruns(k))'
  BY DEF OvershootIsOverrun, Key, Day, Limited, Limit
<1>1. Committed(k) <= Limit(k) + Total(Request, Overruns(k))
  BY DEF OvershootIsOverrun
<1>2. Limit(k) \in Nat
  BY PolicyAssumption DEF Limit, Limited, Key
<1>3. /\ Committed(k)' = Committed(k) - Admissions(k)[x] + Admissions(k)'[x]
      /\ Total(Request, Overruns(k))' =
            Total(Request, Overruns(k)) - Overruns(k)[x] + Overruns(k)'[x]
  BY MoveTotals
<1>4. AmountsOK /\ AmountsOK' /\ TotalsOK /\ TotalsOK'
  BY AmountTypes, TotalsTypes, PTL
<1>5. /\ Admissions(k)[x] \in Nat /\ Admissions(k)'[x] \in Nat
      /\ Overruns(k)[x] \in Nat /\ Overruns(k)'[x] \in Nat
  BY <1>4 DEF AmountsOK, Key, Day
<1>6. /\ Committed(k) \in Nat
      /\ Total(Request, Overruns(k)) \in Nat
      /\ Total(Request, Overruns(k))' \in Nat
      /\ Committed(k)' \in Nat
      /\ Committed(k)' <= Total(Request, Weights(k))'
      /\ Total(Request, Weights(k))' \in Nat
  BY <1>4 DEF TotalsOK, Key, Day
<1>7. CASE Admissions(k)'[x] - Admissions(k)[x] <= Overruns(k)'[x] - Overruns(k)[x]
  BY <1>1, <1>2, <1>3, <1>5, <1>6, <1>7
<1>8. CASE StartKey(x) # k
  BY <1>7, <1>8, MoveShares
<1>9. CASE StartKey(x) = k /\ counter'[k] <= Limit(k)
  <2>1. counter'[k] = Total(Request, Weights(k))'
    BY DEF Conservation, Key, Day
  <2> QED
    BY <1>2, <1>6, <1>9, <2>1
<1> QED
  BY <1>7, <1>8, <1>9

\* A move never lowers the demand on a key, so who was refused stays refused
\* with reason; the mover may be refused if its counter is past the limit.
LEMMA MoveRefuses ==
    ASSUME TypeOK, TypeOK', RefusedOnlyUnderPressure, Conservation',
           \A r \in Request : pc[r] # "idle" => StartKey(r) \in Key,
           NEW x \in Request, Move(x), Demand(x) <= Demand(x)',
           \/ pc'[x] \notin {"blocked", "rejected", "stray"}
           \/ pc[x] \in {"blocked", "rejected", "stray"}
           \/ Limited(StartKey(x)) /\ counter'[StartKey(x)] > Limit(StartKey(x))
    PROVE  RefusedOnlyUnderPressure'
<1> DEFINE Refused == {"blocked", "rejected", "stray"}
<1>1. \A r \in Request : pc'[r] # "idle" <=> pc[r] # "idle"
  BY DEF Move
<1>2. \A r \in Request : StartKey(r)' = StartKey(r)
  BY DEF Move, StartKey
<1>3. SUFFICES ASSUME NEW r \in Request, pc'[r] \in Refused
               PROVE  /\ Limited(StartKey(r))
                      /\ Total(Request, Demands(StartKey(r)))' > Limit(StartKey(r))
  BY <1>2 DEF RefusedOnlyUnderPressure, Limited, Limit
<1>4. PICK k \in Key : k = StartKey(r)
  BY <1>1, <1>3
<1>5. TotalsOK /\ TotalsOK' /\ AmountsOK /\ AmountsOK'
  BY AmountTypes, TotalsTypes, PTL
<1>6. Total(Request, Demands(k))' >= Total(Request, Demands(k))
  <2>1. Total(Request, Demands(k))' =
           Total(Request, Demands(k)) - Demands(k)[x] + Demands(k)'[x]
    BY MoveTotals
  <2>2. Demands(k)[x] \in Nat /\ Demands(k)'[x] \in Nat
    BY <1>5 DEF AmountsOK, Key, Day
  <2>3. Demands(k)[x] <= Demands(k)'[x]
    BY <2>2, MoveShares
  <2>4. Total(Request, Demands(k)) \in Nat
    BY <1>5 DEF TotalsOK
  <2> QED
    BY <2>1, <2>2, <2>3, <2>4
<1>7. Limited(k) => Limit(k) \in Nat
  BY PolicyAssumption DEF Limited, Limit, Key
<1>8. CASE pc[r] \in Refused
  <2>1. Limited(k) /\ Total(Request, Demands(k)) > Limit(k)
    BY <1>4, <1>8 DEF RefusedOnlyUnderPressure
  <2>2. Total(Request, Demands(k)) \in Nat /\ Total(Request, Demands(k))' \in Nat
    BY <1>5 DEF TotalsOK, Key, Day
  <2>3. Total(Request, Demands(k))' > Limit(k)
    BY <1>6, <1>7, <2>1, <2>2
  <2> QED
    BY <1>4, <1>2, <2>1, <2>3 DEF Demands, On
<1>9. CASE pc[r] \notin Refused
  <2>1. r = x
    BY <1>3, <1>9 DEF Move
  <2>2. Limited(k) /\ counter'[k] > Limit(k)
    BY <1>3, <1>4, <1>9, <2>1
  <2>3. counter'[k] = Total(Request, Weights(k))'
    BY DEF Conservation, Key, Day
  <2>4. /\ Total(Request, Weights(k))' \in Nat
        /\ Total(Request, Demands(k))' \in Nat
        /\ Total(Request, Weights(k))' <= Total(Request, Demands(k))'
    BY <1>5 DEF TotalsOK, Key, Day
  <2>5. Total(Request, Demands(k))' > Limit(k)
    BY <1>7, <2>2, <2>3, <2>4
  <2> QED
    BY <1>4, <1>2, <2>2, <2>5 DEF Demands, On
<1> QED
  BY <1>8, <1>9

\* A call that starts weighs nothing yet, and a day that passes weighs nothing.
LEMMA IdleKeeps ==
    ASSUME IInv, TypeOK', Idle
    PROVE  Conservation' /\ OvershootIsOverrun' /\ RefusedOnlyUnderPressure'
<1> USE DEF IInv
<1>1. ASSUME NEW r \in Request, pc[r] # "idle"
      PROVE  /\ pc'[r] = pc[r] /\ call'[r] = call[r] /\ billed'[r] = billed[r]
             /\ StartKey(r)' = StartKey(r)
  BY <1>1 DEF Idle, StartKey
<1>2. ASSUME NEW r \in Request, NEW k \in Key
      PROVE  /\ Weights(k)'[r] = Weights(k)[r]
             /\ Admissions(k)'[r] = Admissions(k)[r]
             /\ Overruns(k)'[r] = Overruns(k)[r]
             /\ pc[r] # "idle" => Demands(k)'[r] = Demands(k)[r]
             /\ pc[r] = "idle" => Demands(k)[r] = 0
  <2>1. CASE pc[r] # "idle"
    <3>1. On(r, k)' = On(r, k)
      BY <1>1, <2>1 DEF On
    <3>2. /\ Weight(r)' = Weight(r)
          /\ Admitted(r)' = Admitted(r)
          /\ Overrun(r)' = Overrun(r)
          /\ Demand(r)' = Demand(r)
      BY <1>1, <2>1 DEF Weight, Admitted, Overrun, Demand
    <3> QED
      BY <2>1, <3>1, <3>2 DEF Weights, Admissions, Overruns, Demands
  <2>2. CASE pc[r] = "idle"
    <3>1. pc'[r] \in {"idle", "reserving"}
      BY <2>2 DEF Idle
    <3>2. Weight(r)' = 0 /\ ~Admitted(r)' /\ Overrun(r)' = 0
      BY <3>1 DEF Weight, Admitted, Overrun
    <3> QED
      BY <2>2, <3>2 DEF Weights, Admissions, Overruns, Demands, On
  <2> QED
    BY <2>1, <2>2
<1>3. ASSUME NEW k \in Key
      PROVE  /\ Weights(k)' = Weights(k)
             /\ Admissions(k)' = Admissions(k)
             /\ Overruns(k)' = Overruns(k)
  BY <1>2 DEF Weights, Admissions, Overruns
<1>4. Conservation'
  BY <1>3 DEF Conservation, Idle, Key, Day
<1>5. OvershootIsOverrun'
  BY <1>3 DEF OvershootIsOverrun, Committed, Limited, Limit, Blocks, Key, Day
<1>6. RefusedOnlyUnderPressure'
  <2>1. SUFFICES ASSUME NEW r \in Request,
                        pc'[r] \in {"blocked", "rejected", "stray"}
                 PROVE  /\ Limited(StartKey(r)')
                        /\ Total(Request, Demands(StartKey(r))') > Limit(StartKey(r)')
    BY DEF RefusedOnlyUnderPressure, Limited, Limit, Blocks
  <2>2. /\ pc[r] \in {"blocked", "rejected", "stray"}
        /\ StartKey(r)' = StartKey(r)
    BY <1>1, <2>1 DEF Idle
  <2>3. PICK k \in Key : k = StartKey(r)
    BY <2>2 DEF PeriodFixed, TypeOK, KeyOf, Key, Call
  <2>4. Limited(k) /\ Total(Request, Demands(k)) > Limit(k)
    BY <2>2, <2>3 DEF RefusedOnlyUnderPressure
  <2>5. AmountsOK /\ AmountsOK' /\ TotalsOK /\ TotalsOK'
    BY AmountTypes, TotalsTypes, PTL
  <2>6. \A q \in Request : /\ Demands(k)[q] \in Nat
                           /\ Demands(k)'[q] \in Nat
                           /\ Demands(k)[q] <= Demands(k)'[q]
    <3>1. \A q \in Request : Demands(k)[q] \in Nat /\ Demands(k)'[q] \in Nat
      BY <2>5 DEF AmountsOK, Key, Day
    <3> QED
      BY <1>2, <3>1
  <2>7. Total(Request, Demands(k)) <= Total(Request, Demands(k)')
    BY <2>6, RequestAssumption, TotalMonotone
  <2>8. /\ Total(Request, Demands(k)) \in Nat
        /\ Total(Request, Demands(k)') \in Nat
        /\ Limit(k) \in Nat
    BY <2>4, <2>5, PolicyAssumption DEF TotalsOK, Key, Day, Limit, Limited
  <2>9. Demands(StartKey(r))' = Demands(k)'
    BY <2>2, <2>3 DEF Demands, On
  <2> QED
    BY <2>2, <2>3, <2>4, <2>7, <2>8, <2>9
<1> QED
  BY <1>4, <1>5, <1>6

-----------------------------------------------------------------------------
\* A started call has a reservation that names an existing key.
LEMMA Started ==
    ASSUME TypeOK, PeriodFixed, NEW r \in Request, pc[r] # "idle"
    PROVE  /\ call[r] \in Call
           /\ call[r].tokens \in Nat
           /\ billed[r] \in Nat
           /\ KeyOf(call[r]) = StartKey(r)
           /\ StartKey(r) \in Key
           /\ counter[StartKey(r)] \in Int
BY DEF TypeOK, PeriodFixed, Call, Key, KeyOf

\* The inductive invariant holds initially.
LEMMA InitHolds == Init => IInv
<1> SUFFICES ASSUME Init PROVE IInv
  OBVIOUS
<1>1. TypeOK
  BY TypeInit
<1>2. ASSUME NEW k \in Key
      PROVE  /\ \A r \in Request : Weights(k)[r] = 0
             /\ \A r \in Request : Admissions(k)[r] = 0
  BY DEF Init, Weights, Admissions, On
<1>3. ASSUME NEW k \in Key
      PROVE  Total(Request, Weights(k)) = 0 /\ Committed(k) = 0
  BY <1>2, TotalZero DEF Committed
<1>4. Conservation
  BY <1>3 DEF Conservation, Init
<1>5. OvershootIsOverrun
  <2> SUFFICES ASSUME NEW k \in Key, Limited(k)
               PROVE  Committed(k) <= Limit(k) + Total(Request, Overruns(k))
    BY DEF OvershootIsOverrun
  <2>1. Limit(k) \in Nat
    BY PolicyAssumption DEF Limited, Limit, Key
  <2>2. Total(Request, Overruns(k)) \in Nat
    BY <1>1, TotalTypes
  <2> QED
    BY <1>3, <2>1, <2>2
<1> QED
  BY <1>1, <1>4, <1>5 DEF IInv, PeriodFixed, RefusedOnlyUnderPressure, Init

\* What a move has to show to keep the inductive invariant.
LEMMA MoveKeeps ==
    ASSUME IInv, TypeOK', NEW x \in Request, Move(x),
           NEW own \in Key, StartKey(x) = own,
           \/ Admissions(own)'[x] - Admissions(own)[x]
                 <= Overruns(own)'[x] - Overruns(own)[x]
           \/ Limited(own) => counter'[own] <= Limit(own),
           Demand(x) <= Demand(x)',
           \/ pc'[x] \notin {"blocked", "rejected", "stray"}
           \/ pc[x] \in {"blocked", "rejected", "stray"}
           \/ Limited(own) /\ counter'[own] > Limit(own)
    PROVE  IInv'
<1>1. Conservation'
  BY MoveConserves DEF IInv
<1>2. OvershootIsOverrun'
  BY <1>1, MoveKeepsLimit DEF IInv
<1>3. \A r \in Request : pc[r] # "idle" => StartKey(r) \in Key
  BY Started DEF IInv
<1>4. RefusedOnlyUnderPressure'
  BY <1>1, <1>3, MoveRefuses DEF IInv
<1>5. PeriodFixed'
  BY DEF IInv, PeriodFixed, Move, StartKey, KeyOf
<1> QED
  BY <1>1, <1>2, <1>4, <1>5 DEF IInv

\* The INCRBY of reserve() either admits a request whose tokens fit the counter
\* or blocks one whose tokens do not.
LEMMA ChargeKeeps ==
    ASSUME IInv, TypeOK', NEW x \in Request, Charge(x)
    PROVE  IInv'
<1>1. pc[x] = "reserving" /\ call' = call /\ pc'[x] \in {"blocked", "held"}
  BY DEF Charge, IInv, TypeOK
<1>0. PICK own \in Key : own = StartKey(x)
  BY <1>1, Started DEF IInv
<1>2. /\ call[x].tokens \in Nat /\ KeyOf(call[x]) = own
      /\ counter[own] \in Int /\ own[1] = call[x].account
  BY <1>0, <1>1, Started DEF IInv, StartKey
<1>3. /\ Weight(x) = 0 /\ Weight(x)' = call[x].tokens
      /\ Overrun(x) = 0 /\ Overrun(x)' = 0
      /\ Demand(x) = call[x].tokens /\ Demand(x)' = call[x].tokens
  BY <1>1 DEF Weight, Overrun, Demand
<1>4. counter' = [counter EXCEPT ![own] = @ + (Weight(x)' - Weight(x))]
  <2>1. counter[own] + (Weight(x)' - Weight(x)) = counter[own] + call[x].tokens
    BY <1>2, <1>3
  <2> QED BY <1>2, <2>1 DEF Charge
<1>5. Move(x)
  BY <1>0, <1>1, <1>4 DEF Move, Charge, IInv, TypeOK
<1>6. counter'[own] = counter[own] + call[x].tokens
  BY <1>2, <1>3, <1>4 DEF IInv, TypeOK
<1>7. pc'[x] = "blocked" <=> Exceeds(own[1], counter'[own]) /\ Blocks(own[1])
  BY <1>2, <1>6 DEF Charge, IInv, TypeOK
<1>8. Limited(own) => (pc'[x] = "blocked" <=> counter'[own] > Limit(own))
  BY <1>7 DEF Limited, Limit, Exceeds
<1>9. pc'[x] = "blocked" => Limited(own) /\ counter'[own] > Limit(own)
  BY <1>7 DEF Limited, Limit, Exceeds
<1>10. \/ Admissions(own)'[x] - Admissions(own)[x]
             <= Overruns(own)'[x] - Overruns(own)[x]
       \/ Limited(own) => counter'[own] <= Limit(own)
  <2>1. CASE pc'[x] = "blocked"
    <3>1. /\ Admissions(own)'[x] = 0 /\ Admissions(own)[x] = 0
          /\ Overruns(own)'[x] = 0 /\ Overruns(own)[x] = 0
      BY <1>1, <1>0, <1>1, <1>2, <1>3, <1>5, <2>1, MoveShares DEF Admitted
    <3> QED BY <3>1
  <2>2. CASE pc'[x] = "held"
    <3>1. Limited(own) => Limit(own) \in Nat
      BY <1>2, PolicyAssumption DEF Limited, Limit, Key
    <3>2. counter'[own] \in Int
      BY <1>2, <1>6
    <3> QED BY <1>8, <2>2, <3>1, <3>2
  <2> QED BY <1>1, <2>1, <2>2
<1>11. Demand(x) <= Demand(x)'
  BY <1>2, <1>3
<1> QED
  BY <1>0, <1>1, <1>5, <1>9, <1>10, <1>11, MoveKeeps

\* Later steps of a request never admit more than they book as overrun.
LEMMA SettleKeeps ==
    ASSUME IInv, TypeOK', NEW x \in Request, NEW actual,
           Undo(x) \/ Reconcile(x, actual) \/ Release(x) \/ Die(x)
    PROVE  IInv'
<1>1. pc[x] # "idle" /\ pc'[x] # "idle" /\ call' = call
  BY DEF Undo, Reconcile, Release, Die, IInv, TypeOK
<1>0. PICK own \in Key : own = StartKey(x)
  BY <1>1, Started DEF IInv
<1>2. /\ call[x].tokens \in Nat /\ KeyOf(call[x]) = own /\ own = StartKey(x)
      /\ counter[own] \in Int /\ billed[x] \in Nat
  BY <1>0, <1>1, Started DEF IInv
<1>3. billed'[x] \in Nat
  BY DEF TypeOK
<1>4. ASSUME Undo(x)
      PROVE  /\ Move(x) /\ Demand(x) <= Demand(x)'
             /\ ~Admitted(x) /\ ~Admitted(x)'
             /\ Overrun(x) = 0 /\ Overrun(x)' = 0
             /\ pc[x] = "blocked"
  <2>1. pc[x] = "blocked" /\ pc'[x] = "rejected"
    BY <1>4 DEF Undo, IInv, TypeOK
  <2>2. /\ Weight(x) = call[x].tokens /\ Weight(x)' = 0
        /\ Overrun(x) = 0 /\ Overrun(x)' = 0
        /\ Demand(x) = call[x].tokens /\ Demand(x)' = call[x].tokens
    BY <1>1, <2>1 DEF Weight, Overrun, Demand
  <2>3. counter' = [counter EXCEPT ![own] = @ + (Weight(x)' - Weight(x))]
    <3>1. counter[own] + (Weight(x)' - Weight(x)) = counter[own] - call[x].tokens
      BY <1>2, <2>2
    <3> QED BY <1>2, <1>4, <3>1 DEF Undo
  <2>4. \A r \in Request \ {x} : pc'[r] = pc[r] /\ billed'[r] = billed[r]
    BY <1>4 DEF Undo, IInv, TypeOK
  <2>5. Move(x)
    BY <1>0, <1>1, <2>3, <2>4 DEF Move
  <2> QED
    BY <1>2, <2>1, <2>2, <2>5 DEF Admitted
<1>5. ASSUME Release(x)
      PROVE  /\ Move(x) /\ Demand(x) <= Demand(x)'
             /\ Weight(x) = call[x].tokens /\ Admitted(x) /\ ~Admitted(x)'
             /\ Overrun(x) = 0 /\ Overrun(x)' = 0
             /\ pc'[x] = "released"
  <2>1. pc[x] = "held" /\ pc'[x] = "released"
    BY <1>5 DEF Release, IInv, TypeOK
  <2>2. /\ Weight(x) = call[x].tokens /\ Weight(x)' = 0
        /\ Overrun(x) = 0 /\ Overrun(x)' = 0
        /\ Demand(x) = call[x].tokens /\ Demand(x)' = call[x].tokens
    BY <1>1, <2>1 DEF Weight, Overrun, Demand
  <2>3. counter' = [counter EXCEPT ![own] = @ + (Weight(x)' - Weight(x))]
    <3>1. counter[own] + (Weight(x)' - Weight(x)) = counter[own] - call[x].tokens
      BY <1>2, <2>2
    <3> QED BY <1>2, <1>5, <3>1 DEF Release
  <2>4. \A r \in Request \ {x} : pc'[r] = pc[r] /\ billed'[r] = billed[r]
    BY <1>5 DEF Release, IInv, TypeOK
  <2>5. Move(x)
    BY <1>0, <1>1, <2>3, <2>4 DEF Move
  <2> QED
    BY <1>2, <2>1, <2>2, <2>5 DEF Admitted
<1>6. ASSUME Reconcile(x, actual)
      PROVE  /\ Move(x) /\ Demand(x) <= Demand(x)'
             /\ Weight(x) = call[x].tokens /\ Admitted(x) /\ Admitted(x)'
             /\ Weight(x)' = billed'[x] /\ Overrun(x) = 0
             /\ Overrun(x)' \in Nat
             /\ billed'[x] - call[x].tokens <= Overrun(x)'
             /\ pc'[x] = "reconciled"
  <2>1. pc[x] = "held" /\ pc'[x] = "reconciled"
    BY <1>6 DEF Reconcile, IInv, TypeOK
  <2>2. /\ Weight(x) = call[x].tokens /\ Weight(x)' = billed'[x]
        /\ Overrun(x) = 0 /\ billed'[x] - call[x].tokens <= Overrun(x)'
        /\ Overrun(x)' \in Nat
        /\ Demand(x) = call[x].tokens /\ call[x].tokens <= Demand(x)'
    BY <1>1, <1>2, <1>3, <2>1 DEF Weight, Overrun, Demand
  <2>3. counter' = [counter EXCEPT ![own] = @ + (Weight(x)' - Weight(x))]
    BY <1>2, <1>3, <1>6, <2>2 DEF Reconcile, IInv, TypeOK
  <2>4. \A r \in Request \ {x} : pc'[r] = pc[r] /\ billed'[r] = billed[r]
    BY <1>6 DEF Reconcile, IInv, TypeOK
  <2>5. Move(x)
    BY <1>0, <1>1, <2>3, <2>4 DEF Move
  <2> QED
    BY <1>2, <2>1, <2>2, <2>5 DEF Admitted
<1>7. ASSUME Die(x)
      PROVE  /\ Move(x) /\ Demand(x) <= Demand(x)'
             /\ Weight(x)' = Weight(x) /\ Weight(x) \in Nat
             /\ Admitted(x)' = Admitted(x)
             /\ Overrun(x) = 0 /\ Overrun(x)' = 0
             /\ pc'[x] = "stray" => pc[x] = "blocked"
             /\ pc'[x] \notin {"blocked", "rejected"}
  <2>1. \/ pc[x] = "reserving" /\ pc'[x] = "failed"
        \/ pc[x] = "blocked" /\ pc'[x] = "stray"
        \/ pc[x] = "held" /\ pc'[x] = "leaked"
    BY <1>7 DEF Die, IInv, TypeOK
  <2>2. /\ Weight(x)' = Weight(x) /\ Weight(x) \in Nat
        /\ Overrun(x) = 0 /\ Overrun(x)' = 0
        /\ Demand(x) = call[x].tokens /\ Demand(x)' = call[x].tokens
        /\ Admitted(x)' = Admitted(x)
    BY <1>1, <1>2, <2>1 DEF Weight, Overrun, Demand, Admitted
  <2>3. counter' = [counter EXCEPT ![own] = @ + (Weight(x)' - Weight(x))]
    BY <1>2, <1>7, <2>2 DEF Die, IInv, TypeOK
  <2>4. \A r \in Request \ {x} : pc'[r] = pc[r] /\ billed'[r] = billed[r]
    BY <1>7 DEF Die, IInv, TypeOK
  <2> QED
    BY <1>1, <1>2, <2>1, <2>2, <2>3, <2>4 DEF Move
<1>8. /\ Move(x) /\ Demand(x) <= Demand(x)'
      /\ \/ pc'[x] \notin {"blocked", "rejected", "stray"}
         \/ pc[x] \in {"blocked", "rejected", "stray"}
  BY <1>4, <1>5, <1>6, <1>7
<1>9. Admissions(own)'[x] - Admissions(own)[x]
         <= Overruns(own)'[x] - Overruns(own)[x]
  <2>1. /\ Admissions(own)[x] = IF Admitted(x) THEN Weight(x) ELSE 0
        /\ Admissions(own)'[x] = IF Admitted(x)' THEN Weight(x)' ELSE 0
        /\ Overruns(own)[x] = Overrun(x) /\ Overruns(own)'[x] = Overrun(x)'
    BY <1>2, <1>8, MoveShares
  <2>2. CASE Undo(x)
    BY <1>4, <2>1, <2>2
  <2>3. CASE Release(x)
    BY <1>2, <1>5, <2>1, <2>3
  <2>4. CASE Reconcile(x, actual)
    BY <1>2, <1>3, <1>6, <2>1, <2>4
  <2>5. CASE Die(x)
    BY <1>7, <2>1, <2>5
  <2> QED
    BY <2>2, <2>3, <2>4, <2>5
<1> QED
  BY <1>0, <1>8, <1>9, MoveKeeps

\* The inductive invariant is one: one case for each action.
LEMMA StepHolds == IInv /\ [Next]_vars => IInv'
<1> SUFFICES ASSUME IInv, [Next]_vars PROVE IInv'
  OBVIOUS
<1>1. TypeOK'
  BY TypeStep DEF IInv
<1>2. ASSUME Idle, \A r \in Request : pc[r] = "idle" /\ pc'[r] # "idle" =>
                      KeyOf(call[r])' = StartKey(r)'
      PROVE  IInv'
  <2>1. PeriodFixed'
    BY <1>2 DEF PeriodFixed, Idle, IInv, KeyOf, StartKey
  <2> QED
    BY <1>1, <1>2, <2>1, IdleKeeps DEF IInv
<1>3. ASSUME NEW r \in Request, NEW a \in Account, NEW est \in Estimate,
             Begin(r, a, est)
      PROVE  IInv'
  <2>1. Idle
    BY <1>3 DEF Begin, Idle, IInv, TypeOK
  <2>2. \A q \in Request : pc[q] = "idle" /\ pc'[q] # "idle" => q = r
    BY <1>3 DEF Begin, IInv, TypeOK
  <2>3. KeyOf(call[r])' = StartKey(r)'
    BY <1>3 DEF Begin, KeyOf, StartKey, IInv, TypeOK
  <2> QED
    BY <1>2, <2>1, <2>2, <2>3
<1>4. ASSUME NEW r \in Request, Charge(r) PROVE IInv'
  BY <1>1, <1>4, ChargeKeeps
<1>5. ASSUME NEW r \in Request, NEW actual,
             Undo(r) \/ Reconcile(r, actual) \/ Release(r) \/ Die(r)
      PROVE  IInv'
  BY <1>1, <1>5, SettleKeeps
<1>6. CASE Tick
  BY <1>2, <1>6 DEF Tick, Idle
<1>7. CASE Done \/ UNCHANGED vars
  BY <1>2, <1>7 DEF Done, vars, Idle
<1> QED
  BY <1>3, <1>4, <1>5, <1>6, <1>7 DEF Next

\* Every reachable state satisfies the inductive invariant.
THEOREM Accounting == Spec => []IInv
BY InitHolds, StepHolds, PTL DEF Spec

\* The counters conserve tokens: no interleaving of reserve, undo, reconcile
\* and release loses, duplicates or misfiles one.
THEOREM CountersConserve == Spec => []Conservation
<1>1. IInv => Conservation
  BY DEF IInv
<1> QED
  BY <1>1, Accounting, PTL

\* A blocking budget admits no more than max_tokens plus what requests used
\* beyond their own estimates.
THEOREM BudgetHolds == Spec => []OvershootIsOverrun
<1>1. IInv => OvershootIsOverrun
  BY DEF IInv
<1> QED
  BY <1>1, Accounting, PTL

\* Requests that fit a budget together are never refused.
THEOREM RefusalsJustified == Spec => []RefusedOnlyUnderPressure
<1>1. IInv => RefusedOnlyUnderPressure
  BY DEF IInv
<1> QED
  BY <1>1, Accounting, PTL
-----------------------------------------------------------------------------
\* Seen from outside, reserve() is one atomic check-and-reserve.

\* What a call reserves is an estimate that requests come with.
Estimated == \A r \in Request : pc[r] # "idle" => call[r].tokens \in Estimate

\* Calls keep the estimate they came with.
LEMMA EstimatedStep == TypeOK /\ Estimated /\ [Next]_vars => Estimated'
<1> SUFFICES ASSUME TypeOK, Estimated, [Next]_vars, NEW q \in Request, pc'[q] # "idle"
             PROVE  call'[q].tokens \in Estimate
  BY DEF Estimated
<1> USE DEF TypeOK, Estimated
<1>1. ASSUME NEW r \in Request, NEW a \in Account, NEW est \in Estimate,
             Begin(r, a, est)
      PROVE  call'[q].tokens \in Estimate
  <2>1. CASE q = r
    BY <1>1, <2>1 DEF Begin
  <2>2. CASE q # r
    BY <1>1, <2>2 DEF Begin
  <2> QED BY <2>1, <2>2
<1>2. ASSUME NEW r \in Request, pc[r] # "idle",
             call' = call, \A p \in Request \ {r} : pc'[p] = pc[p]
      PROVE  call'[q].tokens \in Estimate
  BY <1>2
<1>3. ASSUME NEW r \in Request, NEW actual,
             Charge(r) \/ Undo(r) \/ Reconcile(r, actual) \/ Release(r) \/ Die(r)
      PROVE  call'[q].tokens \in Estimate
  BY <1>2, <1>3 DEF Charge, Undo, Reconcile, Release, Die
<1>4. CASE Tick \/ Done \/ UNCHANGED vars
  BY <1>4 DEF Tick, Done, vars
<1> QED
  BY <1>1, <1>3, <1>4 DEF Next

\* The ledger has an entry for each request.
EntryPerRequest ==
    /\ AbstractStatus = [r \in Request |-> AbstractStatus[r]]
    /\ AbstractHold = [r \in Request |-> AbstractHold[r]]

\* It does by its definition.
LEMMA Entries == EntryPerRequest
<1>1. AbstractStatus = [r \in Request |-> AbstractStatus[r]]
  <2> DEFINE S(r) == CASE pc[r] \in {"idle", "reserving", "blocked"}  -> "none"
                       [] pc[r] = "held"                              -> "held"
                       [] pc[r] = "leaked"                            -> "lost"
                       [] pc[r] = "reconciled"                        -> "billed"
                       [] pc[r] = "released"                          -> "cancelled"
                       [] OTHER                                       -> "refused"
  <2>1. AbstractStatus = [r \in Request |-> S(r)]
    BY DEF AbstractStatus
  <2> HIDE DEF S
  <2> QED BY <2>1
<1>2. AbstractHold = [r \in Request |-> AbstractHold[r]]
  <2> DEFINE H(r) == IF AbstractStatus[r] \in {"none", "refused"}
                     THEN <<>> ELSE <<StartKey(r), call[r].tokens>>
  <2>1. AbstractHold = [r \in Request |-> H(r)]
    BY DEF AbstractHold
  <2> HIDE DEF H
  <2> QED BY <2>1
<1> QED
  BY <1>1, <1>2 DEF EntryPerRequest

\* A move changes the ledger at the mover's key and in the mover's entry only.
LEMMA MoveInLedger ==
    ASSUME IInv, TypeOK', NEW x \in Request, Move(x),
           NEW own \in Key, StartKey(x) = own
    PROVE  /\ [k \in Key |-> Committed(k)]' =
                 [[k \in Key |-> Committed(k)] EXCEPT ![own] =
                     Committed(own) - (IF Admitted(x) THEN Weight(x) ELSE 0)
                                    + (IF Admitted(x)' THEN Weight(x)' ELSE 0)]
           /\ AbstractStatus' = [AbstractStatus EXCEPT ![x] = AbstractStatus'[x]]
           /\ AbstractHold' = [AbstractHold EXCEPT ![x] = AbstractHold'[x]]
<1>1. ASSUME NEW k \in Key
      PROVE  Committed(k)' = IF k = own
                             THEN Committed(k) - (IF Admitted(x) THEN Weight(x) ELSE 0)
                                     + (IF Admitted(x)' THEN Weight(x)' ELSE 0)
                             ELSE Committed(k)
  <2>1. Committed(k)' = Committed(k) - Admissions(k)[x] + Admissions(k)'[x]
    BY MoveTotals DEF IInv
  <2>2. CASE k = own
    BY <2>1, <2>2, MoveShares
  <2>3. CASE k # own
    <3>1. Admissions(k)[x] = 0 /\ Admissions(k)'[x] = 0
      BY <2>3, MoveShares
    <3>2. Committed(k) \in Nat
      BY TotalTypes DEF IInv
    <3> QED BY <2>1, <2>3, <3>1, <3>2
  <2> QED BY <2>2, <2>3
<1>2. Key' = Key
  BY DEF Key, Day
<1>3. ASSUME NEW r \in Request \ {x}
      PROVE  /\ AbstractStatus'[r] = AbstractStatus[r]
             /\ AbstractHold'[r] = AbstractHold[r]
  <2>1. pc'[r] = pc[r] /\ call'[r] = call[r]
    BY DEF Move
  <2>2. AbstractStatus'[r] = AbstractStatus[r]
    BY <2>1 DEF AbstractStatus
  <2>3. StartKey(r)' = StartKey(r)
    BY <2>1 DEF StartKey
  <2> QED
    BY <2>1, <2>2, <2>3 DEF AbstractHold
<1>4. /\ AbstractStatus' = [AbstractStatus EXCEPT ![x] = AbstractStatus'[x]]
      /\ AbstractHold' = [AbstractHold EXCEPT ![x] = AbstractHold'[x]]
  <2>1. EntryPerRequest /\ EntryPerRequest'
    BY Entries, PTL
  <2> QED
    BY <1>3, <2>1 DEF EntryPerRequest
<1> QED
  BY <1>1, <1>2, <1>4

\* The INCRBY of reserve() reserves in the ledger, unless it finds the limit
\* exceeded: then the ledger has not seen the request yet.
LEMMA ChargeInLedger ==
    ASSUME IInv, IInv', Estimated, NEW x \in Request, Charge(x)
    PROVE  [Ledger!Next]_(Ledger!vars)
<1>1. pc[x] = "reserving" /\ call' = call /\ pc'[x] \in {"blocked", "held"}
  BY DEF Charge, IInv, TypeOK
<1>2. PICK own \in Key : own = StartKey(x)
  BY <1>1, Started DEF IInv
<1>3. /\ call[x].tokens \in Nat /\ call[x].tokens \in Estimate
      /\ KeyOf(call[x]) = own /\ counter[own] \in Int /\ own[1] = call[x].account
  BY <1>1, <1>2, Started DEF IInv, Estimated, StartKey
<1>4. counter' = [counter EXCEPT ![own] = @ + call[x].tokens]
  BY <1>3 DEF Charge
<1>5. Weight(x) = 0 /\ Weight(x)' = call[x].tokens
  BY <1>1 DEF Weight
<1>6. Move(x)
  <2>1. call[x].tokens = Weight(x)' - Weight(x)
    BY <1>3, <1>5
  <2> QED
    BY <1>1, <1>2, <1>4, <2>1 DEF Move, Charge, IInv, TypeOK
<1>7. StartKey(x)' = StartKey(x)
  BY <1>1 DEF StartKey
<1>8. /\ AbstractStatus[x] = "none" /\ AbstractHold[x] = <<>> /\ ~Admitted(x)
  BY <1>1 DEF AbstractStatus, AbstractHold, Admitted
<1>9. /\ [k \in Key |-> Committed(k)]' =
            [[k \in Key |-> Committed(k)] EXCEPT ![own] =
                Committed(own) - 0 + (IF Admitted(x)' THEN Weight(x)' ELSE 0)]
      /\ AbstractStatus' = [AbstractStatus EXCEPT ![x] = AbstractStatus'[x]]
      /\ AbstractHold' = [AbstractHold EXCEPT ![x] = AbstractHold'[x]]
  BY <1>2, <1>6, <1>8, MoveInLedger DEF IInv
<1>10. Committed(own) \in Nat
  BY TotalTypes DEF IInv
<1>11. CASE pc'[x] = "blocked"
  <2>1. /\ AbstractStatus'[x] = "none" /\ AbstractHold'[x] = <<>> /\ ~Admitted(x)'
    BY <1>11 DEF AbstractStatus, AbstractHold, Admitted
  <2>2. AbstractStatus' = AbstractStatus /\ AbstractHold' = AbstractHold
    BY <1>8, <1>9, <2>1, Entries DEF EntryPerRequest
  <2>3. [k \in Key |-> Committed(k)]' = [k \in Key |-> Committed(k)]
    <3>1. Committed(own) - 0 + 0 = Committed(own)
      BY <1>10
    <3> QED BY <1>9, <2>1, <3>1
  <2> QED
    BY <2>2, <2>3 DEF Ledger!vars
<1>12. CASE pc'[x] = "held"
  <2>1. /\ AbstractStatus'[x] = "held" /\ Admitted(x)'
        /\ AbstractHold'[x] = <<own, call[x].tokens>>
    BY <1>1, <1>2, <1>7, <1>12 DEF AbstractStatus, AbstractHold, Admitted
  <2>2. [k \in Key |-> Committed(k)]' =
           [[k \in Key |-> Committed(k)] EXCEPT ![own] = @ + call[x].tokens]
    <3>1. Committed(own) - 0 + Weight(x)' = Committed(own) + call[x].tokens
      BY <1>3, <1>5, <1>10
    <3> QED BY <1>9, <2>1, <3>1
  <2>3. Committed(own)' = Committed(own) + call[x].tokens
    BY <2>2
  <2>4. Fits(own, Committed(own) + call[x].tokens)
    <3> SUFFICES ASSUME Limited(own)
                 PROVE  Committed(own) + call[x].tokens <= Limit(own)
      BY DEF Fits
    <3>1. Limit(own) \in Nat
      BY PolicyAssumption DEF Limit, Limited, Key
    <3>2. counter'[own] = counter[own] + call[x].tokens
      BY <1>4 DEF IInv, TypeOK
    <3>3. counter'[own] <= Limit(own)
      BY <1>3, <1>12, <3>1, <3>2 DEF Charge, Exceeds, Limited, Limit, IInv, TypeOK
    <3>4. counter'[own] = Total(Request, Weights(own))'
      BY DEF IInv, Conservation, Key, Day
    <3>5. TotalsOK'
      BY TotalsTypes, PTL DEF IInv
    <3>6. /\ Committed(own)' <= Total(Request, Weights(own))'
          /\ Committed(own)' \in Nat /\ Total(Request, Weights(own))' \in Nat
      BY <3>5 DEF TotalsOK, Key, Day
    <3> QED
      BY <2>3, <3>1, <3>3, <3>4, <3>6
  <2>5. Ledger!Reserve(x, own, call[x].tokens)
    BY <1>8, <1>9, <2>1, <2>2, <2>4 DEF Ledger!Reserve
  <2> QED
    BY <1>3, <2>5 DEF Ledger!Next
<1> QED
  BY <1>1, <1>11, <1>12

\* The compensating INCRBY, reconcile(), release() and a death settle the request
\* in the ledger, each in its own way; what the ledger was billed for is what the
\* provider reported.
LEMMA SettleInLedger ==
    ASSUME IInv, IInv', Estimated, NEW x \in Request,
           \/ Undo(x)
           \/ \E actual \in Usage(x) : Reconcile(x, actual)
           \/ Release(x)
           \/ Die(x)
    PROVE  [Ledger!Next]_(Ledger!vars)
<1>1. PICK actual : \/ Undo(x) \/ Release(x) \/ Die(x)
                    \/ actual \in Usage(x) /\ Reconcile(x, actual)
  OBVIOUS
<1>2. pc[x] # "idle" /\ call' = call
  BY <1>1 DEF Undo, Reconcile, Release, Die
<1>3. PICK own \in Key : own = StartKey(x)
  BY <1>2, Started DEF IInv
<1>4. /\ call[x].tokens \in Nat /\ call[x].tokens \in Estimate
      /\ KeyOf(call[x]) = own /\ counter[own] \in Int
      /\ own = StartKey(x)' /\ billed[x] \in Nat /\ billed'[x] \in Nat
  BY <1>2, <1>3, Started DEF IInv, Estimated, StartKey, TypeOK
<1>5. Committed(own) \in Nat
  BY TotalTypes DEF IInv
<1>6. ASSUME pc'[x] # "idle",
             counter' = [counter EXCEPT ![own] = @ + (Weight(x)' - Weight(x))],
             \A r \in Request \ {x} : pc'[r] = pc[r] /\ billed'[r] = billed[r]
      PROVE  /\ [k \in Key |-> Committed(k)]' =
                   [[k \in Key |-> Committed(k)] EXCEPT ![own] =
                       Committed(own) - (IF Admitted(x) THEN Weight(x) ELSE 0)
                                      + (IF Admitted(x)' THEN Weight(x)' ELSE 0)]
             /\ AbstractStatus' = [AbstractStatus EXCEPT ![x] = AbstractStatus'[x]]
             /\ AbstractHold' = [AbstractHold EXCEPT ![x] = AbstractHold'[x]]
  <2>1. Move(x)
    BY <1>2, <1>3, <1>6 DEF Move
  <2> QED
    BY <1>3, <2>1, MoveInLedger DEF IInv
<1>7. CASE Undo(x)
  <2>1. /\ pc[x] = "blocked" /\ pc'[x] = "rejected"
        /\ \A r \in Request \ {x} : pc'[r] = pc[r] /\ billed'[r] = billed[r]
    BY <1>7 DEF Undo, IInv, TypeOK
  <2>2. Weight(x) = call[x].tokens /\ Weight(x)' = 0 /\ ~Admitted(x) /\ ~Admitted(x)'
    BY <2>1 DEF Weight, Admitted
  <2>3. counter' = [counter EXCEPT ![own] = @ + (Weight(x)' - Weight(x))]
    <3>1. counter[own] + (Weight(x)' - Weight(x)) = counter[own] - call[x].tokens
      BY <1>4, <2>2
    <3> QED BY <1>4, <1>7, <3>1 DEF Undo
  <2>4. /\ AbstractStatus[x] = "none" /\ AbstractHold[x] = <<>>
        /\ AbstractStatus'[x] = "refused" /\ AbstractHold'[x] = <<>>
    BY <2>1 DEF AbstractStatus, AbstractHold, Final
  <2>5. AbstractHold' = AbstractHold
    BY <1>6, <2>1, <2>3, <2>4, Entries DEF EntryPerRequest
  <2>6. [k \in Key |-> Committed(k)]' = [k \in Key |-> Committed(k)]
    <3>1. Committed(own) - 0 + 0 = Committed(own)
      BY <1>5
    <3> QED BY <1>6, <2>1, <2>2, <2>3, <3>1
  <2>7. Ledger!Refuse(x)
    BY <1>6, <2>1, <2>3, <2>4, <2>5, <2>6 DEF Ledger!Refuse
  <2> QED
    BY <2>7 DEF Ledger!Next
<1>8. CASE Release(x)
  <2>1. /\ pc[x] = "held" /\ pc'[x] = "released"
        /\ \A r \in Request \ {x} : pc'[r] = pc[r] /\ billed'[r] = billed[r]
    BY <1>8 DEF Release, IInv, TypeOK
  <2>2. Weight(x) = call[x].tokens /\ Weight(x)' = 0 /\ Admitted(x) /\ ~Admitted(x)'
    BY <2>1 DEF Weight, Admitted
  <2>3. counter' = [counter EXCEPT ![own] = @ + (Weight(x)' - Weight(x))]
    <3>1. counter[own] + (Weight(x)' - Weight(x)) = counter[own] - call[x].tokens
      BY <1>4, <2>2
    <3> QED BY <1>4, <1>8, <3>1 DEF Release
  <2>4. /\ AbstractStatus[x] = "held" /\ AbstractStatus'[x] = "cancelled"
        /\ AbstractHold[x] = <<own, call[x].tokens>>
        /\ AbstractHold'[x] = <<own, call[x].tokens>>
    BY <1>2, <1>3, <1>4, <2>1 DEF AbstractStatus, AbstractHold
  <2>5. AbstractHold' = AbstractHold
    BY <1>6, <2>1, <2>3, <2>4, Entries DEF EntryPerRequest
  <2>6. [k \in Key |-> Committed(k)]' =
           [[k \in Key |-> Committed(k)] EXCEPT ![own] = @ - call[x].tokens]
    <3>1. Committed(own) - Weight(x) + 0 = Committed(own) - call[x].tokens
      BY <1>4, <1>5, <2>2
    <3> QED BY <1>6, <2>1, <2>2, <2>3, <3>1
  <2>7. Ledger!Cancel(x)
    BY <1>6, <2>1, <2>3, <2>4, <2>5, <2>6 DEF Ledger!Cancel
  <2> QED
    BY <2>7 DEF Ledger!Next
<1>9. CASE actual \in Usage(x) /\ Reconcile(x, actual)
  <2>1. /\ pc[x] = "held" /\ pc'[x] = "reconciled" /\ billed'[x] = actual
        /\ \A r \in Request \ {x} : pc'[r] = pc[r] /\ billed'[r] = billed[r]
    BY <1>9 DEF Reconcile, IInv, TypeOK
  <2>2. Weight(x) = call[x].tokens /\ Weight(x)' = actual /\ Admitted(x) /\ Admitted(x)'
    BY <2>1 DEF Weight, Admitted
  <2>3. counter' = [counter EXCEPT ![own] = @ + (Weight(x)' - Weight(x))]
    BY <1>4, <1>9, <2>1, <2>2 DEF Reconcile, IInv, TypeOK
  <2>4. /\ AbstractStatus[x] = "held" /\ AbstractStatus'[x] = "billed"
        /\ AbstractHold[x] = <<own, call[x].tokens>>
        /\ AbstractHold'[x] = <<own, call[x].tokens>>
    BY <1>2, <1>3, <1>4, <2>1 DEF AbstractStatus, AbstractHold
  <2>5. AbstractHold' = AbstractHold
    BY <1>6, <2>1, <2>3, <2>4, Entries DEF EntryPerRequest
  <2>6. [k \in Key |-> Committed(k)]' =
           [[k \in Key |-> Committed(k)] EXCEPT ![own] = @ - call[x].tokens + actual]
    <3>1. Committed(own) - Weight(x) + Weight(x)'
             = Committed(own) - call[x].tokens + actual
      BY <2>2
    <3> QED BY <1>6, <2>1, <2>2, <2>3, <3>1
  <2>7. Ledger!Bill(x, actual)
    BY <1>6, <2>1, <2>3, <2>4, <2>5, <2>6 DEF Ledger!Bill
  <2>8. actual \in {p + c : p \in Prompt, c \in UNION {0 .. est : est \in Estimate}}
    <3>1. PICK p \in Prompt, c \in 0 .. call[x].tokens : actual = p + c
      BY <1>9, <2>1 DEF Usage
    <3> QED
      BY <1>4, <3>1
  <2> QED
    BY <2>7, <2>8 DEF Ledger!Next
<1>10. CASE Die(x)
  <2>1. /\ \A r \in Request \ {x} : pc'[r] = pc[r] /\ billed'[r] = billed[r]
        /\ \/ pc[x] = "reserving" /\ pc'[x] = "failed"
           \/ pc[x] = "blocked" /\ pc'[x] = "stray"
           \/ pc[x] = "held" /\ pc'[x] = "leaked"
    BY <1>10 DEF Die, IInv, TypeOK
  <2>2. /\ Weight(x) \in Nat /\ Weight(x)' = Weight(x) /\ (Admitted(x)' <=> Admitted(x))
    BY <1>2, <1>4, <2>1 DEF Weight, Admitted
  <2>3. counter' = [counter EXCEPT ![own] = @ + (Weight(x)' - Weight(x))]
    BY <1>4, <1>10, <2>2 DEF Die, IInv, TypeOK
  <2>4. \/ /\ AbstractStatus[x] = "none" /\ AbstractHold[x] = <<>>
           /\ AbstractStatus'[x] = "refused" /\ AbstractHold'[x] = <<>>
        \/ /\ AbstractStatus[x] = "held" /\ AbstractStatus'[x] = "lost"
           /\ AbstractHold[x] = <<own, call[x].tokens>>
           /\ AbstractHold'[x] = <<own, call[x].tokens>>
    BY <1>2, <1>3, <1>4, <2>1 DEF AbstractStatus, AbstractHold, Final
  <2>5. AbstractHold' = AbstractHold
    BY <1>6, <2>1, <2>3, <2>4, Entries DEF EntryPerRequest
  <2>6. [k \in Key |-> Committed(k)]' = [k \in Key |-> Committed(k)]
    <3>1. Committed(own) - (IF Admitted(x) THEN Weight(x) ELSE 0)
             + (IF Admitted(x)' THEN Weight(x)' ELSE 0) = Committed(own)
      BY <1>5, <2>2
    <3> QED BY <1>6, <2>1, <2>3, <3>1
  <2>7. Ledger!Refuse(x) \/ Ledger!Lose(x)
    BY <1>6, <2>1, <2>3, <2>4, <2>5, <2>6 DEF Ledger!Refuse, Ledger!Lose
  <2> QED
    BY <2>7 DEF Ledger!Next
<1> QED
  BY <1>1, <1>7, <1>8, <1>9, <1>10

\* The start of a call and midnight are invisible in the ledger.
LEMMA IdleInLedger ==
    ASSUME IInv, IInv', Idle
    PROVE  UNCHANGED Ledger!vars
<1>1. ASSUME NEW r \in Request
      PROVE  /\ AbstractStatus'[r] = AbstractStatus[r]
             /\ AbstractHold'[r] = AbstractHold[r]
  <2>1. CASE pc[r] = "idle"
    <3>1. pc'[r] \in {"idle", "reserving"}
      BY <2>1 DEF Idle
    <3> QED
      BY <2>1, <3>1 DEF AbstractStatus, AbstractHold
  <2>2. CASE pc[r] # "idle"
    <3>1. pc'[r] = pc[r] /\ call'[r] = call[r]
      BY <2>2 DEF Idle
    <3>2. AbstractStatus'[r] = AbstractStatus[r] /\ StartKey(r)' = StartKey(r)
      BY <3>1 DEF AbstractStatus, StartKey
    <3> QED
      BY <3>1, <3>2 DEF AbstractHold
  <2> QED BY <2>1, <2>2
<1>2. AbstractStatus' = AbstractStatus /\ AbstractHold' = AbstractHold
  <2>1. EntryPerRequest /\ EntryPerRequest'
    BY Entries, PTL
  <2> QED
    BY <1>1, <2>1 DEF EntryPerRequest
<1>3. ASSUME NEW k \in Key
      PROVE  Committed(k)' = Committed(k)
  <2>1. ASSUME NEW r \in Request
        PROVE  Admissions(k)'[r] = Admissions(k)[r]
    <3>1. CASE pc[r] = "idle"
      <4>1. pc'[r] \in {"idle", "reserving"}
        BY <3>1 DEF Idle
      <4> QED
        BY <3>1, <4>1 DEF Admissions, Admitted, On
    <3>2. CASE pc[r] # "idle"
      <4>1. pc'[r] = pc[r] /\ call'[r] = call[r] /\ billed'[r] = billed[r]
        BY <3>2 DEF Idle
      <4>2. /\ On(r, k)' <=> On(r, k)
            /\ Admitted(r)' <=> Admitted(r)
            /\ Weight(r)' = Weight(r)
        BY <4>1 DEF On, StartKey, Admitted, Weight
      <4> QED
        BY <4>2 DEF Admissions
    <3> QED BY <3>1, <3>2
  <2>2. Admissions(k)' = Admissions(k)
    BY <2>1 DEF Admissions
  <2> QED
    BY <2>2 DEF Committed
<1>4. [k \in Key |-> Committed(k)]' = [k \in Key |-> Committed(k)]
  BY <1>3 DEF Key, Day
<1> QED
  BY <1>2, <1>4 DEF Ledger!vars

\* An empty ledger has an entry for nobody.
LEMMA InitInLedger == Init => Ledger!Init
<1> SUFFICES ASSUME Init PROVE Ledger!Init
  OBVIOUS
<1>1. AbstractStatus = [r \in Request |-> "none"]
  BY DEF Init, AbstractStatus
<1>2. AbstractHold = [r \in Request |-> <<>>]
  BY <1>1 DEF AbstractHold
<1>3. ASSUME NEW k \in Key
      PROVE  Committed(k) = 0
  <2>1. \A r \in Request : Admissions(k)[r] = 0
    BY DEF Init, Admissions, On
  <2> QED
    BY <2>1, TotalZero DEF Committed
<1> QED
  BY <1>1, <1>2, <1>3 DEF Ledger!Init

\* Every step of the tracker is one step of the ledger, or none.
LEMMA StepInLedger ==
    IInv /\ IInv' /\ Estimated /\ [Next]_vars => [Ledger!Next]_(Ledger!vars)
<1> SUFFICES ASSUME IInv, IInv', Estimated, [Next]_vars
             PROVE  [Ledger!Next]_(Ledger!vars)
  OBVIOUS
<1>1. ASSUME NEW r \in Request, NEW a \in Account, NEW est \in Estimate,
             Begin(r, a, est)
      PROVE  Idle
  BY <1>1 DEF Begin, Idle, IInv, TypeOK
<1>2. ASSUME Tick \/ Done \/ UNCHANGED vars
      PROVE  Idle
  BY <1>2 DEF Tick, Done, vars, Idle
<1> QED
  BY <1>1, <1>2, IdleInLedger, ChargeInLedger, SettleInLedger DEF Next

\* The tracker implements the ledger: although reserve() is three steps of Redis
\* between which others run and any may be its last, all that can be seen of it is
\* an indivisible check-and-reserve, settled at most once.
THEOREM TrackerImplementsLedger == Spec => ImplementsLedger
<1>1. Init => Estimated
  BY DEF Init, Estimated
<1>2. IInv => TypeOK
  BY DEF IInv
<1>3. Spec => []Estimated
  BY <1>1, <1>2, EstimatedStep, Accounting, PTL DEF Spec
<1> QED
  BY <1>3, InitInLedger, StepInLedger, Accounting, PTL
     DEF Spec, ImplementsLedger, Ledger!Spec
=============================================================================
