------------------------------ MODULE AppProofs ------------------------------
(***************************************************************************)
(* Proofs about App for every finite set of requests, of either route, and *)
(* every number of permits.                                                *)
(***************************************************************************)
EXTENDS App, FiniteSetTheorems, TLAPS

\* The requests that hold a permit.
Holding == Calling \cap Legacy

\* A process that does not serve yet has no runtime and no poller, and from the start
\* of its build until it closes it has its session.
PhasesFit ==
    /\ phase \in {"main", "importing", "starting", "building", "loading"} =>
           runtime = "none" /\ ~poller
    /\ phase \in {"building", "loading", "serving", "draining"} => session = "open"
    /\ phase \in {"closing", "stopped"} => ~poller
    /\ poller => runtime = "built" /\ session = "open"

\* Requests are under way only while the process serves or drains, those that wait are
\* of the legacy route, and those past authentication have found a runtime.
RequestsFit ==
    \A r \in Request :
        /\ InFlight(r) => phase \in {"serving", "draining"}
        /\ at[r] = "waiting" => r \in Legacy
        /\ at[r] \in {"reading", "waiting", "calling"} => runtime = "built"

\* The inductive invariant.
IInv == TypeOK /\ PermitsConserved /\ PhasesFit /\ RequestsFit

-----------------------------------------------------------------------------
\* The longest waiter leaves the queue and everybody else stays.
LEMMA Dequeue ==
    ASSUME NEW S, NEW q \in Seq(S), q # <<>>, IsInjective(q)
    PROVE  /\ Head(q) \in ToSet(q) /\ Head(q) \in S
           /\ Tail(q) \in Seq(S)
           /\ ToSet(Tail(q)) = ToSet(q) \ {Head(q)}
           /\ IsInjective(Tail(q))
<1>1. /\ Len(q) \in Nat \ {0} /\ DOMAIN q = 1 .. Len(q)
      /\ Head(q) = q[1] /\ Head(q) \in S
  OBVIOUS
<1>2. /\ Tail(q) \in Seq(S) /\ DOMAIN Tail(q) = 1 .. Len(q) - 1
      /\ \A i \in 1 .. Len(q) - 1 : Tail(q)[i] = q[i + 1]
  BY <1>1
<1>3. \A a, b \in 1 .. Len(q) : q[a] = q[b] => a = b
  BY <1>1 DEF IsInjective
<1>4. IsInjective(Tail(q))
  <2> SUFFICES ASSUME NEW a \in 1 .. Len(q) - 1, NEW b \in 1 .. Len(q) - 1,
                      Tail(q)[a] = Tail(q)[b]
               PROVE  a = b
    BY <1>2 DEF IsInjective
  <2>1. a + 1 \in 1 .. Len(q) /\ b + 1 \in 1 .. Len(q)
    BY <1>1
  <2> QED
    BY <1>2, <1>3, <2>1
<1>5. ASSUME NEW x
      PROVE  x \in ToSet(Tail(q)) <=> x \in ToSet(q) \ {Head(q)}
  <2>1. ASSUME NEW i \in 1 .. Len(q) - 1, x = Tail(q)[i]
        PROVE  x \in ToSet(q) \ {Head(q)}
    <3>1. i + 1 \in 1 .. Len(q) /\ i + 1 # 1 /\ x = q[i + 1] /\ 1 \in 1 .. Len(q)
      BY <1>1, <1>2, <2>1
    <3> QED
      BY <1>1, <1>3, <3>1 DEF ToSet
  <2>2. ASSUME NEW i \in 1 .. Len(q), x = q[i], x # Head(q)
        PROVE  x \in ToSet(Tail(q))
    <3>1. i - 1 \in 1 .. Len(q) - 1 /\ Tail(q)[i - 1] = x
      BY <1>1, <1>2, <2>2
    <3> QED
      BY <1>2, <3>1 DEF ToSet
  <2> QED
    BY <1>1, <1>2, <2>1, <2>2 DEF ToSet
<1>6. Head(q) \in ToSet(q)
  BY <1>1 DEF ToSet
<1>7. ToSet(Tail(q)) = ToSet(q) \ {Head(q)}
  BY <1>5
<1> QED
  BY <1>1, <1>2, <1>4, <1>6, <1>7

\* A newcomer queues behind all others.
LEMMA Enqueue ==
    ASSUME NEW S, NEW q \in Seq(S), NEW r \in S, r \notin ToSet(q), IsInjective(q)
    PROVE  /\ Append(q, r) \in Seq(S)
           /\ Append(q, r) # <<>>
           /\ ToSet(Append(q, r)) = ToSet(q) \cup {r}
           /\ IsInjective(Append(q, r))
<1> DEFINE p == Append(q, r)
<1>1. /\ Len(q) \in Nat /\ DOMAIN q = 1 .. Len(q)
      /\ p \in Seq(S) /\ p # <<>> /\ DOMAIN p = 1 .. Len(q) + 1
      /\ p[Len(q) + 1] = r /\ \A i \in 1 .. Len(q) : p[i] = q[i]
  OBVIOUS
<1> HIDE DEF p
<1>2. \A a, b \in 1 .. Len(q) : q[a] = q[b] => a = b
  BY <1>1 DEF IsInjective
<1>3. \A a \in 1 .. Len(q) : q[a] # r
  BY <1>1 DEF ToSet
<1>4. \A a \in 1 .. Len(q) + 1 : a \in 1 .. Len(q) \/ a = Len(q) + 1
  BY <1>1
<1>5. IsInjective(p)
  BY <1>1, <1>2, <1>3, <1>4 DEF IsInjective
<1>6. ToSet(p) = ToSet(q) \cup {r}
  <2>1. 1 .. Len(q) \subseteq DOMAIN p /\ Len(q) + 1 \in DOMAIN p
    BY <1>1
  <2> QED
    BY <1>1, <1>4, <2>1 DEF ToSet
<1> QED
  BY <1>1, <1>5, <1>6 DEF p

\* Permits are counted by a number.
LEMMA HoldingFinite == IsFiniteSet(Holding) /\ Cardinality(Holding) \in Nat
BY AppAssumption, FS_Subset, FS_CardinalityType DEF Holding, Calling

\* A process that starts has all permits, no request and no gateway.
LEMMA InitHolds == Init => IInv
<1> SUFFICES ASSUME Init PROVE IInv
  OBVIOUS
<1>1. TypeOK
  <2>1. Permits \in 0 .. Permits /\ <<>> \in Seq(Request)
    BY AppAssumption
  <2> QED
    BY <2>1 DEF Init, TypeOK
<1>2. Holding = {} /\ ToSet(queue) = {} /\ IsInjective(queue)
  BY DEF Init, Holding, Calling, ToSet, IsInjective
<1>3. PermitsConserved
  <2>1. free + Cardinality(Calling \cap Legacy) = Permits
    <3>1. Cardinality(Calling \cap Legacy) = 0
      BY <1>2, FS_EmptySet, Zenon DEF Holding
    <3> QED
      BY <3>1, AppAssumption DEF Init
  <2>2. ToSet(queue) = {r \in Request : at[r] = "waiting"}
    BY <1>2 DEF Init
  <2> QED
    BY <1>2, <2>1, <2>2 DEF Init, PermitsConserved
<1> QED
  BY <1>1, <1>3 DEF Init, IInv, PhasesFit, RequestsFit, InFlight

-----------------------------------------------------------------------------
\* What a step of request r does to the semaphore, given where it takes r.
\* A request that leaves the block hands its permit over.
LEMMA HandOverHolds ==
    ASSUME TypeOK, PermitsConserved, RequestsFit,
           NEW r \in Legacy, at[r] = "calling", HandOver(r)
    PROVE  /\ PermitsConserved'
           /\ free' \in 0 .. Permits /\ queue' \in Seq(Request)
           /\ at' = [q \in Request |->
                       IF q = r THEN "answered"
                       ELSE IF queue # <<>> /\ q = Head(queue) THEN "calling" ELSE at[q]]
           /\ queue # <<>> => Head(queue) \in Legacy /\ at[Head(queue)] = "waiting"
<1> USE DEF TypeOK
<1>1. /\ r \in Request /\ r \in Holding /\ Permits \in Nat /\ free \in Nat
      /\ free + Cardinality(Holding) = Permits
      /\ IsFiniteSet(Holding) /\ Cardinality(Holding) \in Nat
  BY AppAssumption, HoldingFinite DEF PermitsConserved, Holding, Calling
<1>2. IsFiniteSet(Holding \ {r}) /\ Cardinality(Holding \ {r}) = Cardinality(Holding) - 1
  BY <1>1, FS_RemoveElement
<1>3. CASE queue = <<>>
  <2>1. at' = [at EXCEPT ![r] = "answered"] /\ free' = free + 1 /\ queue' = queue
    BY <1>3 DEF HandOver, Goto
  <2>2. Holding' = Holding \ {r}
    BY <1>1, <2>1 DEF Holding, Calling
  <2>3. Cardinality(Holding \ {r}) \in Nat
    BY <1>2, FS_CardinalityType
  <2>4. free' + Cardinality(Holding') = Permits /\ free' \in 0 .. Permits
    <3>1. Cardinality(Holding') = Cardinality(Holding \ {r})
      BY <2>2, Zenon
    <3> QED
      BY <1>1, <1>2, <2>1, <2>3, <3>1
  <2>5. ToSet(queue') = {q \in Request : at'[q] = "waiting"}
    BY <1>1, <2>1 DEF PermitsConserved, Holding, Calling
  <2>6. PermitsConserved'
    BY <1>3, <2>1, <2>4, <2>5 DEF PermitsConserved, Holding
  <2> QED
    BY <1>3, <2>1, <2>4, <2>6
<1>4. CASE queue # <<>>
  <2> DEFINE h == Head(queue)
  <2>1. /\ at' = [at EXCEPT ![r] = "answered", ![h] = "calling"]
        /\ queue' = Tail(queue) /\ free' = free
    BY <1>4 DEF HandOver
  <2>2. /\ h \in ToSet(queue) /\ h \in Request /\ Tail(queue) \in Seq(Request)
        /\ ToSet(Tail(queue)) = ToSet(queue) \ {h} /\ IsInjective(Tail(queue))
    BY <1>4, Dequeue DEF PermitsConserved
  <2> HIDE DEF h
  <2>3. h \in Legacy /\ at[h] = "waiting" /\ h # r
    BY <2>2 DEF PermitsConserved, RequestsFit
  <2>4. Holding' = (Holding \ {r}) \cup {h} /\ h \notin Holding \ {r}
    BY <1>1, <2>1, <2>2, <2>3 DEF Holding, Calling
  <2>5. Cardinality(Holding') = Cardinality(Holding)
    <3>1. Cardinality((Holding \ {r}) \cup {h}) = Cardinality(Holding \ {r}) + 1
      BY <1>2, <2>4, FS_AddElement
    <3>2. Cardinality(Holding') = Cardinality((Holding \ {r}) \cup {h})
      BY <2>4, Zenon
    <3> QED
      BY <1>1, <1>2, <3>1, <3>2
  <2>6. free = 0
    BY <1>4 DEF PermitsConserved
  <2>7. ToSet(queue') = {q \in Request : at'[q] = "waiting"}
    BY <1>1, <2>1, <2>2, <2>3 DEF PermitsConserved
  <2>8. PermitsConserved'
    BY <1>1, <2>1, <2>2, <2>5, <2>6, <2>7 DEF PermitsConserved, Holding
  <2> QED
    BY <1>4, <2>1, <2>2, <2>3, <2>8 DEF h
<1> QED
  BY <1>3, <1>4

\* A request that neither takes nor returns a permit, nor waits, leaves the semaphore
\* as it is.
LEMMA ElsewhereHolds ==
    ASSUME TypeOK, PermitsConserved, NEW r \in Request, NEW place,
           at' = [at EXCEPT ![r] = place], free' = free, queue' = queue,
           at[r] # "waiting", place # "waiting",
           r \in Legacy => at[r] # "calling" /\ place # "calling"
    PROVE  PermitsConserved'
<1>1. Holding' = Holding
  BY DEF TypeOK, Holding, Calling
<1>2. Cardinality(Holding') = Cardinality(Holding)
  BY <1>1, Zenon
<1>3. ToSet(queue') = {q \in Request : at'[q] = "waiting"}
  BY DEF TypeOK, PermitsConserved
<1> QED
  BY <1>2, <1>3 DEF PermitsConserved, Holding

\* A request that enters the block takes a permit, or a place in the queue.
LEMMA AcquireHolds ==
    ASSUME TypeOK, PermitsConserved,
           NEW r \in Legacy, at[r] = "reading", Acquire(r)
    PROVE  /\ PermitsConserved'
           /\ free' \in 0 .. Permits /\ queue' \in Seq(Request)
           /\ at' \in {[at EXCEPT ![r] = "calling"], [at EXCEPT ![r] = "waiting"]}
<1> USE DEF TypeOK
<1>1. /\ r \in Request /\ r \notin Holding /\ r \notin ToSet(queue)
      /\ Permits \in Nat /\ free \in Nat
      /\ free + Cardinality(Holding) = Permits
      /\ IsFiniteSet(Holding) /\ Cardinality(Holding) \in Nat
  BY AppAssumption, HoldingFinite DEF PermitsConserved, Holding, Calling
<1>2. CASE free > 0
  <2>1. at' = [at EXCEPT ![r] = "calling"] /\ free' = free - 1 /\ queue' = queue
    BY <1>2 DEF Acquire, Goto
  <2>2. Holding' = Holding \cup {r}
    BY <1>1, <2>1 DEF Holding, Calling
  <2>3. Cardinality(Holding \cup {r}) = Cardinality(Holding) + 1
    BY <1>1, FS_AddElement
  <2>4. Cardinality(Holding') = Cardinality(Holding) + 1
    BY <2>2, <2>3, Zenon
  <2>5. queue = <<>>
    BY <1>1, <1>2 DEF PermitsConserved
  <2>6. ToSet(queue') = {q \in Request : at'[q] = "waiting"}
    BY <1>1, <2>1 DEF PermitsConserved
  <2>7. PermitsConserved'
    BY <1>1, <2>1, <2>4, <2>5, <2>6 DEF PermitsConserved, Holding
  <2> QED
    BY <1>1, <1>2, <2>1, <2>7
<1>3. CASE ~(free > 0)
  <2>1. at' = [at EXCEPT ![r] = "waiting"] /\ free' = free /\ queue' = Append(queue, r)
    BY <1>3 DEF Acquire, Goto
  <2>2. /\ Append(queue, r) \in Seq(Request) /\ IsInjective(Append(queue, r))
        /\ ToSet(Append(queue, r)) = ToSet(queue) \cup {r}
    BY <1>1, Enqueue DEF PermitsConserved
  <2>3. Holding' = Holding
    BY <1>1, <2>1 DEF Holding, Calling
  <2>4. Cardinality(Holding') = Cardinality(Holding)
    BY <2>3, Zenon
  <2>5. ToSet(queue') = {q \in Request : at'[q] = "waiting"}
    BY <1>1, <2>1, <2>2 DEF PermitsConserved
  <2>6. PermitsConserved'
    BY <1>1, <1>3, <2>1, <2>2, <2>4, <2>5 DEF PermitsConserved, Holding
  <2> QED
    BY <2>1, <2>2, <2>6
<1> QED
  BY <1>2, <1>3

\* The end of a process gives all permits back: nobody holds one or waits.
LEMMA KillHolds == ASSUME TypeOK, Kill PROVE PermitsConserved'
<1>1. Holding' = {} /\ ToSet(queue') = {} /\ IsInjective(queue') /\ queue' = <<>>
  BY DEF TypeOK, Kill, Holding, Calling, InFlight, ToSet, IsInjective
<1>2. Cardinality(Holding') = 0
  BY <1>1, FS_EmptySet, Zenon
<1>3. {q \in Request : at'[q] = "waiting"} = {}
  BY DEF TypeOK, Kill, InFlight
<1>4. free' + Cardinality((Calling \cap Legacy)') = Permits
  BY <1>2, AppAssumption DEF Kill, Holding
<1> QED
  BY <1>1, <1>3, <1>4 DEF PermitsConserved

-----------------------------------------------------------------------------
\* Steps of the process alone, and of the operating system.
LEMMA ProcessStep ==
    ASSUME IInv, Start \/ Sigterm \/ Stop
    PROVE  IInv'
<1> USE DEF IInv
<1>1. free' = free /\ queue' = queue /\ at' = at /\ reply' = reply
  <2>1. CASE Startup
    <3>1. Holding = {}
      BY <2>1 DEF Startup, Holding, Calling, RequestsFit, InFlight
    <3>2. Cardinality(Holding) = 0
      BY <3>1, FS_EmptySet
    <3>3. free = Permits
      BY <3>2, AppAssumption DEF TypeOK, PermitsConserved, Holding
    <3> QED
      BY <2>1, <3>3 DEF Startup
  <2> QED
    BY <2>1 DEF Start, Stop, Main, Import, CreateSchema, BuildFails, Wire, Sigterm,
                Shutdown, ShutdownFails, CloseSession, semaphoreVars
<1>2. Holding' = Holding
  BY <1>1 DEF Holding, Calling
<1>3. Cardinality(Holding') = Cardinality(Holding)
  BY <1>2, Zenon
<1>4. PermitsConserved'
  BY <1>1, <1>3 DEF PermitsConserved, Holding
<1> USE <1>1 DEF TypeOK, PhasesFit, RequestsFit, InFlight
<1>5. CASE Main
  <2>1. TypeOK'
    BY <1>5 DEF Main
  <2>2. PhasesFit' /\ RequestsFit'
    BY <1>5 DEF Main
  <2> QED
    BY <1>4, <2>1, <2>2
<1>6. CASE Import
  <2>1. TypeOK'
    BY <1>6 DEF Import
  <2>2. PhasesFit' /\ RequestsFit'
    BY <1>6 DEF Import
  <2> QED
    BY <1>4, <2>1, <2>2
<1>7. CASE Startup
  <2>1. TypeOK'
    BY <1>7 DEF Startup
  <2>2. PhasesFit' /\ RequestsFit'
    BY <1>7 DEF Startup
  <2> QED
    BY <1>4, <2>1, <2>2
<1>8. CASE CreateSchema
  <2>1. TypeOK'
    BY <1>8 DEF CreateSchema
  <2>2. PhasesFit' /\ RequestsFit'
    BY <1>8 DEF CreateSchema
  <2> QED
    BY <1>4, <2>1, <2>2
<1>9. CASE BuildFails
  <2>1. TypeOK'
    BY <1>9 DEF BuildFails
  <2>2. PhasesFit' /\ RequestsFit'
    BY <1>9 DEF BuildFails
  <2> QED
    BY <1>4, <2>1, <2>2
<1>10. CASE Wire
  <2>1. TypeOK'
    BY <1>10 DEF Wire
  <2>2. PhasesFit' /\ RequestsFit'
    BY <1>10 DEF Wire
  <2> QED
    BY <1>4, <2>1, <2>2
<1>11. CASE Sigterm
  <2>1. TypeOK'
    BY <1>11 DEF Sigterm
  <2>2. PhasesFit' /\ RequestsFit'
    BY <1>11 DEF Sigterm
  <2> QED
    BY <1>4, <2>1, <2>2
<1>12. CASE Shutdown
  <2>1. TypeOK'
    <3>1. /\ phase' \in {"closing", "stopped"} /\ runtime' \in {"none", "built", "shut"}
          /\ poller' = FALSE /\ available' = available /\ session' = session
      BY <1>12 DEF Shutdown
    <3> QED
      BY <3>1
  <2>2. PhasesFit' /\ RequestsFit'
    BY <1>12 DEF Shutdown, Drained
  <2> QED
    BY <1>4, <2>1, <2>2
<1>13. CASE ShutdownFails
  <2>1. TypeOK'
    <3>1. /\ phase' \in {"closing", "stopped"} /\ runtime' \in {"none", "built", "shut"}
          /\ poller' = FALSE /\ available' = available /\ session' = session
      BY <1>13 DEF ShutdownFails
    <3> QED
      BY <3>1
  <2>2. PhasesFit' /\ RequestsFit'
    BY <1>13 DEF ShutdownFails, Drained
  <2> QED
    BY <1>4, <2>1, <2>2
<1>14. CASE CloseSession
  <2>1. TypeOK'
    BY <1>14 DEF CloseSession
  <2>2. PhasesFit' /\ RequestsFit'
    BY <1>14 DEF CloseSession
  <2> QED
    BY <1>4, <2>1, <2>2
<1> QED
  BY <1>5, <1>6, <1>7, <1>8, <1>9, <1>10, <1>11, <1>12, <1>13, <1>14 DEF Start, Stop

\* Steps of requests before the block.
LEMMA EntryStep ==
    ASSUME IInv, NEW r \in Request,
           Arrive(r) \/ Unauthenticated(r) \/ Authenticated(r) \/ TooLarge(r) \/ Read(r)
    PROVE  IInv'
<1> USE DEF IInv
<1> DEFINE Status == {0, 200, 404, 500} \cup {HttpStatus[e] : e \in DOMAIN HttpStatus}
<1>1. /\ phase' = phase /\ available' = available /\ session' = session
      /\ runtime' = runtime /\ poller' = poller
  BY DEF Arrive, Unauthenticated, Authenticated, TooLarge, Read, processVars
<1>2. {0, 401, 404, 413, 500, 503} \subseteq Status /\ HttpStatus.AuthenticationError = 401
      /\ HttpStatus.PayloadTooLarge = 413
  BY DEF HttpStatus
<1> HIDE DEF Status
<1>3. CASE Arrive(r) \/ Unauthenticated(r) \/ Authenticated(r) \/ TooLarge(r)
  <2>1. PICK place \in {"authenticating", "reading", "calling", "answered"} :
            /\ at' = [at EXCEPT ![r] = place] /\ free' = free /\ queue' = queue
            /\ at[r] \in {"new", "authenticating", "reading"}
            /\ place = "authenticating" => phase = "serving"
            /\ place \in {"reading", "calling"} =>
                   runtime = "built" /\ InFlight(r)
            /\ place = "calling" => r \notin Legacy
    BY <1>3, AppAssumption
       DEF Arrive, Unauthenticated, Authenticated, TooLarge, Answer, Goto, semaphoreVars,
           InFlight
  <2>2. reply' \in [Request -> Status]
    BY <1>2, <1>3 DEF TypeOK, Status, Arrive, Unauthenticated, Authenticated, TooLarge, Answer
  <2>3. TypeOK'
    <3>1. at' \in [Request -> {"new", "authenticating", "reading", "waiting", "calling",
                               "answered", "lost"}]
      BY <2>1 DEF TypeOK
    <3>2. phase' = phase /\ free' = free /\ queue' = queue
      BY <1>1, <2>1
    <3> QED
      BY <1>1, <2>2, <3>1, <3>2 DEF TypeOK, Status
  <2>4. PermitsConserved'
    BY <2>1, ElsewhereHolds
  <2>5. PhasesFit' /\ RequestsFit'
    BY <1>1, <2>1 DEF TypeOK, PhasesFit, RequestsFit, InFlight
  <2> QED
    BY <2>3, <2>4, <2>5
<1>4. CASE Read(r)
  <2>1. at[r] = "reading" /\ reply' = reply /\ InFlight(r)
    BY <1>4 DEF Read, InFlight
  <2>2. CASE r \in Legacy
    <3>1. Acquire(r)
      BY <1>4, <2>2 DEF Read
    <3>2. /\ PermitsConserved'
          /\ free' \in 0 .. Permits /\ queue' \in Seq(Request)
          /\ at' \in {[at EXCEPT ![r] = "calling"], [at EXCEPT ![r] = "waiting"]}
      BY <2>1, <2>2, <3>1, AcquireHolds
    <3>3. PICK place \in {"calling", "waiting"} : at' = [at EXCEPT ![r] = place]
      BY <3>2
    <3>4. TypeOK'
      BY <1>1, <2>1, <3>2, <3>3 DEF TypeOK
    <3>5. PhasesFit' /\ RequestsFit'
      BY <1>1, <2>1, <2>2, <3>3 DEF TypeOK, PhasesFit, RequestsFit, InFlight
    <3> QED
      BY <3>2, <3>4, <3>5
  <2>3. CASE r \notin Legacy
    <3>1. at' = [at EXCEPT ![r] = "calling"] /\ free' = free /\ queue' = queue
      BY <1>4, <2>3 DEF Read, Goto, semaphoreVars
    <3>2. PermitsConserved'
      BY <2>1, <2>3, <3>1, ElsewhereHolds
    <3>3. TypeOK'
      BY <1>1, <2>1, <3>1 DEF TypeOK
    <3>4. PhasesFit' /\ RequestsFit'
      BY <1>1, <2>1, <3>1 DEF TypeOK, PhasesFit, RequestsFit, InFlight
    <3> QED
      BY <3>2, <3>3, <3>4
  <2> QED
    BY <2>2, <2>3
<1> QED
  BY <1>3, <1>4

\* The end of handle_request(), whatever it was.
LEMMA LeaveStep ==
    ASSUME IInv, NEW r \in Request, Generated(r) \/ Refused(r) \/ Fails(r)
    PROVE  IInv'
<1> USE DEF IInv
<1> DEFINE Status == {0, 200, 404, 500} \cup {HttpStatus[e] : e \in DOMAIN HttpStatus}
<1>1. /\ phase' = phase /\ available' = available /\ session' = session
      /\ runtime' = runtime /\ poller' = poller /\ at[r] = "calling"
  BY DEF Generated, Refused, Fails, processVars
<1>2. ServiceErrors \subseteq DOMAIN HttpStatus
  BY DEF ServiceErrors, HttpStatus
<1>3. PICK status \in Status : Leave(r, status)
  BY <1>2 DEF Generated, Refused, Fails
<1> HIDE DEF Status
<1>4. reply' \in [Request -> Status]
  BY <1>3 DEF TypeOK, Leave, Status
<1>5. CASE r \in Legacy
  <2>1. HandOver(r)
    BY <1>3, <1>5 DEF Leave
  <2>2. /\ PermitsConserved'
        /\ free' \in 0 .. Permits /\ queue' \in Seq(Request)
        /\ at' = [q \in Request |->
                    IF q = r THEN "answered"
                    ELSE IF queue # <<>> /\ q = Head(queue) THEN "calling" ELSE at[q]]
        /\ queue # <<>> => Head(queue) \in Legacy /\ at[Head(queue)] = "waiting"
    BY <1>1, <1>5, <2>1, HandOverHolds
  <2>3. TypeOK'
    <3>1. at' \in [Request -> {"new", "authenticating", "reading", "waiting", "calling",
                               "answered", "lost"}]
      BY <2>2 DEF TypeOK
    <3>2. phase' = phase /\ reply' \in [Request -> Status]
      BY <1>1, <1>4
    <3> QED
      BY <1>1, <2>2, <3>1, <3>2 DEF TypeOK, Status
  <2>4. PhasesFit' /\ RequestsFit'
    BY <1>1, <2>2 DEF TypeOK, PhasesFit, RequestsFit, InFlight
  <2> QED
    BY <2>2, <2>3, <2>4
<1>6. CASE r \notin Legacy
  <2>1. at' = [at EXCEPT ![r] = "answered"] /\ free' = free /\ queue' = queue
    BY <1>3, <1>6 DEF Leave, Goto, semaphoreVars
  <2>2. PermitsConserved'
    BY <1>1, <1>6, <2>1, ElsewhereHolds
  <2>3. TypeOK'
    BY <1>1, <1>4, <2>1 DEF TypeOK, Status
  <2>4. PhasesFit' /\ RequestsFit'
    BY <1>1, <2>1 DEF TypeOK, PhasesFit, RequestsFit, InFlight
  <2> QED
    BY <2>2, <2>3, <2>4
<1> QED
  BY <1>5, <1>6

\* Every step keeps the invariant.
LEMMA StepHolds == IInv /\ [Next]_vars => IInv'
<1> SUFFICES ASSUME IInv, [Next]_vars PROVE IInv'
  OBVIOUS
<1>1. CASE Start \/ Sigterm \/ Stop
  BY <1>1, ProcessStep
<1>2. ASSUME NEW r \in Request, Arrive(r) \/ Handle(r) PROVE IInv'
  BY <1>2, EntryStep, LeaveStep DEF Handle
<1>3. CASE Kill
  <2>1. PermitsConserved'
    BY <1>3, KillHolds DEF IInv
  <2>2. TypeOK'
    <3>1. Permits \in 0 .. Permits /\ <<>> \in Seq(Request)
      BY AppAssumption
    <3> QED
      BY <1>3, <3>1 DEF IInv, TypeOK, Kill
  <2>3. PhasesFit' /\ RequestsFit'
    BY <1>3 DEF IInv, TypeOK, PhasesFit, RequestsFit, InFlight, Kill
  <2> QED
    BY <2>1, <2>2, <2>3 DEF IInv
<1>4. CASE UNCHANGED vars
  <2>1. /\ UNCHANGED <<phase, available, session, runtime, poller, free, queue, at, reply>>
    BY <1>4 DEF vars, processVars, semaphoreVars
  <2>2. Holding' = Holding
    BY <2>1 DEF Holding, Calling
  <2>3. Cardinality(Holding') = Cardinality(Holding)
    BY <2>2, Zenon
  <2>4. PermitsConserved'
    BY <2>1, <2>3 DEF IInv, PermitsConserved, Holding
  <2> QED
    BY <2>1, <2>4 DEF IInv, TypeOK, PhasesFit, RequestsFit, InFlight
<1> QED
  BY <1>1, <1>2, <1>3, <1>4 DEF Next, Done

\* Every reachable state satisfies the inductive invariant.
THEOREM AppInvariant == Spec => []IInv
BY InitHolds, StepHolds, PTL DEF Spec

\* The process, the semaphore and the requests are well formed: a semaphore's value
\* lies between none and all, its queue holds requests, and each reply is a status
\* that the code sends.
THEOREM AppTypeCorrect == Spec => []TypeOK
<1>1. IInv => TypeOK
  BY DEF IInv
<1> QED
  BY <1>1, AppInvariant, PTL

\* Permits are neither lost nor made, however many requests there are, in whatever
\* order they come and however they end; waiters queue once and none waits in vain.
THEOREM AppConservesPermits == Spec => []PermitsConserved
<1>1. IInv => PermitsConserved
  BY DEF IInv
<1> QED
  BY <1>1, AppInvariant, PTL

\* Nobody uses a gateway that was never built, or is shut already.
THEOREM AppGatewayOutlives == Spec => []GatewayOutlivesUsers
<1>1. IInv => GatewayOutlivesUsers
  BY DEF IInv, TypeOK, PhasesFit, RequestsFit, InFlight, GatewayOutlivesUsers
<1> QED
  BY <1>1, AppInvariant, PTL
=============================================================================
