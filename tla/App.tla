-------------------------------- MODULE App --------------------------------
(***************************************************************************)
(* app.py with core/bootstrap.py, api/router.py and api/deps.py: one       *)
(* process from its start, with or without a gateway, to its end, and the  *)
(* requests it gets on the legacy route (one semaphore for all of them)    *)
(* and on the gateway's own routes.                                        *)
(*                                                                         *)
(* Authentication and handle_request() are calls that may end in any way:  *)
(* Tenants and GatewayService say how.  uvicorn takes no request before    *)
(* the start-up part of lifespan is over, and runs the shutdown part when  *)
(* the last request is answered.                                           *)
(***************************************************************************)
EXTENDS Integers, FiniteSets, SequencesExt

CONSTANTS
    Request,
    Legacy,     \* requests of POST /generate-with-image
    Image,      \* requests that upload an image: all of Legacy, some of /v1
    Permits     \* MAX_CONCURRENT_REQUESTS

ASSUME AppAssumption ==
    /\ IsFiniteSet(Request)
    /\ Legacy \subseteq Image /\ Image \subseteq Request
    /\ Permits \in Nat \ {0}

VARIABLES
    phase,      \* of the process
    available,  \* GATEWAY_ROUTES_AVAILABLE
    session,    \* client_session
    runtime,    \* gateway_runtime, whose Redis client lives as long
    poller,     \* the health poller's task runs
    free,       \* the semaphore's value
    queue,      \* its waiters
    at,         \* where each request is
    reply       \* status sent, 0 before

processVars   == <<phase, available, session, runtime, poller>>
semaphoreVars == <<free, queue>>
vars          == <<processVars, semaphoreVars, at, reply>>

\* The errors of handle_request(), and those raised before it.
HttpStatus ==
    [AuthenticationError     |-> 401, RateLimitExceeded |-> 429, BudgetExceeded  |-> 402,
     ModelNotEntitled        |-> 403, ProviderTimeout   |-> 504, PayloadTooLarge |-> 413,
     AllProvidersUnavailable |-> 503]

ServiceErrors ==
    {"RateLimitExceeded", "BudgetExceeded", "ModelNotEntitled", "ProviderTimeout",
     "AllProvidersUnavailable"}

InFlight(r) == at[r] \in {"authenticating", "reading", "waiting", "calling"}

Calling == {r \in Request : at[r] = "calling"}

Running == phase \notin {"exited", "stopped", "killed"}

-----------------------------------------------------------------------------
Init ==
    /\ phase = "main"
    /\ available = FALSE
    /\ session = "none"
    /\ runtime = "none"
    /\ poller = FALSE
    /\ free = Permits
    /\ queue = <<>>
    /\ at = [r \in Request |-> "new"]
    /\ reply = [r \in Request |-> 0]

\* get_uvicorn_ssl_config: with HTTPS, both files must be there.
SslConfigured(https, cert, key) == https => cert /\ key

\* __main__.
Main ==
    /\ phase = "main"
    /\ \E https, cert, key \in BOOLEAN :
          phase' = IF SslConfigured(https, cert, key) THEN "importing" ELSE "exited"
    /\ UNCHANGED <<available, session, runtime, poller, semaphoreVars, at, reply>>

\* The guarded imports at the top of app.py, and the routes mounted with them.
Import ==
    /\ phase = "importing"
    /\ available' \in BOOLEAN
    /\ phase' = "starting"
    /\ UNCHANGED <<session, runtime, poller, semaphoreVars, at, reply>>

\* lifespan up to its first await.
Startup ==
    /\ phase = "starting"
    /\ session' = "open"
    /\ free' = Permits
    /\ phase' = IF available THEN "building" ELSE "serving"
    /\ UNCHANGED <<available, runtime, poller, queue, at, reply>>

\* build_gateway_service: the schema, then the policies.
CreateSchema ==
    /\ phase = "building"
    /\ phase' = "loading"
    /\ UNCHANGED <<available, session, runtime, poller, semaphoreVars, at, reply>>

\* Seeded bug: the poller starts before routing.yaml is read, which may fail.
BuildFailsPolling ==
    /\ phase \in {"building", "loading"}
    /\ phase' = "serving"
    /\ poller' \in {poller, phase = "loading"}
    /\ UNCHANGED <<available, session, runtime, semaphoreVars, at, reply>>

\* The database cannot be reached, or a policy or routing.yaml is wrong: the
\* exception is logged and the process serves without a gateway.
BuildFails ==
    /\ phase \in {"building", "loading"}
    /\ phase' = "serving"
    /\ UNCHANGED <<available, session, runtime, poller, semaphoreVars, at, reply>>

\* The rest of build_gateway_service has no await, and the poller is its last step.
Wire ==
    /\ phase = "loading"
    /\ runtime' = "built"
    /\ poller' \in BOOLEAN
    /\ phase' = "serving"
    /\ UNCHANGED <<available, session, semaphoreVars, at, reply>>

-----------------------------------------------------------------------------
Goto(r, place) == at' = [at EXCEPT ![r] = place]

Answer(r, status) ==
    /\ Goto(r, "answered")
    /\ reply' = [reply EXCEPT ![r] = status]

\* Without the package the /v1 routes are not there, and the legacy route's
\* authentication is _unavailable_tenant_dep.
Arrive(r) ==
    /\ phase = "serving"
    /\ at[r] = "new"
    /\ IF available THEN Goto(r, "authenticating") /\ UNCHANGED reply
                    ELSE Answer(r, IF r \in Legacy THEN 503 ELSE 404)
    /\ UNCHANGED <<processVars, semaphoreVars>>

\* The dependency authenticated_tenant raises.
Unauthenticated(r) ==
    /\ at[r] = "authenticating"
    /\ \E status \in {HttpStatus.AuthenticationError, 500} : Answer(r, status)
    /\ UNCHANGED <<processVars, semaphoreVars>>

\* The tenant is known.  Without a runtime the legacy handler says so; on the /v1
\* routes get_gateway_service finds no attribute.
Authenticated(r) ==
    /\ at[r] = "authenticating"
    /\ IF runtime = "built"
       THEN /\ Goto(r, IF r \in Image THEN "reading" ELSE "calling")
            /\ UNCHANGED reply
       ELSE Answer(r, IF r \in Legacy THEN 503 ELSE 500)
    /\ UNCHANGED <<processVars, semaphoreVars>>

TooLarge(r) ==
    /\ at[r] = "reading"
    /\ Answer(r, HttpStatus.PayloadTooLarge)
    /\ UNCHANGED <<processVars, semaphoreVars>>

\* async with semaphore: a permit, or a place in the queue.
Acquire(r) ==
    IF free > 0
    THEN Goto(r, "calling") /\ free' = free - 1 /\ UNCHANGED queue
    ELSE Goto(r, "waiting") /\ queue' = Append(queue, r) /\ UNCHANGED free

\* The image is in memory.
Read(r) ==
    /\ at[r] = "reading"
    /\ IF r \in Legacy THEN Acquire(r) ELSE Goto(r, "calling") /\ UNCHANGED semaphoreVars
    /\ UNCHANGED <<processVars, reply>>

\* Seeded bug: the longest waiter is not told.
HandOverToNobody(r) ==
    /\ Goto(r, "answered")
    /\ free' = free + 1
    /\ UNCHANGED queue

\* Leaving the block hands the permit to the longest waiter.
HandOver(r) ==
    IF queue = <<>>
    THEN Goto(r, "answered") /\ free' = free + 1 /\ UNCHANGED queue
    ELSE /\ at' = [at EXCEPT ![r] = "answered", ![Head(queue)] = "calling"]
         /\ queue' = Tail(queue)
         /\ UNCHANGED free

\* Seeded bug: the permit comes back only with an answer.
LeaveIfAnswered(r, status) ==
    /\ IF r \in Legacy /\ status = 200
       THEN HandOver(r) ELSE Goto(r, "answered") /\ UNCHANGED semaphoreVars
    /\ reply' = [reply EXCEPT ![r] = status]

\* handle_request is over.
Leave(r, status) ==
    /\ IF r \in Legacy
       THEN HandOver(r) ELSE Goto(r, "answered") /\ UNCHANGED semaphoreVars
    /\ reply' = [reply EXCEPT ![r] = status]

\* The answer, after the repair of its JSON on the legacy route.
Generated(r) ==
    /\ at[r] = "calling"
    /\ Leave(r, 200)
    /\ UNCHANGED processVars

\* A GatewayError keeps its status on both routes.
Refused(r) ==
    /\ at[r] = "calling"
    /\ \E e \in ServiceErrors : Leave(r, HttpStatus[e])
    /\ UNCHANGED processVars

\* Another error of the call, or of the repair.
Fails(r) ==
    /\ at[r] = "calling"
    /\ Leave(r, 500)
    /\ UNCHANGED processVars

-----------------------------------------------------------------------------
Sigterm ==
    /\ phase = "serving"
    /\ phase' = "draining"
    /\ UNCHANGED <<available, session, runtime, poller, semaphoreVars, at, reply>>

Drained == phase = "draining" /\ \A r \in Request : ~InFlight(r)

\* GatewayRuntime.shutdown: the poller's task is cancelled, Redis closed.
Shutdown ==
    /\ Drained
    /\ runtime' = IF runtime = "built" THEN "shut" ELSE runtime
    /\ poller' = FALSE
    /\ phase' = "closing"
    /\ UNCHANGED <<available, session, semaphoreVars, at, reply>>

\* Closing Redis raises, and the session stays open.
ShutdownFails ==
    /\ Drained
    /\ runtime = "built"
    /\ runtime' = "shut"
    /\ poller' = FALSE
    /\ phase' = "stopped"
    /\ UNCHANGED <<available, session, semaphoreVars, at, reply>>

CloseSession ==
    /\ phase = "closing"
    /\ session' = "closed"
    /\ phase' = "stopped"
    /\ UNCHANGED <<available, runtime, poller, semaphoreVars, at, reply>>

\* A second signal, or the kernel: whatever was in flight has no reply.
Kill ==
    /\ phase \in {"serving", "draining", "closing"}
    /\ phase' = "killed"
    /\ session' = "none"
    /\ runtime' = "none"
    /\ poller' = FALSE
    /\ at' = [r \in Request |-> IF InFlight(r) THEN "lost" ELSE at[r]]
    /\ free' = Permits
    /\ queue' = <<>>
    /\ UNCHANGED <<available, reply>>

Done == ~Running /\ UNCHANGED vars

Handle(r) ==
    \/ Unauthenticated(r) \/ Authenticated(r)
    \/ TooLarge(r) \/ Read(r)
    \/ Generated(r) \/ Refused(r) \/ Fails(r)

Start == Main \/ Import \/ Startup \/ CreateSchema \/ BuildFails \/ Wire

Stop == Shutdown \/ ShutdownFails \/ CloseSession

Next ==
    \/ Start
    \/ \E r \in Request : Arrive(r) \/ Handle(r)
    \/ Sigterm
    \/ Stop
    \/ Kill
    \/ Done

\* Every await replies or raises: calls of backends have a timeout, and Redis and
\* the database are assumed to answer or to fail.  No signal need come.
Spec ==
    /\ Init /\ [][Next]_vars
    /\ WF_vars(Start) /\ WF_vars(Stop)
    /\ \A r \in Request : WF_vars(Handle(r))

-----------------------------------------------------------------------------
\* The process, the semaphore and the requests.
TypeOK ==
    /\ phase \in {"main", "importing", "starting", "building", "loading", "serving",
                  "draining", "closing", "exited", "stopped", "killed"}
    /\ available \in BOOLEAN /\ poller \in BOOLEAN
    /\ session \in {"none", "open", "closed"}
    /\ runtime \in {"none", "built", "shut"}
    /\ free \in 0 .. Permits
    /\ queue \in Seq(Request)
    /\ at \in [Request -> {"new", "authenticating", "reading", "waiting", "calling",
                           "answered", "lost"}]
    /\ reply \in [Request -> {0, 200, 404, 500} \cup {HttpStatus[e] : e \in DOMAIN HttpStatus}]

\* However requests of the legacy route end, no permit is lost or made, none is free
\* while a request waits, and every waiter is in the queue once.
PermitsConserved ==
    /\ free + Cardinality(Calling \cap Legacy) = Permits
    /\ queue # <<>> => free = 0
    /\ ToSet(queue) = {r \in Request : at[r] = "waiting"}
    /\ IsInjective(queue)

\* Whoever may use the gateway, requests that wait, call or are about to, and the
\* poller, finds a runtime, its Redis client and an open session: after a failed
\* start and during shutdown too.
GatewayOutlivesUsers ==
    poller \/ (\E r \in Request : at[r] \in {"reading", "waiting", "calling"}) =>
        runtime = "built" /\ session = "open"

\* Every request that the process takes is answered unless the process is killed:
\* waiters of the semaphore too, while new requests keep coming.
EveryRequestIsAnswered ==
    \A r \in Request : InFlight(r) ~> at[r] \in {"answered", "lost"}

\* A process told to stop stops, with requests in the semaphore's queue too.
ShutdownCompletes == phase = "draining" ~> ~Running
=============================================================================
