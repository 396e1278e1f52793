# Verification of the BRIDGE LLM gateway

TLA+ specifications of the gateway in `gateway/` (FastAPI, Redis, a SQL
database, Ollama backends), TLC configurations that check them on small
instances, and TLAPS proofs about them. Line numbers are those of the
repository's files; `PROJECT.json` maps every definition to the lines it
models, and lists the runs, the seeded bugs, the findings and the theorems.

    tlc -workers 2 -config MCGatewayService.cfg MCGatewayService.tla
    tlapm BudgetTrackerProofs.tla

## 1. The system

A request (chat, embedding, or the legacy image route) authenticates, resolves
its tenant's policies, takes a token from a rate limiter, reserves its
worst-case tokens on a budget counter, is routed along a chain of backends with
failover, and is reconciled to what it really used; a usage record is written
whatever happens. Replicas of the gateway share Redis (buckets, budget
counters, circuit breakers) and the database. Within a replica requests are
asyncio coroutines: **the code between two awaits is atomic, and at each await
every other request, poller and replica may run.** The models have one action
per such segment; an await that is several Redis commands is several actions.

| component (source) | state | operations | correct when |
|---|---|---|---|
| BudgetTracker (`budget/tracker.py`) | one Redis counter per tenant, requested model and period; the caller's `BudgetReservation` | `reserve` (INCRBY, check, compensating INCRBY), `reconcile`, `release` | no token lost, doubled or billed to the wrong period; limit exceeded only by what requests use beyond their estimates; nobody refused without need |
| CircuitBreaker (`routing/circuit_breaker.py`) | one Redis hash per backend and model: `state`, `consecutive_failures`, TTL | `is_available`, `record_success`, `record_failure` (HINCRBY, HSET, EXPIRE) | opens after N failures, closes by itself, follows a backend that recovers or breaks for good |
| GatewayService (`core/service.py`) | the locals of one `_dispatch` per request | policies, limiter, reserve, route, failover loop, reconcile, `except`, `finally` | every reservation settled, record and counter agree, status tells the cause, chain walked in order |
| ModelProviderRegistry (`routing/registry.py`) | chains from YAML (constant) | `from_yaml`; `get_backends`: enabled and not open, one await per breaker | the operator's order kept; nothing left out but what was open |
| HealthPoller (`routing/health.py`) | one task per replica | sweeps all backends in turn, reports to the breaker | keeps going, reaches every entry in time |
| TokenBucketLimiter (`ratelimit/`) | one Redis hash per tenant and model: tokens, last refill | one Lua script: refill, consume, EXPIRE | no tokens out of nothing, nobody refused by disorder, Retry-After works |
| PolicyResolver (`core/service.py:64-88`) | tables loaded at the start | exact entry, else wildcard, else deny | everybody held to the limits of their own entry |
| API keys, tenants, seed (`auth/`, `api/deps.py`, `admin/seed.py`) | database rows | `resolve_tenant`, revocation, seeding | barred requests refused; a run of the seed is all or nothing |
| Usage ledger (`core/bootstrap.py:76-99`, `api/admin_router.py`) | `usage_records` rows | sink, monthly summary | summary agrees with the records |
| OllamaProvider (`providers/ollama.py`) | none | streamed `generate`, `embed`, probes | an answer that broke off can be told |
| HTTP application (`app.py`, `api/router.py`) | client session, semaphore, runtime | lifespan, routes, legacy route, shutdown | every request answered, no permit lost, nothing used that is not there |
| JSON repair (`utils/clean_gen_response_from_image.py`) | none | pure text functions | no text lost and valid JSON untouched, but for the earlier value of a key that one object has twice |
| Docker command line (`docker-cli.py`) | container, image, `.env` on the host | lists of docker commands | spares what runs, removes what it says |

Interactions: the service calls limiter, tracker, registry, provider, breaker
and sink in this order and holds no lock across any of them; the registry asks
the breaker; the pollers and the requests of all replicas write the same
breaker hash; the provider's outcome decides between `reconcile` and `release`.

Hard behaviours: non-atomic sequences of Redis commands (`reserve`,
`record_failure`); answers used after they have become stale (breaker state,
period key); coroutines that end between two commands (process killed, Redis
lost, task cancelled); errors other than `GatewayError`, which take another
path through `_dispatch`; key expiry; failover. `PROJECT.json` lists each of
these hazards at its line, with the properties about it.

## 2. Modules

| module | role |
|---|---|
| `TokenSum` | the sum of token amounts over a set of requests, as a cardinality |
| `BudgetLedger` | abstract: a ledger in which check-and-reserve is one indivisible step and a refused request leaves no trace |
| `BudgetTracker`, `BudgetTrackerProofs` | `tracker.py`, one action per Redis command; the laws of sums, the inductive invariant, the theorems and the refinement of the ledger |
| `CircuitBreaker` | `circuit_breaker.py` with the requests and pollers that use it, one breaker |
| `CircuitBreakerDoc` | the same system with a history variable, against the first line of the docstring's state machine |
| `GatewayService`, `GatewayServiceProofs` | `_dispatch`, on top of `INSTANCE BudgetTracker`; its theorems |
| `TokenBucket`, `TokenBucketProofs` | the limiter's script, its callers on several clocks, and callers who retry; its theorems |
| `BackendRegistry` | routing files, and calls of the registry while breakers move |
| `HealthPoller` | the poller's task, composed with `BackendRegistry` |
| `RoutingProofs` | theorems about `gateway/routing`: `HealthPoller`, `BackendRegistry`, `CircuitBreaker` |
| `Tenants`, `TenantsProofs` | the database: seed runs, policy load, key and policy lookup |
| `App`, `AppProofs` | one process of the application, from start to end, with its requests |
| `Answers`, `AnswersProofs` | the backend's stream and the repair of the text it carries; its theorems |
| `DockerCLI`, `DockerCLIProofs` | `docker-cli.py`, several operators on one host; its theorems |
| `MCBudgetTracker`, `MCGatewayService`, `MCTokenBucket`, `MCHealthPoller`, `MCTenants`, `MCAnswers` | instances for TLC |

How they fit together: `GatewayService` contains the tracker's actions;
`HealthPoller` extends `BackendRegistry` and moves the breakers that a routed
request reads. The others are joined by interfaces, each weaker than what it
stands for: `GatewayService` lets the limiter, the breakers and the backends
answer as they please (`TokenBucket`, `CircuitBreaker` and `Answers` say what
they really answer), `App` lets authentication and `handle_request` end in
every way (`Tenants` and `GatewayService`). What holds against an arbitrary
partner holds with the real one.

**BudgetTracker.** `counter` are the Redis counters, `call[r]` the arguments
and locals of request r's `reserve` and then its `BudgetReservation`, `pc[r]`
how far it is: `reserving` (key computed, INCRBY not sent), `blocked` (INCRBY
done, past the limit, compensation not sent), `held`, and the final stages
`rejected`, `reconciled`, `released`; `failed`, `stray` and `leaked` are those
of a request that died in the first three. `Tick` is midnight. The period key
is fixed in `Begin`, the day may change before any later step. A reply of INCRBY
that is lost is a `Charge` followed by `Die`. Usage is a prompt part, which no
chat estimate covers (`service.py:149`), and a completion capped by
`num_predict`. An embedding's estimate is a heuristic, so its overrun is also a
prompt part. Counters do not overflow in the model.

**CircuitBreaker.** One hash with its TTL, in ticks. A request may also end
without a report (`Abandon`). `pc[c]` says where a
client is: `calling` after `is_available` (or at once, for a poller), `good` or
`bad` when the call has ended, `tripped` between HINCRBY and HSET, `opened`
between HSET and EXPIRE. `up` is the backend, which may break and recover at any
time. Failures are counted up to `Threshold`: the code compares with `>=` only.
Dead clients keep a trace of what they had still to send (`lost_open`,
`lost_expiry`).

**GatewayService.** `at[r]` is the await request r is in; `status`,
`backends`, `called`, `lastError`, `result`, `raised` are the locals of
`_dispatch`, `record` is what reached the sink. With `Faults`, any await may also
raise an error that is no `GatewayError`. `reported` is a history variable.
The budget part is not a copy: `Budget == INSTANCE BudgetTracker WITH pc <-
stage`, and the actions are conjunctions with its actions. `except` and `finally`
are actions of their own (`HandleError`, `WriteRecord`), because they await. `Verdict` is the status
that a request deserves, told from its reservation and its calls and not from `status`.
A reservation whose INCRBY took effect while its reply was lost is a `leaked` one of which `_dispatch`
knows nothing: its record may say "unknown" (`RecordKeys`).

**TokenBucket.** `bucket` is the Redis hash and when it expires, `stamp[r]` the
`now` of a call, read in `Begin` on a clock that may be ahead by a member of
`Offset`, and used whenever the script runs (`CheckAndConsume`), in whatever order.
Amounts are whole units, `Cost` of them a request, so that `Rate` units per tick
stand for `requests_per_minute / 60`; milliseconds of `retry_after_ms` are ticks.
`Wait` and `Retry` are callers who honour the header. `ideal` is a second bucket
that pays for the same calls and is never set back; `spent`, `first`, `rewound`
keep account of where tokens came from. Nothing relates the burst to the expiry (`RateLimitPolicy`
only asks for positive numbers), so a burst that does not flow in within an hour is given
again, for the rest of it, to a tenant who stays away for an hour: `renewals` counts the expiries
that a script met and `Gift` is that rest, 0 for a smaller burst.

**BackendRegistry, HealthPoller.** `routing` is the file, `backends_by_model`
what `from_yaml` made of it. `ask[r]` is a call of `get_backends` or
`get_embedding_backends`: which section of the file, which model, the next candidate,
the backends found; `AskBreaker` is one await, and between two of them `open` moves by the
poller (`Report`) or by others (`OthersMoveBreaker`). `poller` is the task: `checking`
the entry at a position, `checked` when the outcome is not yet reported,
`sleeping`, `dead` after an error that `except GatewayError` does not see,
`stopped`. Time passes in checks and in the sleep only. A section is a mapping from
models to entries, so no model comes twice in it; a model may stand in both, and each call
looks in its own. `Only` is the code's list comprehension with a condition. It stands where
`SelectSeq` would, because the prover knows nothing of the latter.

**Tenants.** `rows` are the committed tenants with their key and policies,
`run[s]` a run of the seed script with its open transaction; the unique index on
`key_hash` makes a second insert wait for the first transaction and fail when it
commits. The gateway reads limits (`LoadRates`) and budgets (`LoadBudgets`) in
two queries and never again; a request reads its key (`ReadKey`) and its tenant
(`ReadTenant`) in two queries of its own and looks its policies up in memory.
`Revoke` and `Suspend` may come between any two of these. `barred` remembers
the requests that came too late.

**App.** `phase` is the process: arguments and certificates, guarded import,
lifespan, the awaits of `build_gateway_service`, serving, and uvicorn's graceful
shutdown, which drains requests before it runs the second half of lifespan.
`free` and `queue` are `asyncio.Semaphore`, which hands a permit to the longest
waiter when it is released. `at[r]` is where a request is.

**Answers.** A text is a sequence of JSON tokens. Strings carry the places of the
text they stand for, so that a repair that loses, doubles or reorders text is
seen. The tokenizer, the merging of bare strings, the loop over `json.loads` errors
with its window of five characters, and the nested `response` are operators; `Loads`
is a model of `json.loads` that says where it stops and with which of the two
messages the code looks at. The loops of the code are recursive functions over their
turns (`MergeTurn`, `RepairTurn`, `Parse`), which idle once the loop has ended. A turn of
`RepairTurn` is two attempts, one for each of the two quotes it escapes. What is replied is written anew by
`json.dumps(json.loads(..))`: of a key that one object has twice the first place stays and the
last value (`Dumps`). Two keys are the same when they say the same; of strings that were run
together that is when what was run together is (`ReadSame`). The repair was compared
with the Python functions on all 151,530 texts of up to six tokens of a small alphabet, and `Dumps` with
Python on 1,006 texts, 593 of which it changes, without a difference. The stream is a state machine: one action per line.

**DockerCLI.** Each command is a list of steps; a step is one docker command with
its effect on `container`, `image` and its result, which is heeded only for the
steps in `Required`. `docker ps` lists what restarts or is paused too (one state, `restarting`, stands for
both), newest first, and its filter matches any part of a name: `namesake` is another container that
it shows, `First` the one the code looks at. `Flap` is a service that crashes and is restarted,
`Others` are the containers of others, `borrowed` says that one of them was made from the image.
`excused` and `quiet` are history variables that say who else was at work: a `run` is excused when docker
did not tell it of the service, or when the service came up after it had looked.

## 3. Runs

| run | instance | shows |
|---|---|---|
| `budget` | 3 requests, 2 accounts (daily blocking at 3, monthly warning at 1), estimates 1 and 2, 2 days | `TypeOK`, `Conservation`, `OvershootIsOverrun`, `RefusedOnlyUnderPressure`, refinement of `BudgetLedger` |
| `breaker` | 2 mortal handlers, 1 poller, threshold 3, cooldown 2 | `TypeOK`, `TripsAtThreshold`, `OpenOnlyForCooldown`, and under fairness `RecoveredBackendIsUsed`, `DeadBackendIsSkipped` |
| `service` | 2 requests, an entitled account and another, 3 backends, 2 attempts, faults | `TypeOK`, `ReservationsSettled`, `RecordMatchesBudget`, `StatusTellsCause`, `FailoverDiscipline` |
| `service_liveness` | 2 requests, 2 backends, 2 attempts, faults, one day | `RequestsEnd`, `RoutedReservationsSettle` |
| `bucket` | 3 callers, burst 1, a request worth 16 units, 3 units a tick, 4 ticks a second, expiry after 5, clocks 0 or 2 ahead, 8 ticks | `TokensAreEarned`, `NoneRefusedByDisorder`, `SecondRetrySucceeds` |
| `health` | 28 files (chains of two over two hosts and priorities 0 and 1, one host disabled or undefined, an embedding section or none), 1 request, interval 1, timeout 2 | `ProbedInTime`, `RoutedByPriority`, `LeftOutOnlyIfOpen`, and under fairness `EveryEntryIsProbed` |
| `app` | 3 legacy requests on 1 permit, 1 of /v1 | `PermitsConserved`, `GatewayOutlivesUsers`, and under fairness `EveryRequestIsAnswered`, `ShutdownCompletes` |
| `tenants` | 2 seed runs over 5 files (grown, reordered, a key twice, a limit of 0), 3 keys, 2 models, 1 request | `OneTenantPerKey`, `SeedIsAtomic`, `BarredIsRefused`, `HeldToOwnLimits`, `DeniedOnlyIfLate` |
| `answers` | texts of up to 7 tokens that begin like an object or an array, 13 longer ones, 9 with keys that recur, streams of up to 3 lines with 4 endings | `TruncationIsVisible`, `StringsSurvive`, `ValidIsKept`, `LostOnlyIfHopeless` |
| `docker` | 2 operators, one command each of 3, 2 tries of the health check | `ResetRemoves`, `RunningIsSpared`, and under fairness `CommandsEnd` |
| `service_release`, `breaker_streak` | see below | a document contradicted |

Bounds. `budget`: three requests are one that holds, one that is blocked and
transiently inflates the counter, and one that meets the inflated counter;
estimates 1 and 2 against a limit of 3 let two fit exactly and the third be
refused, and let overruns decide; two days are one rollover. `breaker`: three
clients against threshold 3 let each contribute a failure, and a single client
reach it alone; a cooldown of 2 lets the key outlive a recovery or not.
`service`: two requests compete for one budget that both fill; three backends
against two attempts leave one that must not be called. `bucket`: three
scripts in any order are what it takes to set the refill time back twice; the
bucket fills in 16/3 ticks, which is a unit more than an expiry brings, so that an expiry gives a
unit away; and it is short by fractions of a second that round down. `health`: with two entries per chain and a third in the
other section, `LeftOutOnlyIfOpen` needs every answer to be late for another,
and `ProbedInTime` is met with equality when all time out. `app`: of three
requests on one permit one calls and two queue. `tenants`: two runs, a file
that shares a key with another, and one request that meets each point of the
load. `answers`: a key, a value, a bare string and a key again need seven tokens.
The texts with recurring keys have one twice and thrice, around and within other objects,
with a value that nests or was merged, and in two objects of an array.
`docker`: `full_reset`, `run` and `build-and-run` with compose take every step that any of the seven
commands takes, and any two of them meet in every order.
Requests, callers and seed runs are symmetric where no liveness is checked. An
explicit stuttering `Done` at the end keeps deadlock checked everywhere; `breaker` and
`docker` need none, since there the environment never rests.

Fairness. `breaker`: every await of a living client returns (provider calls have
a timeout, Redis replies or the client dies), pollers loop, time passes.
Handlers need not send traffic, nobody must die, and the backend flips as it
likes. `service_liveness`: `WF(Proceed(r))` for requests that have begun; every
call has a timeout and every other await replies or raises. `health`: the event
loop runs the task when its await is over, and time passes. `app`: the start-up and
the shutdown proceed, and each request's await replies or raises; a waiter of the
semaphore is not fair by itself, it depends on the release. `docker`: docker's
commands return and the operator answers. That anything ends well is never assumed.

Seeded bugs. For each property of a passing run a definition marked `Seeded
bug` stands before the one it would replace (a limit check before the INCRBY, a
delta on today's key, a permit that comes back only with an answer, ...); with it,
TLC finds the property violated.

### Disagreements with the documentation

Two are runs that TLC must find violated:

| run | the code | the text |
|---|---|---|
| `service_release` | no backend available: the reservation is never released, because `status` is still `"success"` (`service.py:286`) | `ARCHITECTURE.md:110-111` |
| `breaker_streak` | the TTL of an earlier opening survives `record_success` and wipes a later failure count | `circuit_breaker.py:7` |

Others were met while the modules were written. They follow from the code as
modelled and have no run of their own:

- Budget. The overshoot grows with the number of requests in flight, because
  the prompt is not reserved (`tracker.py:7-8` and `PRD.md:167` promise one request's worst
  case, `ARCHITECTURE.md:93-94` an estimate with the prompt). `max_requests` is loaded and never
  looked at (`ARCHITECTURE.md:96`).
- Breaker. A success between HINCRBY and HSET is overwritten by `open`; after
  the cooldown every request passes, not one probe, and one failure does not
  reopen; an HSET without its EXPIRE stays open until a poller succeeds
  (`circuit_breaker.py:7-10, 42`).
- Service. `provider_error` is the status of the two exits on which no provider was called: not entitled,
  and no usable backend (`service.py:285-286`). An error other than `GatewayError` is recorded as a success without a
  backend (`models/usage.py:37-41`); a failing usage sink turns a billed answer
  into a 500 (`ARCHITECTURE-ESSENTIALS.md:79`).
- Limiter. The first retry after `Retry-After` may be refused, since 5.4 s
  become 5 (`ARCHITECTURE.md:301`); that is why `SecondRetrySucceeds` speaks of the second. The legacy route
  sends its 429 without the header (`app.py:370`). When Redis is down the caller
  gets a 500, not the 429 with `Retry-After: 5` of `ARCHITECTURE.md:302-303`.
- Application. Without a gateway /v1 answers 500, not 503, because
  `app.state.gateway_service` is missing (`app.py:199`); with the database
  down both routes answer 500 from authentication. The semaphore does not cap "total
  concurrent generations" (`app.py:176-177`): /v1 and the poller pass it by. Its
  queue has no bound (`ARCHITECTURE-ESSENTIALS.md:86-87`).
- Poller. Between two checks of an entry lie not 15 s (`ARCHITECTURE.md:355-356`)
  but up to that and 600 s for every entry of every chain. An error that is no
  `GatewayError` ends the task for good.
- Registry. "Unconfigured or circuit-open" (`registry.py:101-102`): a model whose
  backends are all disabled raises too, as unconfigured.
- Seed. Re-running the script neither adds nor changes a tenant nor makes a second one while
  an old entry is in the file: the unique key makes the whole run fail
  (`tenants.yaml:3-5, 27-29`, `seed.py:46-47`). One policy row that does not validate leaves
  the whole gateway uninitialised.
- Answers. The tokenizer drops numbers, `true`, `false` and `null` from every JSON answer
  (`clean_gen_response_from_image.py:68`), which either breaks it or changes it. The tolerance of raw line
  breaks (`app.py:388-390`) is defeated by the strict `json.loads` at
  `clean_gen_response_from_image.py:89`. Of a key that one object has twice the reply has the last value only
  (`app.py:391`, `399`), although the text was valid.
- Usage. `GET /v1/usage` selects the monthly key, so the records of a daily
  budget never show (`README.md:204`).
- `docker-cli.py` reports a finished set-up although its health check failed. `run` looks at the
  first container that `docker ps` lists (`docker-cli.py:275`, `497`): a newer one with a name that contains the
  gateway's, restarting or paused, hides the gateway, which `run` then stops although it
  checks "if container already running" (`docker-cli.py:495`). The same goes for a gateway that is paused itself.

## 4. Proofs

Every safety property that the passing runs check is a theorem, for all values of the constants;
so are the action property `RunningIsSpared` and the refinement `ImplementsLedger`. The modules whose name
ends in `Proofs` hold them, each with the inductive invariants (`IInv`, or a name that says
more) that the proofs need and the runs do not.

`BudgetTrackerProofs`, for any finite set of requests, any accounts, policies,
estimates and calendar: `TypeCorrect`, `CountersConserve`, `BudgetHolds`,
`RefusalsJustified`, `TrackerImplementsLedger`. The inductive invariant `IInv` is the type
invariant with these facts added: each request's period key is that of the day on which it
began (a typed call alone says nothing about it), `Conservation`,
`OvershootIsOverrun`, and `RefusedOnlyUnderPressure` for every refused stage.
`Conservation` is what makes the other two inductive: at the INCRBY the code
knows only the counter, and the limit speaks of the requests. A step changes one
request's amount on one key; the first lemmas say what this does to the sums
(`TotalUpdate`, `TotalMonotone`), so that each action has one lemma. In `Charge`
the total is at most the limit, the counter is the sum of all weights, and
admitted requests weigh no more than that sum; a refused request's demand is
at least the weight it added. The refinement is a step mapping on top of it: an INCRBY
that is within the limit is the ledger's `Reserve`, the compensation (or a death before it)
its `Refuse`, `reconcile`, `release` and a later death are `Bill`, `Cancel` and `Lose`, and
everything else is a stutter (`ChargeInLedger`, `SettleInLedger`, `IdleInLedger`).
`Estimated` is added because the ledger reserves estimates only.

`GatewayServiceProofs`, for any requests, accounts, policies, chain and number of attempts,
with or without faults: `ServiceTypeCorrect`, `ServiceSettles`, `ServiceRecordsMatch`,
`ServiceTellsCause`, `ServiceFailsOver`, `ServiceImplementsTracker`. The properties are about
ends; `Consistent` says for each await what must be true there: how far the reservation
is (`StageOf`), what an exception under way came from and the status that goes with it (`CauseOf`), whose answer is
billed (`AnswerOf`), that the record comes last (`RecordOf`), and how far the chain
has been walked and reported (`WalkOf`). Each action has a lemma, and requests that do not move
keep all of it (`UntouchedKeeps`). `ServiceImplementsTracker` is that every step of the service is
a step of the tracker or leaves it alone: the theorems of `BudgetTrackerProofs` are therefore true
of requests that come through `_dispatch`. (The argument from there is by hand: the prover cannot
cite theorems through an `INSTANCE` with a substitution.)

`RoutingProofs` on the breaker, for any number of handlers and pollers, any threshold
and cooldown: `BreakerTypeCorrect`, `BreakerTrips`, `BreakerCools`. Their
conjunction is inductive: that the properties name the clients under way and
those that died (`tripped`, `opened`, `lost_open`, `lost_expiry`) is what makes it so.

`TokenBucketProofs`, for any number of callers, any rate, burst and expiry, and clocks that are ahead by anything: `BucketTypeCorrect`,
`BucketEarns`, `BucketSpares`, `BucketServesSecondRetry`. `IInv` adds `HistoryFits`: nothing
is spent before the first script, and the refill time of the real bucket is at most that of the
one that is never set back; without it a late stamp could fill the ideal bucket further.
`BucketEarns` rests on `RefillBounds` and on three cases of the script (first, on a hash that is
there, on one that expired), the last of which needs that an expiry and its gift are worth a full bucket (`GiftCovers`, `GiftsAdd`).
`BucketSpares` is `RefillMonotone`. `BucketServesSecondRetry` is arithmetic: `retry_after_ms`
is enough to refill (`RetryAfterSuffices`), the header is less than a second short of it
(`HeaderSuffices`) and never 0, so two waits are enough (`TwoWaitsSuffice`); the state comes
in through `StampIsLast`, which says that nobody's script ran since the caller's own.

`TenantsProofs`, for any runs of the seed script over any files, and any requests:
`TenantsTypeCorrect`, `TenantsOnePerKey`, `TenantsAtomic`, `TenantsBarred`, `TenantsHeld`,
`TenantsDenied`. `OneTenantPerKey` is not
inductive, since `Commit` adds rows without looking at their keys: `PendingFits`
says what the unique index keeps true of transactions that are still open (keys
distinct in each, between two of them, and from the committed ones). The requests have an invariant
on top: what was loaded is what the rows say (`LoadedFits`), a request has the tenant of its
key from its first query on (`KeyIsTenants`), a barred one that got past it has a tenant that is
suspended (`BarredStops`), and the limits found are those of its entry (`LimitsFit`). It is
inductive because rows are added and never changed, and suspensions stay (`Grows`).

`AppProofs`, for any finite set of requests on either route and any number of permits:
`AppTypeCorrect`, `AppConservesPermits`, `AppGatewayOutlives`. `IInv` adds which phases have
a session, a runtime and a poller (`PhasesFit`), that requests are under way only while the process
serves or drains, and that waiters are of the legacy route (`RequestsFit`); the steps of the
semaphore are lemmas of their own (`AcquireHolds`, `HandOverHolds`) over what the
head and the tail of a queue without repetitions are (`Dequeue`, `Enqueue`).

`RoutingProofs` on the registry and the poller, for any routing files, models, calls of the registry, timeout and
interval: `PollerProbesInTime`, `RegistryRoutes`, `RegistryLeavesOut`. For the first, `AgesOK`
bounds the age of an entry by the checks since its own, the time spent in the present one, and
the sleep if it lies between; the position in the sweep says how many that are. For the other
two, `AskedFound` and `FoundInOrder` say what is true of a call half-way: whoever was
asked was found or was open, and what was found comes before what is still to be asked.
The rest of that part is about lists: what `FlattenSeq` returns is proved
from its definition, by an induction over sets that is derived from a well-founded order
(`SetInduction`; the library's induction theorems take an operator and cannot be used). From it
follow `OnlyReturns`, `SortedReturns`, `ResolveReturns`, `ChainReturns`, and with them
`CandidatesReturn` (what may be routed is in the file, ordered by priority and then by the
place there) and `CandidatesComplete` (it is all that the file defines and enables).

`DockerCLIProofs`, for any number of operators and tries: `DockerResetRemoves`, `DockerRunSpares`.
`StopSpares` is what the second needs: where `run` is about to stop a container, none runs that
it could have seen; whoever makes one run, `docker run`, compose or docker's own restart (`FlapKeeps`),
excuses those who have looked. `ResetProceeds` is what an undisturbed reset has done before each of its steps; the
order of the steps of each command (`Lists`, `Order`) is proved from the lists themselves.

`AnswersProofs`, for any streams of any texts and any number of attempts:
`AnswersTruncationVisible`, `AnswersStringsSurvive`, `AnswersValidKept`,
`AnswersLostOnlyIfHopeless`. The state machine's part is short: `IInv` says that the content is the
pieces of the lines read so far, that a final chunk is the line read last (`StreamFits`), and that
a reply with a finish reason is one of `Replies` for the text (`ReplyFits`). The rest is about the
repair, whose texts have no bound, so that each loop needs an invariant of its own:

- Loops are recursive functions over their turns. `LoopExists` says that such a function is what
  its equations say, `LoopStays` that what holds at first and is kept by a turn holds at the end;
  both come from `SetInduction`, which is derived from a well-founded order, as in
  `RoutingProofs`.
- `StringsSurvive`: `Keeps` says of a change of a text that its strings' parts stay, in order,
  and that there are no more strings than before. The tokenizer keeps them (`TokensKeep`), each turn
  of the merging does (`MergeState`: what is put out, followed by what is still to be read, keeps the
  text), and so does a join (`JoinKeeps`). All three are what `FlattenSeq` does to three pieces of
  a text (`PartsConcat`, `CountConcat`). The replied JSON is what came out: without a repeated key `Dumps` changes nothing (`DumpsKeeps`).
- `LostOnlyIfHopeless`: a join makes one string of two or more, and takes two attempts. `RepairState`
  keeps the account: twice the strings lost so far is at least the attempts spent. A `ValueError`
  means that all attempts are spent, so there were at least half as many strings. The other 500 is a
  "response" whose value is no string, and no repair makes a "response" out of something else.
- `ValidIsKept`: `ParseState` says what the parser has open for each thing it may want next, and
  `Fits` which token may come then (`ParseFits`, `ParseSteps`). Along a text without an error this gives
  that the comma after a pair is followed by a key and its colon, so the text is `Straight`
  (`ValidIsStraight`): no bare string is found in it, the merging puts out its pairs as they are,
  the first attempt returns, and `Dumps` finds no key twice.

The parts of the proof share one device: a set of tokens is `Closed` when it has whatever the
repairs may put into a text, and every lemma is about texts over any closed set. Taken as all tokens it gives
types; taken as the tokens that are no "response" it gives that none appears.

The type invariants of `TokenBucket`, `Tenants`, `App` and `DockerCLI` are theorems or parts of
theorems only; those of `BudgetTracker`, `CircuitBreaker` and `GatewayService` are checked by the
runs too.

Assumptions: the named `ASSUME`s of the modules (finite set of requests,
positive limits and estimates, thresholds and cooldowns; distinct markers; routing files whose
sections are mappings and whose priorities lie within `MaxPriority`), all
evaluated by TLC in the passing runs.

Only model-checked:

- Liveness, which is out of the prover's reach: `RecoveredBackendIsUsed`, `DeadBackendIsSkipped`,
  `RequestsEnd`, `RoutedReservationsSettle`, `EveryEntryIsProbed`, `EveryRequestIsAnswered`,
  `ShutdownCompletes`, `CommandsEnd`.

## 5. Not modelled

- Schemas (`models/chat.py`, `models/embedding.py`, `config.py`): declarations; their ranges
  are assumptions on constants.
- Observability: nothing depends on it.
- `utils/generate_tree.py`, `utils/tree_templates.py`: a stand-alone printer of
  directories.
- Payloads sent to Ollama, and the text of `GET /v1/usage`, `/health`, `/metrics`.
- Characters inside strings in `Answers`: `clean_json_string` on the nested response is
  "some JSON or none", and a quote that stands further than five characters from the error
  is one whose string is short enough (the window counts tokens).
- In `GatewayService` a Redis command that took effect although its caller saw an
  error is covered for `reserve` (above) but not for `reconcile` and `release`,
  where an error means that the counter did not move. `max_failover_attempts = 0` is
  modelled (`Route`) but no instance uses it.
- In `App`, a client that goes away: its handler runs on, so nothing changes.
- In `Answers`, texts that nest about a thousand brackets, for which `json.loads` raises `RecursionError`: the
  legacy route answers 500 then, as with the other errors that the `except` of `app.py:402` does not catch.
- In `DockerCLI`, more than one container of others at a time; the pruning of volumes and build caches, and commands that only look.

## 6. Plan

What is left is `Gateway`: the service with the real breakers of `CircuitBreaker` for several
backends. Its safety follows from `GatewayService`, whose breakers answer as they please; what it would add is how
soon a recovered backend is routed to again, which the runs say of one breaker.
