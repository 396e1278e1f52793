---------------------------- MODULE HealthPoller ----------------------------
(***************************************************************************)
(* gateway/routing/health.py next to the registry: one task that checks    *)
(* every entry of every chain, chat models first, one after the other, and *)
(* then sleeps.                                                            *)
(*                                                                         *)
(* A check is a real generation, or embedding, and takes up to the         *)
(* provider's timeout; only a GatewayError of it is caught.  Redis answers *)
(* at once or raises, and the event loop is prompt: time passes only in    *)
(* checks and in the sleep.                                                *)
(***************************************************************************)
EXTENDS BackendRegistry

CONSTANTS
    Interval,   \* health_check_interval_seconds, in ticks
    Timeout,    \* provider_request_timeout_seconds, in ticks
    MaxAge      \* bound: ages are counted up to here, beyond what ProbedInTime allows

ASSUME PollerAssumption == {Interval, Timeout, MaxAge} \subseteq Nat \ {0}

VARIABLES
    poller,     \* where the task is: phase, position in the sweep, time spent
    age         \* ticks since the check of each position ended, or since start()

vars == <<registryVars, poller, age>>

\* _poll_once's order.  Disabled backends are checked like any other.
Sweep ==
    LET all == backends_by_model["models"] \o backends_by_model["embedding_models"]
    IN  FlattenSeq([i \in DOMAIN all |->
            [j \in DOMAIN all[i].chain |-> BreakerKey(all[i].chain[j], all[i].model)]])

At(phase, position) == [phase |-> phase, position |-> position, spent |-> 0]

Running == poller.phase \in {"checking", "checked", "sleeping"}

\* _run_forever goes straight into the first sweep; without entries, to sleep.
Restarted == IF Sweep = <<>> THEN At("sleeping", 0) ELSE At("checking", 1)

Init ==
    /\ RegistryInit
    /\ poller = Restarted
    /\ age = [i \in DOMAIN Sweep |-> 0]

\* The check of an entry comes back, with a GatewayError or without.
Check ==
    /\ poller.phase = "checking"
    /\ poller' = At("checked", poller.position)
    /\ age' = [age EXCEPT ![poller.position] = 0]
    /\ UNCHANGED registryVars

\* Seeded bug: the loop returns after its first entry.
AfterOneReturns(ok) == At("sleeping", 0)

\* Seeded bug: the task sleeps after each check, not after each sweep.
AfterEachSleeps(ok) ==
    IF poller.position < Len(Sweep)
    THEN At("sleeping", poller.position) ELSE At("sleeping", 0)

\* The next entry, or the sleep after the last one.
After(ok) ==
    IF poller.position < Len(Sweep)
    THEN At("checking", poller.position + 1) ELSE At("sleeping", 0)

\* record_success() closes the breaker; record_failure() opens it if enough of
\* them came together.
Report(ok) ==
    LET k == Sweep[poller.position]
    IN  /\ poller.phase = "checked"
        /\ IF ok
           THEN MoveBreakers(open \ {k})
           ELSE MoveBreakers(open) \/ MoveBreakers(open \cup {k})
        /\ poller' = After(ok)
        /\ UNCHANGED age

\* asyncio.sleep() is over.
Wake ==
    /\ poller.phase = "sleeping"
    /\ poller.spent = Interval
    /\ poller' = IF poller.position = 0 THEN Restarted
                 ELSE At("checking", poller.position + 1)
    /\ UNCHANGED <<registryVars, age>>

\* The task is over, and with it the count of ages.
Ends(phase) ==
    /\ poller' = At(phase, 0)
    /\ age' = [i \in DOMAIN age |-> 0]
    /\ UNCHANGED registryVars

\* An error that is no GatewayError: the body of an embedding that is no JSON, or
\* Redis at the report.  It ends the task, and nothing starts another.
Crash ==
    /\ poller.phase \in {"checking", "checked"}
    /\ Ends("dead")

\* stop() cancels the task at whatever await it is in.
Stop ==
    /\ Running
    /\ Ends("stopped")

\* A check or a sleep goes on, no longer than its time.
Tick ==
    /\ \/ poller.phase = "checking" /\ poller.spent < Timeout
       \/ poller.phase = "sleeping" /\ poller.spent < Interval
    /\ poller' = [poller EXCEPT !.spent = @ + 1]
    /\ age' = [i \in DOMAIN age |-> IF age[i] < MaxAge THEN age[i] + 1 ELSE MaxAge]
    /\ UNCHANGED registryVars

Call(r) ==
    \/ \E section \in Sections, model \in Model : GetBackends(r, section, model)
    \/ AskBreaker(r)

Task == Check \/ (\E ok \in BOOLEAN : Report(ok)) \/ Wake \/ Tick

\* Every call of the instance has returned and the task is over.
Done ==
    /\ ~Running
    /\ \A r \in Requester : ask[r].at \in {"routed", "unavailable"}
    /\ UNCHANGED vars

Next ==
    \/ Task
    \/ Crash
    \/ Stop
    \/ \E r \in Requester : Call(r) /\ UNCHANGED <<poller, age>>
    \/ OthersMoveBreaker /\ UNCHANGED <<poller, age>>
    \/ Done

\* The event loop runs the task whenever its await is over, and time passes.
Spec == Init /\ [][Next]_vars /\ WF_<<poller, age>>(Task)

-----------------------------------------------------------------------------
\* While the task lives, no entry waits for its check longer than one sleep and a
\* timeout for each entry of all chains: that is how late an outage or a recovery
\* may be noticed when every backend hangs.
ProbedInTime ==
    Running => \A i \in DOMAIN Sweep : age[i] <= Interval + Len(Sweep) * Timeout

\* Unless the task is stopped or dies, every entry is checked again and again,
\* whatever the checks of the other entries say.  (No instance has more than three.)
EveryEntryIsProbed ==
    \A i \in 1 .. 3 :
        (i \in DOMAIN Sweep) ~>
            ((poller.phase = "checked" /\ poller.position = i) \/ ~Running)
=============================================================================
