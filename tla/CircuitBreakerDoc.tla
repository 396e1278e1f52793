-------------------------- MODULE CircuitBreakerDoc --------------------------
(***************************************************************************)
(* CircuitBreaker observed against the first line of the state machine     *)
(* that its docstring draws (circuit_breaker.py:7, ARCHITECTURE.md 6.3):   *)
(* closed, then open after N consecutive failures.  The history variable   *)
(* counts those failures; no action reads it.                              *)
(***************************************************************************)
EXTENDS CircuitBreaker

VARIABLE streak     \* failures recorded since the last success or cooldown, capped

DocInit == BreakerInit /\ streak = 0

Succeeded == \E c \in Client : pc[c] = "good" /\ pc'[c] = "idle"

Failed == \E c \in Client : pc[c] = "bad" /\ pc'[c] \in {"idle", "tripped"}

Cooled == hash.state = "open" /\ hash'.state = "none"

Observe ==
    streak' = CASE Succeeded \/ Cooled            -> 0
                [] Failed /\ streak < Threshold   -> streak + 1
                [] OTHER                          -> streak

DocNext == BreakerNext /\ Observe

DocSpec == DocInit /\ [][DocNext]_<<breakerVars, streak>>

\* Line 7: after N consecutive failures, with no success and no cooldown between
\* them, the breaker is open, or the last to fail is about to open it.
ConsecutiveFailuresOpen ==
    streak >= Threshold =>
        \/ hash.state = "open"
        \/ \E c \in Client : pc[c] \in {"tripped", "lost_open"}
=============================================================================
