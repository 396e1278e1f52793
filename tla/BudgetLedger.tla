---------------------------- MODULE BudgetLedger ----------------------------
(***************************************************************************)
(* What the budget tracker promises: a reservation is checked against the  *)
(* limit and entered in one indivisible step, is settled at most once, and *)
(* a refused request leaves no trace.  committed[k] is what the requests   *)
(* let through weigh on key k; nothing else ever does.                     *)
(***************************************************************************)
EXTENDS Integers

CONSTANTS
    Request,
    Key,
    Estimate,       \* amounts that may be reserved
    Billable,       \* amounts that may be billed
    Fits(_, _)      \* Fits(k, n): policy lets key k be committed to n tokens

VARIABLES
    committed,      \* tokens held, lost or billed on each key
    status,         \* what became of each request
    hold            \* <<key, amount>> of a request that was let through

vars == <<committed, status, hold>>

Init ==
    /\ committed = [k \in Key |-> 0]
    /\ status = [r \in Request |-> "none"]
    /\ hold = [r \in Request |-> <<>>]

Reserve(r, k, n) ==
    /\ status[r] = "none"
    /\ Fits(k, committed[k] + n)
    /\ committed' = [committed EXCEPT ![k] = @ + n]
    /\ status' = [status EXCEPT ![r] = "held"]
    /\ hold' = [hold EXCEPT ![r] = <<k, n>>]

Refuse(r) ==
    /\ status[r] = "none"
    /\ status' = [status EXCEPT ![r] = "refused"]
    /\ UNCHANGED <<committed, hold>>

Bill(r, n) ==
    /\ status[r] = "held"
    /\ committed' = [committed EXCEPT ![hold[r][1]] = @ - hold[r][2] + n]
    /\ status' = [status EXCEPT ![r] = "billed"]
    /\ UNCHANGED hold

Cancel(r) ==
    /\ status[r] = "held"
    /\ committed' = [committed EXCEPT ![hold[r][1]] = @ - hold[r][2]]
    /\ status' = [status EXCEPT ![r] = "cancelled"]
    /\ UNCHANGED hold

\* The request dies and nobody settles what it holds.
Lose(r) ==
    /\ status[r] = "held"
    /\ status' = [status EXCEPT ![r] = "lost"]
    /\ UNCHANGED <<committed, hold>>

Next ==
    \E r \in Request :
        \/ \E k \in Key, n \in Estimate : Reserve(r, k, n)
        \/ Refuse(r)
        \/ \E n \in Billable : Bill(r, n)
        \/ Cancel(r)
        \/ Lose(r)

Spec == Init /\ [][Next]_vars
=============================================================================
