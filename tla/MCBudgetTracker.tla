--------------------------- MODULE MCBudgetTracker ---------------------------
(***************************************************************************)
(* Instances of BudgetTracker for TLC.                                     *)
(***************************************************************************)
EXTENDS BudgetTracker, TLC

CONSTANTS Chat, Embed    \* the accounts of the two-account instance

\* A daily budget that blocks and a monthly one that only warns.
MCPolicy ==
    Chat  :> [period |-> "daily", max_tokens |-> 3, on_exceed |-> "block"] @@
    Embed :> [period |-> "monthly", max_tokens |-> 1, on_exceed |-> "warn"]

\* Every day lies in the same month.
MCOneMonth == [d \in 0 .. MaxDay |-> 0]

RequestSymmetry == Permutations(Request)
=============================================================================
