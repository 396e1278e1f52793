------------------------------ MODULE TokenSum ------------------------------
(***************************************************************************)
(* Sums of token amounts.  The budget specifications add up how much each  *)
(* request is charged.  The sum of amount[r] over R is the number of pairs *)
(* <<r, i>> with i in 1..amount[r]: one pair for each token.  Stated this  *)
(* way the sum needs no recursion, and the laws of finite sets give its    *)
(* arithmetic (BudgetTrackerProofs).                                       *)
(***************************************************************************)
EXTENDS Integers, FiniteSets

\* The tokens that request r contributes when it is charged n of them.
TokensOf(r, n) == {r} \X (1 .. n)

\* All tokens of the requests in R, each charged amount[r].
Tokens(R, amount) == UNION {TokensOf(r, amount[r]) : r \in R}

\* The sum of amount[r] over R.
Total(R, amount) == Cardinality(Tokens(R, amount))
=============================================================================
