-------------------------- MODULE MCGatewayService --------------------------
(***************************************************************************)
(* Instances of GatewayService for TLC.                                    *)
(***************************************************************************)
EXTENDS GatewayService, TLC

CONSTANTS
    Chat, Other,        \* an entitled account and one without a policy
    b1, b2, b3          \* backends

\* A daily budget that blocks at 3 tokens; the second account's is never used.
MCPolicy ==
    Chat  :> [period |-> "daily", max_tokens |-> 3, on_exceed |-> "block"] @@
    Other :> [period |-> "daily", max_tokens |-> 1, on_exceed |-> "warn"]

MCMonthOf == [d \in 0 .. MaxDay |-> 0]

\* More backends than attempts are allowed.
MCChain == <<b1, b2, b3>>

MCShortChain == <<b1, b2>>

RequestSymmetry == Permutations(Request)
=============================================================================
