-------------------------- MODULE MCHostedGrantex --------------------------
(* Instances of HostedGrantex for TLC. *)
EXTENDS HostedGrantex, TLC

CONSTANTS c1, c2

\* An application that sets up a budget, and requests that debit it and look.
SetupAndDebits ==
  (c1 :> {"allocate", "debit", "exchange"}) @@ (c2 :> {"debit", "balance", "transactions"})
=============================================================================
