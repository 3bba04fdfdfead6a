-------------------------- MODULE MCCaptureClient --------------------------
(* Instances of CaptureClient for TLC: every call is given the same key, as *)
(* a merchant does who sets one merchantOrderReference for a resource.      *)
EXTENDS CaptureClient, TLC

CONSTANTS c1, c2, k1

SharedKey == [c \in Calls |-> k1]

OneRetry == [c \in Calls |-> 1]

\* Clients of two configs: one made with the environments' two retries, one that asks
\* for a single one.
TwoAndOne == (c1 :> 2) @@ (c2 :> 1)
=============================================================================
