--------------------------- MODULE MCAuthManager ---------------------------
(* An instance of AuthManager for TLC: threads that share one client.      *)
EXTENDS AuthManager, TLC

CONSTANTS t1, t2, m1

SharedClient == [t \in Threads |-> m1]
=============================================================================
