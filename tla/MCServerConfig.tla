--------------------------- MODULE MCServerConfig ---------------------------
(* Instances of ServerConfig for TLC. *)
EXTENDS ServerConfig

CONSTANTS t1, t2, t3

Setting(timeout, retries, delay) ==
  [requestTimeoutMs |-> timeout, maxRetries |-> retries, initialRetryDelayMs |-> delay]

\* Nothing set, everything, a zero for each field, a negative number.
SomeSettings ==
  {Setting(Unset, Unset, Unset), Setting(5000, 4, 700), Setting(Unset, 0, Unset),
   Setting(0, Unset, Unset), Setting(Unset, Unset, 0), Setting(Unset, -2, Unset)}

SomeConfigs ==
  [complete : BOOLEAN, env : Environments \cup {"bad"}, hosted : {"none", "keyed", "keyless"},
   enforced : BOOLEAN, settings : SomeSettings]

PlainConfigs ==
  [complete : {TRUE}, env : {"sandbox", "production"}, hosted : {"none"}, enforced : {FALSE},
   settings : {Setting(Unset, Unset, Unset)}]
=============================================================================
