--------------------------- MODULE MCPaymentGate ---------------------------
(* Instances of PaymentGate for TLC. *)
EXTENDS PaymentGate, TLC

CONSTANTS r1, r2, k1

SharedKey == [r \in Calls |-> k1]

Configured(grantex) ==
  [secret |-> "SECRET", realm |-> "sandbox", expiry |-> 1, methods |-> {"CARD"},
   grantex |-> grantex, budget |-> TRUE, agent |-> "AGENT",
   required |-> {<<"mpp", "payment", "debit">>}]

PlainConfig == Configured("none")
GrantConfig == Configured("enforced")

Charged(amount) == [amount |-> amount, resource |-> "/premium", expiry |-> 0]
Route(conf, amount) == [config |-> conf, charge |-> Charged(amount)]

PlainRoute == {Route(PlainConfig, 2)}
\* The third route asks for nothing, which generate() and capture() reject.
FreeRoute == Route(PlainConfig, 0)
AllRoutes == {FreeRoute, Route(PlainConfig, 2), Route(GrantConfig, 2)}
TwoPrices == {Route(PlainConfig, 1), Route(PlainConfig, 2)}

Token(agent, scopes, caps) ==
  [present |-> TRUE, genuine |-> TRUE, agent |-> agent, scopes |-> scopes, caps |-> caps]

GoodGrant == Token("AGENT", {<<"mpp", "payment", "*">>}, {-1, 2, 5})
LowGrant == Token("AGENT", {<<"mpp", "payment", "debit">>}, {1})
NarrowGrant == Token("AGENT", {<<"mpp", "payment">>}, {})

NoGrants == {NoGrant}
SomeGrants == {NoGrant, GoodGrant, LowGrant, NarrowGrant}

AnyMethod == {"CARD", "OTM"}

ForeignChallenge ==
  Generate([PlainConfig EXCEPT !.secret = "OTHER"], Charged(2), MaxTime)
=============================================================================
