--------------------------- MODULE MCMerchantApi ---------------------------
(* Instances of MerchantApi for TLC. *)
EXTENDS MerchantApi, TLC

CONSTANTS c1, c2, k1

OneKey == [c \in Calls |-> k1]

Options(given, amount, method) ==
  [given |-> given, amount |-> amount, currency |-> "INR", days |-> 7, method |-> method]

\* Options every method takes, and one each that some refuse: nothing to name the
\* subject by, too small an amount for a pre-authorization and for a refund, a
\* payment method the SDK does not support, one it has no balance for.
GoodInput == {Options({"id", "mobile"}, 100, "CARD")}
AnyInput ==
  GoodInput \cup
    {Options({}, 100, "CARD"), Options({"id", "mobile"}, 99, "CARD"),
     Options({"id", "mobile"}, 0, "CARD"), Options({"id", "short"}, 100, "CARD"),
     Options({"mobile"}, 100, "CRYPTO"), Options({"mobile"}, 100, "OTM")}

\* One call of any method, and one that may race it for the key.
AnyAndPreAuthorize == (c1 :> Operations) @@ (c2 :> {"pre_authorize"})
TwoAndNone == (c1 :> 2) @@ (c2 :> 0)
=============================================================================
