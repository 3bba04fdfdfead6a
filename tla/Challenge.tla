----------------------------- MODULE Challenge -----------------------------
(***************************************************************************)
(* The two pure halves of the 402 exchange: `ChallengeGenerator.generate`  *)
(* and `CredentialVerifier.verify`.  The server keeps no challenge: the id *)
(* is an HMAC over what the challenge says, recomputed from what the       *)
(* client sends back.  HMAC is ideal here: an id is the tuple of what it   *)
(* was computed over, so equal ids mean equal inputs.                      *)
(***************************************************************************)
EXTENDS Integers

DefaultExpiry == 300
Intent == "charge"

ChallengeId(secret, realm, intent, request, expires) ==
  <<secret, realm, intent, request, expires>>

\* `challengeExpirySeconds or default`, twice: a zero is taken for unset.
ExpirySeconds(config, charge) ==
  IF charge.expiry # 0 THEN charge.expiry
  ELSE IF config.expiry # 0 THEN config.expiry ELSE DefaultExpiry

\* An amount is a positive number of paise, or generate raises.
IsPayable(charge) == charge.amount > 0

\* `value / 100:.2f`: the whole units, and the two digits after the point;
\* float division is exact enough for any amount below 2^53 / 100.
Major(amount) == <<amount \div 100, amount % 100>>

\* `availablePaymentMethods` is the configured list, the amount the charge's.
Generate(config, charge, now) ==
  LET request == [amount |-> Major(charge.amount), resource |-> charge.resource,
                  methods |-> config.methods]
      expires == now + ExpirySeconds(config, charge)
  IN [id |-> ChallengeId(config.secret, config.realm, Intent, request, expires),
      realm |-> config.realm, intent |-> Intent, request |-> request, expires |-> expires]

\* Fields of a credential that were not sent.
NoField == "NONE"
NoId == <<>>

\* The checks of verify() on a header that decodes.  The first that fails
\* names the error; every error is answered alike.
WellMade(config, challenge) ==
  /\ challenge.id # NoId
  /\ challenge.realm = config.realm
  /\ challenge.request.methods # {}

\* The expiry compared as if the id did not vouch for it.
Genuine_AnyExpiry(config, challenge) ==
  challenge.id[1] = config.secret /\ challenge.id[4] = challenge.request

Genuine(config, challenge) ==
  challenge.id = ChallengeId(config.secret, challenge.realm, challenge.intent,
                             challenge.request, challenge.expires)

Verify(config, credential, now) ==
  LET challenge == credential.challenge IN
  /\ WellMade(config, challenge)
  /\ now < challenge.expires
  /\ Genuine(config, challenge)
  /\ credential.token # NoField
  /\ credential.method \in challenge.request.methods \cap config.methods
=============================================================================
