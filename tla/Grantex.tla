------------------------------ MODULE Grantex ------------------------------
(***************************************************************************)
(* What the SDK decides from a Grantex grant token.  The signature check   *)
(* belongs to the `grantex` package (or to config.verifier) and is a field *)
(* of the grant here, `genuine`.  A scope is the sequence of its           *)
(* colon-separated parts; the scopes that state a per-transaction cap are  *)
(* kept apart as the set of numbers that parse, in `caps`.                 *)
(***************************************************************************)
EXTENDS Integers, Sequences, SequencesExt

\* A request without the grant header, or with a blank one.
NoGrant == [present |-> FALSE, genuine |-> FALSE, agent |-> "", scopes |-> {}, caps |-> {}]

\* "a:*" covers every scope that starts with "a:".
ScopeCovers(granted, required) ==
  \/ granted = required
  \/ /\ Len(granted) > 1 /\ Last(granted) = "*"
     /\ Len(required) >= Len(granted)
     /\ IsPrefix(Front(granted), required)

HasGrantScope(scopes, required) == \E granted \in scopes : ScopeCovers(granted, required)

MissingGrantScopes(scopes, required) == {s \in required : ~HasGrantScope(scopes, s)}

\* config.grantex is "none", "checked", or "enforced" with enforceGrant.
Enforced(config) == config.grantex = "enforced"

\* GrantTokenVerifier.verify with _post_validate; no agent configured is "".
GrantIsValid(config, grant) ==
  /\ grant.present /\ grant.genuine
  /\ config.agent = "" \/ grant.agent = config.agent
  /\ MissingGrantScopes(grant.scopes, config.required) = {}

\* _decide_transaction_cap: the smallest cap that is not negative counts, so the
\* amount is within every one of them.
Caps(grant) == {n \in grant.caps : n >= 0}

WithinCap(grant, amount) == \A n \in Caps(grant) : amount <= n

\* An invalid grant let through where a missing one is not.
GrantAllows_InvalidPasses(config, grant, amount) ==
  Enforced(config) => (GrantIsValid(config, grant) => WithinCap(grant, amount))

\* _decide_grant, then the cap, for a grant that was sent: without enforcement a
\* bad one changes nothing.
GrantAllows(config, grant, amount) ==
  Enforced(config) => GrantIsValid(config, grant) /\ WithinCap(grant, amount)

\* Whether the hosted budget is consulted and debited for the request:
\* config.budget is a hosted client with debitBudgetBeforeChallenge not False.
UsesBudget(config, grant) ==
  Enforced(config) /\ config.budget /\ GrantIsValid(config, grant)
=============================================================================
