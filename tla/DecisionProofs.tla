--------------------------- MODULE DecisionProofs ---------------------------
(***************************************************************************)
(* Theorems about the two pure decisions of the gate: what a grant allows  *)
(* (Grantex) and which challenges a server takes back (Challenge), for any *)
(* scopes, caps, configurations and times.                                 *)
(***************************************************************************)
EXTENDS Grantex, Challenge, TLAPS

Scopes == Seq(STRING)

Grants == [present : BOOLEAN, genuine : BOOLEAN, agent : STRING,
           scopes : SUBSET Scopes, caps : SUBSET Int]

----------------------------------------------------------------------------
(* Scopes. *)

\* What IsPrefix and Front come to, part by part.
LEMMA WildcardCovers ==
  ASSUME NEW g \in Scopes, NEW r \in Scopes, Len(g) > 1, Len(r) >= Len(g)
  PROVE  IsPrefix(Front(g), r) <=> \A i \in 1..(Len(g) - 1) : g[i] = r[i]
<1>1. Front(g) \in Seq(STRING) /\ Len(Front(g)) = Len(g) - 1
      /\ \A i \in 1..(Len(g) - 1) : Front(g)[i] = g[i]
  BY DEF Front, Scopes
<1>2. IsPrefix(Front(g), r) <=> /\ Len(Front(g)) <= Len(r)
                                /\ SubSeq(Front(g), 1, Len(Front(g))) = SubSeq(r, 1, Len(Front(g)))
  BY DEF IsPrefix
<1> QED BY <1>1, <1>2 DEF Scopes

\* A scope that covers a wildcard covers all the wildcard covers: a grant may be made
\* out of another's scopes in any number of steps.
THEOREM CoveringComposes ==
  ASSUME NEW g \in Scopes, NEW m \in Scopes, NEW r \in Scopes,
         ScopeCovers(g, m), ScopeCovers(m, r)
  PROVE  ScopeCovers(g, r)
<1>1. CASE g = m \/ m = r
  BY <1>1
<1>2. CASE g # m /\ m # r
  <2>1. /\ Len(g) > 1 /\ Last(g) = "*" /\ Len(m) >= Len(g) /\ IsPrefix(Front(g), m)
        /\ Len(m) > 1 /\ Len(r) >= Len(m) /\ IsPrefix(Front(m), r)
    BY <1>2 DEF ScopeCovers
  <2>2. Len(g) \in Nat /\ Len(m) \in Nat /\ Len(r) \in Nat
    BY DEF Scopes
  <2>3. \A i \in 1..(Len(g) - 1) : g[i] = m[i] /\ m[i] = r[i]
    BY <2>1, <2>2, WildcardCovers
  <2>4. IsPrefix(Front(g), r)
    BY <2>1, <2>2, <2>3, WildcardCovers
  <2> QED BY <2>1, <2>2, <2>4 DEF ScopeCovers
<1> QED BY <1>1, <1>2

----------------------------------------------------------------------------
(* Grants. *)

\* One grant is within another: the same agent's, with no scope that the other's do
\* not cover, and every cap of the other kept.
Within(g, w) ==
  /\ g.present => w.present
  /\ g.genuine => w.genuine
  /\ g.agent = w.agent
  /\ \A s \in g.scopes : HasGrantScope(w.scopes, s)
  /\ w.caps \subseteq g.caps

\* A grant derived from another passes nowhere the other does not: neither its scopes
\* nor its caps let an amount through that the other would have stopped.
THEOREM DerivedGrantAllowsNoMore ==
  ASSUME NEW config, config.required \subseteq Scopes,
         NEW g \in Grants, NEW w \in Grants, Within(g, w),
         NEW amount \in Nat, GrantAllows(config, g, amount)
  PROVE  GrantAllows(config, w, amount)
<1> SUFFICES ASSUME Enforced(config)
             PROVE  GrantIsValid(config, w) /\ WithinCap(w, amount)
  BY DEF GrantAllows
<1>1. GrantIsValid(config, g) /\ WithinCap(g, amount)
  BY DEF GrantAllows
<1>2. MissingGrantScopes(w.scopes, config.required) = {}
  <2> SUFFICES ASSUME NEW s \in config.required
               PROVE  HasGrantScope(w.scopes, s)
    BY DEF MissingGrantScopes
  <2>1. PICK m \in g.scopes : ScopeCovers(m, s)
    BY <1>1 DEF GrantIsValid, MissingGrantScopes, HasGrantScope
  <2>2. PICK v \in w.scopes : ScopeCovers(v, m)
    BY DEF Within, HasGrantScope
  <2>3. s \in Scopes /\ m \in Scopes /\ v \in Scopes
    BY DEF Grants
  <2> QED BY <2>1, <2>2, <2>3, CoveringComposes DEF HasGrantScope
<1>3. GrantIsValid(config, w)
  BY <1>1, <1>2 DEF GrantIsValid, Within
<1>4. WithinCap(w, amount)
  BY <1>1 DEF WithinCap, Caps, Within
<1> QED BY <1>3, <1>4

\* A grant that allows an amount allows any smaller one: no cap acts as a minimum.
THEOREM SmallerAmountIsAllowed ==
  ASSUME NEW config, NEW g \in Grants, NEW amount \in Nat,
         GrantAllows(config, g, amount), NEW less \in 0..amount
  PROVE  GrantAllows(config, g, less)
<1> SUFFICES ASSUME WithinCap(g, amount)  PROVE WithinCap(g, less)
  BY DEF GrantAllows
<1> QED BY DEF WithinCap, Caps, Grants

----------------------------------------------------------------------------
(* Challenges. *)

\* The credential of a payer who answers a challenge as it was sent.
Answer(challenge, token, method) ==
  [challenge |-> challenge, token |-> token, method |-> method]

\* What the server reads from a challenge.
Says(challenge) ==
  <<challenge.realm, challenge.intent, challenge.request, challenge.expires>>

\* An id vouches for all that the server reads from the challenge: a credential that
\* passes with the id of a challenge issued here or elsewhere says what that one said,
\* and the two servers share their secret.
THEOREM VerifiedIsUnchanged ==
  ASSUME NEW config, NEW other, NEW charge, NEW issued \in Nat, NEW now \in Nat,
         NEW credential,
         credential.challenge.id = Generate(other, charge, issued).id,
         Verify(config, credential, now)
  PROVE  /\ config.secret = other.secret
         /\ Says(credential.challenge) = Says(Generate(other, charge, issued))
<1> DEFINE c == credential.challenge
           g == Generate(other, charge, issued)
<1>1. c.id = <<config.secret, c.realm, c.intent, c.request, c.expires>>
  BY DEF Verify, Genuine, ChallengeId
<1>2. g.id = <<other.secret, g.realm, g.intent, g.request, g.expires>>
  BY DEF Generate, ChallengeId
<1>3. c.id = g.id
  OBVIOUS
<1>4. config.secret = other.secret /\ Says(c) = Says(g)
  <2> HIDE DEF c, g
  <2> QED BY <1>1, <1>2, <1>3 DEF Says
<1> QED BY <1>4

\* Nothing is kept between a challenge and its credential: after a restart, or in
\* another process, a challenge answered as it was sent is accepted exactly while it
\* has not expired, given the same secret and realm and a method of both.
THEOREM ChallengeHoldsElsewhere ==
  ASSUME NEW config, NEW other, NEW charge, NEW issued \in Nat, NEW now \in Nat,
         NEW token, token # NoField, NEW method
  PROVE  Verify(config, Answer(Generate(other, charge, issued), token, method), now)
           <=> /\ config.secret = other.secret /\ config.realm = other.realm
               /\ method \in config.methods \cap other.methods
               /\ now < issued + ExpirySeconds(other, charge)
<1> DEFINE g == Generate(other, charge, issued)
           a == Answer(g, token, method)
<1>1. /\ a.challenge = g /\ a.token = token /\ a.method = method
  BY DEF Answer
<1>2. /\ g.realm = other.realm /\ g.request.methods = other.methods
      /\ g.expires = issued + ExpirySeconds(other, charge)
      /\ g.id = <<other.secret, g.realm, g.intent, g.request, g.expires>>
  BY DEF Generate, ChallengeId
<1>3. g.id # NoId
  BY <1>2 DEF NoId
<1>4. Genuine(config, g) <=> config.secret = other.secret
  BY <1>2 DEF Genuine, ChallengeId
<1>5. Verify(config, a, now) <=> /\ WellMade(config, g)
                                 /\ now < g.expires
                                 /\ Genuine(config, g)
                                 /\ method \in g.request.methods \cap config.methods
  BY <1>1 DEF Verify
<1>6. WellMade(config, g) <=> g.realm = config.realm /\ g.request.methods # {}
  BY <1>3 DEF WellMade
<1> HIDE DEF g, a
<1>7. method \in g.request.methods \cap config.methods => g.request.methods # {}
  OBVIOUS
<1>8. Verify(config, a, now)
           <=> /\ config.secret = other.secret /\ config.realm = other.realm
               /\ method \in config.methods \cap other.methods
               /\ now < issued + ExpirySeconds(other, charge)
  BY <1>2, <1>4, <1>5, <1>6, <1>7
<1> QED BY <1>8 DEF g, a
=============================================================================
