------------------------- MODULE PaymentGateProofs -------------------------
(***************************************************************************)
(* Proofs about PaymentGate, for any requests, routes, grants and keys.    *)
(***************************************************************************)
EXTENDS PaymentGate, TLAPS

(***************************************************************************)
(* The inductive invariant, in named parts.                                *)
(***************************************************************************)

\* Every challenge the server sent is one generate() made.
IssuedIsGenerated ==
  \A ch \in issued : \E rt \in Routes, t \in Nat : ch = Generate(rt.config, rt.charge, t)

\* A credential is made from a challenge this server issued, from a copy that
\* was changed, or from another server's.
Presented(r) ==
  Quote(r) \in issued \cup {Altered(ch) : ch \in issued} \cup {Foreign}

\* A request in progress has a route of the application and known headers.
RequestIsKnown ==
  /\ DOMAIN request = Calls
  /\ \A r \in Calls : stage[r] \in {"grant", "header"} =>
       request[r].route \in Routes /\ (Shown(r).decodes => Presented(r))

\* Past the grant check the request has what its route demands.
Granted(r) ==
  Enforced(Config(r)) =>
    GrantIsValid(Config(r), Grant(r)) /\ WithinCap(Grant(r), Charge(r).amount)

GrantIsChecked == \A r \in Calls : stage[r] = "header" => Granted(r)

\* A request whose capture began had the payer's consent.
Consented(r) ==
  /\ request[r].route \in Routes
  /\ Quote(r) \in issued /\ chargedAt[r] < Quote(r).expires
  /\ Granted(r)

CaptureIsConsented ==
  \A r \in Calls : chargedAt[r] # NotCharged =>
    Consented(r) /\ stage[r] \in {"capturing", "settled", "budget", "decided"}

\* Nothing is booked, reported or served but for a request whose capture began.
DebitIsAsked ==
  \A r \in Calls :
    /\ Owns(r) => chargedAt[r] # NotCharged
    /\ stage[r] \in {"capturing", "settled", "budget"} => chargedAt[r] # NotCharged
    /\ decision[r] = "proceed" => chargedAt[r] # NotCharged

\* What is served is a settled debit of the request.
Settled(r) == Owns(r) /\ ~IsPendingDebitStatus(Status(r))

HonoursSettled ==
  \A r \in Calls :
    stage[r] \in {"settled", "budget"} \/ decision[r] = "proceed" => Settled(r)

\* What is asked of the budget is the amount of a settled debit, for a request whose
\* grant has that budget; and nothing is drawn unasked.
BudgetIsAsked ==
  \A r \in Calls :
    /\ drawn[r] > 0 => price[r] # Account!NotAsked
    /\ price[r] # Account!NotAsked =>
         /\ chargedAt[r] # NotCharged /\ Settled(r)
         /\ UsesBudget(Config(r), Grant(r)) /\ price[r] = Charge(r).amount

IInv ==
  /\ TypeOK
  /\ IssuedIsGenerated
  /\ RequestIsKnown
  /\ GrantIsChecked
  /\ CaptureIsConsented
  /\ DebitIsAsked
  /\ HonoursSettled
  /\ BudgetIsAsked

----------------------------------------------------------------------------
(* The challenge. *)

\* A credential that verifies carries a challenge of this server, unchanged.
LEMMA VerifiedIsIssued ==
  ASSUME IssuedIsGenerated, NEW r \in Calls, Config(r) \in {rt.config : rt \in Routes},
         Presented(r), Verify(Config(r), Shown(r).credential, now)
  PROVE  Quote(r) \in issued
<1> DEFINE ch == Quote(r)
<1>1. Genuine(Config(r), ch)
  BY DEF Verify, Quote
<1>2. ch # Foreign
  BY <1>1, GateAssumption
<1>3. ASSUME NEW c \in issued, ch = Altered(c)  PROVE ch \in issued
  <2>1. PICK rt \in Routes, t \in Nat : c = Generate(rt.config, rt.charge, t)
    BY DEF IssuedIsGenerated
  <2>2. ch.id[5] = ch.expires
    BY <1>1 DEF Genuine, ChallengeId
  <2>3. c.id[5] = c.expires
    BY <2>1 DEF Generate, ChallengeId
  <2>4. ch.id = c.id /\ ch.expires = MaxTime + 1
    BY <1>3, <2>1 DEF Altered, Generate
  <2>5. c.expires = MaxTime + 1
    BY <2>2, <2>3, <2>4
  <2>6. Altered(c) = c
    BY <2>1, <2>5 DEF Altered, Generate
  <2> QED BY <1>3, <2>6
<1> QED BY <1>2, <1>3 DEF Presented

\* A challenge the server sends is one generate() made.
LEMMA SentIsGenerated ==
  ASSUME IInv, NEW r \in Calls, request[r].route \in Routes, NEW d, SendChallenge(r, d)
  PROVE  IssuedIsGenerated' /\ issued \subseteq issued'
<1>1. now \in Nat
  BY GateAssumption DEF IInv, TypeOK
<1>2. \/ issued' = issued \cup {Generate(request[r].route.config, request[r].route.charge, now)}
      \/ issued' = issued
  BY DEF SendChallenge, Config, Charge
<1>3. \E rt \in Routes, t \in Nat :
        Generate(request[r].route.config, request[r].route.charge, now)
          = Generate(rt.config, rt.charge, t)
  BY <1>1
<1> QED BY <1>2, <1>3 DEF IInv, IssuedIsGenerated

\* Whether or not there is a challenge to send, the payer is turned away.
LEMMA SentTurnsAway ==
  ASSUME NEW r \in Calls, NEW d, SendChallenge(r, d)
  PROVE  TurnAway(r, d) \/ TurnAway(r, "raised")
  BY DEF SendChallenge

----------------------------------------------------------------------------
(* The steps. *)

\* No request has come: the invariant holds at the start.
LEMMA InitInvariant == Init => IInv
<1> SUFFICES ASSUME Init  PROVE IInv
  OBVIOUS
<1> USE GateAssumption DEF Init, Contract!Init, Account!Init, Account!NotAsked
<1>1. TypeOK
  BY DEF TypeOK, Decisions, NoDecision, NotCharged, Contract!Unbooked, Contract!NoOutcome,
         Outcomes, NoOutcome, Contract!Outcome, Outcome, Contract!NoAnswer, NoAnswer,
         Contract!Garbled, Garbled
<1>2. \A r \in Calls : ~Owns(r)
  BY DEF Owns, Contract!Entry, Contract!Unbooked
<1> QED BY <1>1, <1>2
    DEF IInv, IssuedIsGenerated, RequestIsKnown, GrantIsChecked, CaptureIsConsented,
        DebitIsAsked, HonoursSettled, BudgetIsAsked, NoDecision

\* What a credential can be made from.
LEMMA HeadersArePresented ==
  \A h \in Headers : h.decodes =>
    h.credential.challenge \in issued \cup {Altered(ch) : ch \in issued} \cup {Foreign}
<1> SUFFICES ASSUME NEW h \in Headers, h.decodes
             PROVE  h.credential.challenge
                      \in issued \cup {Altered(ch) : ch \in issued} \cup {Foreign}
  OBVIOUS
<1>1. h \notin {NoHeader, Undecodable}
  BY DEF NoHeader, Undecodable
<1>2. CASE h \in {Header(ch, "TOKEN", m) : ch \in issued, m \in Methods}
  BY <1>2 DEF Header
<1>3. CASE \E ch \in issued : \E m \in Foreign.request.methods :
             h \in {Header(Foreign, "TOKEN", m), Header(Altered(ch), "TOKEN", m),
                    Header(ch, NoField, m)}
  BY <1>3 DEF Header
<1> QED BY <1>1, <1>2, <1>3 DEF Headers

\* What a request carries.
LEMMA RequestsAreKnown ==
  \A q \in Requests :
    q.route \in Routes /\ q.grant \in Grants \cup {NoGrant} /\ q.header \in Headers
  BY DEF Requests

\* A request arrives: nothing is decided, charged or booked for it.
LEMMA ArriveKeeps ==
  ASSUME IInv, NEW r \in Calls, Arrive(r)
  PROVE  IInv'
<1> USE DEF Arrive, budgetVars, contractVars, IInv
<1>0. PICK q \in Requests : request' = [request EXCEPT ![r] = q]
  OBVIOUS
<1>1. q.route \in Routes /\ q.grant \in Grants \cup {NoGrant} /\ q.header \in Headers
  BY RequestsAreKnown
<1>2. request'[r] = q /\ \A x \in Calls \ {r} : request'[x] = request[x]
  BY <1>0 DEF RequestIsKnown
<1>3. stage'[r] = "grant" /\ \A x \in Calls \ {r} : stage'[x] = stage[x]
  BY DEF TypeOK
<1>4. decision'[r] = NoDecision /\ \A x \in Calls \ {r} : decision'[x] = decision[x]
  BY DEF TypeOK
<1>5. TypeOK'
  BY <1>1, <1>2, <1>3, <1>4 DEF TypeOK, Decisions
<1>6. IssuedIsGenerated'
  BY DEF IssuedIsGenerated
<1>7. RequestIsKnown'
  <2>1. DOMAIN request' = Calls
    BY <1>0 DEF RequestIsKnown
  <2>2. Shown(r)'.decodes => Presented(r)'
    BY <1>1, <1>2, HeadersArePresented DEF Presented, Quote, Shown
  <2> QED BY <1>1, <1>2, <1>3, <2>1, <2>2 DEF RequestIsKnown, Presented, Quote, Shown
<1>8. GrantIsChecked'
  BY <1>2, <1>3 DEF GrantIsChecked, Granted, Config, Charge, Grant
<1>9. CaptureIsConsented'
  BY <1>2, <1>3 DEF CaptureIsConsented, Consented, Granted, Config, Charge, Grant, Quote, Shown
<1>10. DebitIsAsked'
  BY <1>3, <1>4 DEF DebitIsAsked, Owns, Contract!Entry, NoDecision
<1>11. HonoursSettled'
  BY <1>3, <1>4 DEF HonoursSettled, Settled, Owns, Status, Contract!Entry, NoDecision
<1>12. BudgetIsAsked'
  BY <1>2 DEF BudgetIsAsked, Settled, Owns, Status, Contract!Entry, Config, Charge, Grant
<1> QED BY <1>5, <1>6, <1>7, <1>8, <1>9, <1>10, <1>11, <1>12

\* A request turned away before any capture.
LEMMA TurnAwayKeeps ==
  ASSUME IInv, NEW r \in Calls, stage[r] \in {"grant", "header"},
         NEW d \in Decisions, d # NoDecision, d # "proceed", TurnAway(r, d),
         IssuedIsGenerated', issued \subseteq issued',
         UNCHANGED <<now, chargedAt, budgetVars, contractVars>>
  PROVE  IInv'
<1> USE DEF TurnAway, Decide, budgetVars, contractVars, IInv
<1>2. request'[r] = NoRequest /\ \A x \in Calls \ {r} : request'[x] = request[x]
  BY DEF RequestIsKnown
<1>3. stage'[r] = "decided" /\ \A x \in Calls \ {r} : stage'[x] = stage[x]
  BY DEF TypeOK
<1>4. decision'[r] = d /\ \A x \in Calls \ {r} : decision'[x] = decision[x]
  BY DEF TypeOK
<1>5. TypeOK'
  BY <1>2, <1>3, <1>4 DEF TypeOK
<1>6. chargedAt[r] = NotCharged
  BY DEF CaptureIsConsented
<1>7. RequestIsKnown'
  BY <1>2, <1>3 DEF RequestIsKnown, Presented, Quote, Shown
<1>8. GrantIsChecked'
  BY <1>2, <1>3 DEF GrantIsChecked, Granted, Config, Charge, Grant
<1>9. CaptureIsConsented'
  BY <1>2, <1>3, <1>6
     DEF CaptureIsConsented, Consented, Granted, Config, Charge, Grant, Quote, Shown
<1>10. DebitIsAsked'
  BY <1>3, <1>4 DEF DebitIsAsked, Owns, Contract!Entry
<1>11. HonoursSettled'
  BY <1>3, <1>4 DEF HonoursSettled, Settled, Owns, Status, Contract!Entry
<1>12. BudgetIsAsked'
  BY <1>2, <1>6 DEF BudgetIsAsked, Settled, Owns, Status, Contract!Entry, Config, Charge, Grant
<1> QED BY <1>5, <1>7, <1>8, <1>9, <1>10, <1>11, <1>12

\* A grant that allows what its route demands.
LEMMA PassGrantKeeps ==
  ASSUME IInv, NEW r \in Calls, stage[r] = "grant", Granted(r), GoOn(r, "header"),
         UNCHANGED <<now, issued, chargedAt, budgetVars, contractVars>>
  PROVE  IInv'
<1> USE DEF GoOn, Goto, budgetVars, contractVars, IInv
<1>3. stage'[r] = "header" /\ \A x \in Calls \ {r} : stage'[x] = stage[x]
  BY DEF TypeOK
<1>5. TypeOK'
  BY <1>3 DEF TypeOK, NoDecision
<1>6. IssuedIsGenerated' /\ RequestIsKnown'
  BY <1>3 DEF IssuedIsGenerated, RequestIsKnown, Presented, Quote, Shown
<1>8. GrantIsChecked'
  BY <1>3 DEF GrantIsChecked, Granted, Config, Charge, Grant
<1>9. CaptureIsConsented'
  BY <1>3 DEF CaptureIsConsented, Consented, Granted, Config, Charge, Grant, Quote, Shown
<1>10. DebitIsAsked' /\ HonoursSettled'
  BY <1>3 DEF DebitIsAsked, HonoursSettled, Settled, Owns, Status, Contract!Entry
<1>11. BudgetIsAsked'
  BY DEF BudgetIsAsked, Settled, Owns, Status, Contract!Entry, Config, Charge, Grant
<1> QED BY <1>5, <1>6, <1>8, <1>9, <1>10, <1>11

\* The stages before the capture are left alone by the world.
LEMMA EarlyKeeps ==
  ASSUME IInv, NEW r \in Calls,
         MissGrant(r) \/ CheckGrant(r) \/ AnswerUnpaid(r) \/ RejectCredential(r)
  PROVE  IInv'
<1>1. ASSUME NEW d \in Decisions, d # NoDecision, d # "proceed", TurnAway(r, d),
             stage[r] \in {"grant", "header"}, issued' = issued \/ \E e : SendChallenge(r, e),
             UNCHANGED <<now, chargedAt, budgetVars, contractVars>>
      PROVE  IInv'
  <2>1. IssuedIsGenerated' /\ issued \subseteq issued'
    BY <1>1, SentIsGenerated DEF IInv, IssuedIsGenerated, RequestIsKnown
  <2> QED BY <1>1, <2>1, TurnAwayKeeps
<1>2. /\ {"challenge", "invalid", "grant_required", "grant_invalid", "raised"} \subseteq Decisions
      /\ NoDecision \notin {"challenge", "invalid", "grant_required", "grant_invalid", "raised"}
  BY DEF Decisions, NoDecision
<1>3. CASE MissGrant(r)
  BY <1>1, <1>2, <1>3, PassGrantKeeps DEF MissGrant, Granted
<1>4. CASE CheckGrant(r)
  BY <1>1, <1>2, <1>4, PassGrantKeeps DEF CheckGrant, Granted, GrantAllows
<1>5. CASE AnswerUnpaid(r)
  <2>1. CASE SendChallenge(r, "challenge")
    BY <1>1, <1>2, <1>5, <2>1, SentTurnsAway DEF AnswerUnpaid
  <2>2. CASE TurnAway(r, "grant_invalid") /\ UNCHANGED issued
    BY <1>1, <1>2, <1>5, <2>2 DEF AnswerUnpaid
  <2> QED BY <1>5, <2>1, <2>2 DEF AnswerUnpaid
<1>6. CASE RejectCredential(r)
  <2>1. CASE SendChallenge(r, "invalid")
    BY <1>1, <1>2, <1>6, <2>1, SentTurnsAway DEF RejectCredential
  <2>2. CASE TurnAway(r, "raised") /\ UNCHANGED issued
    BY <1>1, <1>2, <1>6, <2>2 DEF RejectCredential
  <2> QED BY <1>6, <2>1, <2>2 DEF RejectCredential
<1> QED BY <1>3, <1>4, <1>5, <1>6

\* The capture begins: the payer answered a challenge of this server in time,
\* with the grant its route demands.
LEMMA AcceptKeeps ==
  ASSUME IInv, NEW r \in Calls, AcceptCredential(r)
  PROVE  IInv'
<1> USE DEF AcceptCredential, GoOn, Goto, budgetVars, contractVars, IInv
<1>1. stage'[r] = "capturing" /\ \A x \in Calls \ {r} : stage'[x] = stage[x]
  BY DEF TypeOK
<1>2. chargedAt'[r] = now /\ \A x \in Calls \ {r} : chargedAt'[x] = chargedAt[x]
  BY DEF TypeOK
<1>3. Quote(r) \in issued /\ now < Quote(r).expires
  <2>1. Verify(Config(r), Shown(r).credential, now) /\ Presented(r)
    BY DEF Verified, RequestIsKnown
  <2>2. Config(r) \in {rt.config : rt \in Routes}
    BY DEF RequestIsKnown, Config
  <2> QED BY <2>1, <2>2, VerifiedIsIssued DEF Verify, Quote
<1>4. now # NotCharged /\ now \in 0..NotCharged
  BY GateAssumption DEF TypeOK, NotCharged
<1>5. TypeOK'
  BY <1>1, <1>2, <1>4 DEF TypeOK, NoDecision
<1>6. IssuedIsGenerated' /\ RequestIsKnown' /\ GrantIsChecked'
  BY <1>1 DEF IssuedIsGenerated, RequestIsKnown, Presented, Quote, Shown, GrantIsChecked, Granted,
              Config, Charge, Grant
<1>7. CaptureIsConsented'
  BY <1>1, <1>2, <1>3
     DEF CaptureIsConsented, Consented, RequestIsKnown, GrantIsChecked, Granted, Config, Charge,
         Grant, Quote, Shown
<1>8. DebitIsAsked' /\ HonoursSettled'
  BY <1>1, <1>2, <1>4
     DEF DebitIsAsked, HonoursSettled, Settled, Owns, Status, Contract!Entry
<1>9. BudgetIsAsked'
  BY <1>2, <1>4 DEF BudgetIsAsked, Settled, Owns, Status, Contract!Entry, Config, Charge, Grant
<1> QED BY <1>5, <1>6, <1>7, <1>8, <1>9

\* The words of the contract are those of the gate.
LEMMA SameWords ==
  /\ Contract!DebitStatuses = DebitStatuses
  /\ Contract!FinalStatuses = FinalStatuses
  /\ \A t : Contract!IsPendingDebitStatus(t) <=> IsPendingDebitStatus(t)
  /\ Contract!Outcomes = Outcomes
  /\ Contract!NoOutcome = NoOutcome
  BY DEF Contract!DebitStatuses, DebitStatuses, Contract!FinalStatuses, FinalStatuses,
         Contract!IsPendingDebitStatus, IsPendingDebitStatus,
         Contract!PendingDebitStatuses, PendingDebitStatuses,
         Contract!Outcomes, Outcomes, Contract!NoOutcome, NoOutcome,
         Contract!PendingResult, PendingResult, Contract!Raised, Raised,
         Contract!Result, Result, Contract!Refused, Refused, Contract!Outcome, Outcome,
         Contract!Garbled, Garbled, Contract!NoAnswer, NoAnswer, Contract!Codes, Codes,
         Contract!ErrorCodes, ErrorCodes

\* The steps of a request whose capture began: what moves is its stage, its
\* decision and what it asks of the budget, and what they tell is settled.
LEMMA LateKeeps ==
  ASSUME IInv, NEW r \in Calls, chargedAt[r] # NotCharged,
         NEW s \in {"settled", "budget", "decided"}, NEW d \in Decisions,
         stage' = [stage EXCEPT ![r] = s], decision' = [decision EXCEPT ![r] = d],
         s = "decided" <=> d # NoDecision,
         s \in {"settled", "budget"} \/ d = "proceed" => Settled(r),
         \/ price' = price
         \/ /\ price' = [price EXCEPT ![r] = Charge(r).amount]
            /\ UsesBudget(Config(r), Grant(r)) /\ Settled(r),
         told' \in [Calls -> {"open", "returned", "failed"}], outcome' \in [Calls -> Outcomes],
         UNCHANGED <<now, request, issued, chargedAt, ledger, remaining, drawn>>
  PROVE  IInv'
<1> USE DEF IInv
<1>1. stage'[r] = s /\ \A x \in Calls \ {r} : stage'[x] = stage[x]
  BY DEF TypeOK
<1>2. decision'[r] = d /\ \A x \in Calls \ {r} : decision'[x] = decision[x]
  BY DEF TypeOK
<1>3. Charge(r).amount \in Nat
  BY GateAssumption DEF CaptureIsConsented, Consented, Charge
<1>4. price' \in [Calls -> Nat \cup {Account!NotAsked}]
        /\ \A x \in Calls : \/ price'[x] = price[x]
                           \/ /\ x = r /\ price'[r] = Charge(r).amount
                              /\ UsesBudget(Config(r), Grant(r)) /\ Settled(r)
  BY <1>3 DEF TypeOK
<1>5. TypeOK'
  BY <1>1, <1>2, <1>4 DEF TypeOK
<1>6. IssuedIsGenerated' /\ RequestIsKnown' /\ GrantIsChecked'
  BY <1>1 DEF IssuedIsGenerated, RequestIsKnown, Presented, Quote, Shown, GrantIsChecked, Granted,
              Config, Charge, Grant
<1>7. CaptureIsConsented'
  BY <1>1 DEF CaptureIsConsented, Consented, Granted, Config, Charge, Grant, Quote, Shown
<1>8. DebitIsAsked'
  BY <1>1, <1>2 DEF DebitIsAsked, Owns, Contract!Entry
<1>9. HonoursSettled'
  BY <1>1, <1>2 DEF HonoursSettled, Settled, Owns, Status, Contract!Entry
<1>10. BudgetIsAsked'
  <2>1. Account!NotAsked \notin Nat
    BY DEF Account!NotAsked
  <2>2. \A x \in Calls : Settled(x)' <=> Settled(x)
    BY DEF Settled, Owns, Status, Contract!Entry
  <2> QED BY <1>3, <1>4, <2>1, <2>2 DEF BudgetIsAsked, Config, Charge, Grant
<1> QED BY <1>5, <1>6, <1>7, <1>8, <1>9, <1>10

\* capture() ends: the request goes on to be served only with a settled debit.
LEMMA EndCaptureKeeps ==
  ASSUME IInv, NEW r \in Calls, EndCapture(r)
  PROVE  IInv'
<1> DEFINE o == outcome'[r]
<1>1. PICK p \in Outcomes : Contract!Truthful(r, p) /\ outcome' = [outcome EXCEPT ![r] = p]
  BY SameWords DEF EndCapture, Contract!Report
<1>2. o = p /\ outcome' \in [Calls -> Outcomes] /\ UNCHANGED ledger
  BY <1>1 DEF IInv, TypeOK, EndCapture, Contract!Report
<1>3. stage[r] = "capturing" /\ chargedAt[r] # NotCharged /\ decision[r] = NoDecision
  BY DEF EndCapture, IInv, DebitIsAsked, TypeOK
<1>4. UNCHANGED <<now, request, issued, chargedAt, budgetVars>>
  BY DEF EndCapture
<1>5. CASE \E d \in {"failed", "error", "pending"} : Decide(r, d)
  <2>1. PICK d \in {"failed", "error", "pending"} : Decide(r, d)
    BY <1>5
  <2>2. d \in Decisions /\ d # NoDecision /\ d # "proceed"
    BY <2>1 DEF Decisions, NoDecision
  <2> QED BY <1>2, <1>3, <1>4, <2>1, <2>2, LateKeeps
          DEF Decide, budgetVars, IInv, TypeOK
<1>6. CASE Captured(o) /\ ~IsPendingCapture(o) /\ Goto(r, "settled")
  <2>1. p.kind = "result" /\ ~IsPendingDebitStatus(p.status)
    BY <1>2, <1>6 DEF Captured, IsPendingCapture
  <2>2. Owns(r) /\ Status(r) = p.status
    BY <1>1, <2>1, SameWords DEF Contract!Truthful, Owns, Status
  <2>3. Settled(r)
    BY <2>1, <2>2 DEF Settled
  <2>4. decision' = [decision EXCEPT ![r] = NoDecision] /\ NoDecision \in Decisions
    BY <1>3, <1>6 DEF Goto, IInv, TypeOK, Decisions, NoDecision
  <2> QED BY <1>2, <1>3, <1>4, <1>6, <2>3, <2>4, LateKeeps
          DEF Goto, budgetVars, IInv, TypeOK
<1> QED BY <1>5, <1>6 DEF EndCapture

\* The budget is asked for the amount of a settled debit.
LEMMA AskBudgetKeeps ==
  ASSUME IInv, NEW r \in Calls, AskBudget(r)
  PROVE  IInv'
<1>1. Settled(r) /\ chargedAt[r] # NotCharged /\ UsesBudget(Config(r), Grant(r))
  BY DEF AskBudget, NeedsBudget, IInv, HonoursSettled, DebitIsAsked
<1>2. price' = [price EXCEPT ![r] = Charge(r).amount] /\ UNCHANGED <<remaining, drawn, told>>
  BY DEF AskBudget, Account!Ask
<1>3. decision[r] = NoDecision /\ decision' = [decision EXCEPT ![r] = NoDecision]
        /\ NoDecision \in Decisions
  BY DEF AskBudget, Goto, IInv, TypeOK, Decisions, NoDecision
<1> QED BY <1>1, <1>2, <1>3, LateKeeps DEF AskBudget, Goto, contractVars, IInv, TypeOK

\* The budget debit ends, or there is none, and the receipt follows.
LEMMA LastStepsKeep ==
  ASSUME IInv, NEW r \in Calls, EndBudget(r) \/ SkipBudget(r)
  PROVE  IInv'
<1>1. Settled(r) /\ chargedAt[r] # NotCharged
  BY DEF EndBudget, SkipBudget, NeedsBudget, IInv, HonoursSettled, DebitIsAsked
<1>2. told' \in [Calls -> {"open", "returned", "failed"}] /\ UNCHANGED <<remaining, price, drawn>>
  BY DEF EndBudget, SkipBudget, Account!Report, budgetVars, IInv, TypeOK
<1>3. PICK d \in {"proceed", "raised"} : Decide(r, d)
  BY DEF EndBudget, SkipBudget, AfterBudgetFailure, ReceiptFails
<1>4. d \in Decisions /\ d # NoDecision
  BY <1>3 DEF Decisions, NoDecision
<1> QED BY <1>1, <1>2, <1>3, <1>4, LateKeeps
        DEF EndBudget, SkipBudget, Decide, contractVars, IInv, TypeOK

----------------------------------------------------------------------------
(* The world. *)

\* Pine Labs books a debit that was asked for.
LEMMA BookKeeps ==
  ASSUME IInv, NEW r \in Calls, Book(r)
  PROVE  IInv'
<1> USE DEF Book, gateVars, budgetVars, IInv
<1>1. PICK t \in DebitStatuses :
        ledger' = [ledger EXCEPT ![KeyOf[r]] = [status |-> t, owner |-> r]]
  BY SameWords DEF Contract!Book
<1>2. ledger[KeyOf[r]].owner = NoCall /\ UNCHANGED outcome
  BY DEF Contract!Book, Contract!Entry, Contract!Unbooked
<1>3. TypeOK'
  BY <1>1, <1>2, GateAssumption DEF TypeOK
<1>4. \A x \in Calls : Owns(x) => x # r /\ Owns(x)' /\ Status(x)' = Status(x)
  BY <1>1, <1>2, GateAssumption DEF TypeOK, Owns, Status, Contract!Entry
<1>5. \A x \in Calls : Owns(x)' => x = r \/ Owns(x)
  BY <1>1, GateAssumption DEF TypeOK, Owns, Contract!Entry
<1>6. IssuedIsGenerated' /\ RequestIsKnown' /\ GrantIsChecked' /\ CaptureIsConsented'
  BY DEF IssuedIsGenerated, RequestIsKnown, Presented, Quote, Shown, GrantIsChecked, Granted,
         Config, Charge, Grant, CaptureIsConsented, Consented
<1>7. DebitIsAsked'
  BY <1>5 DEF DebitIsAsked
<1>8. HonoursSettled' /\ BudgetIsAsked'
  BY <1>4 DEF HonoursSettled, BudgetIsAsked, Settled, Config, Charge, Grant
<1> QED BY <1>3, <1>6, <1>7, <1>8

\* A debit settles: it stays its owner's, and no longer pending.
LEMMA SettleKeeps ==
  ASSUME IInv, NEW k \in Keys, Settle(k)
  PROVE  IInv'
<1> USE DEF Settle, gateVars, budgetVars, IInv
<1>1. PICK t \in FinalStatuses : ledger' = [ledger EXCEPT ![k].status = t]
  BY SameWords DEF Contract!SettleDebit
<1>2. UNCHANGED outcome
  BY DEF Contract!SettleDebit
<1>3. TypeOK'
  BY <1>1, <1>2, GateAssumption DEF TypeOK, DebitStatuses
<1>4. \A x \in Calls : /\ Owns(x)' <=> Owns(x)
                       /\ ~IsPendingDebitStatus(Status(x)) => ~IsPendingDebitStatus(Status(x)')
  BY <1>1, GateAssumption
  DEF TypeOK, Owns, Status, Contract!Entry, IsPendingDebitStatus, PendingDebitStatuses,
      FinalStatuses
<1>6. IssuedIsGenerated' /\ RequestIsKnown' /\ GrantIsChecked' /\ CaptureIsConsented'
  BY DEF IssuedIsGenerated, RequestIsKnown, Presented, Quote, Shown, GrantIsChecked, Granted,
         Config, Charge, Grant, CaptureIsConsented, Consented
<1>7. DebitIsAsked' /\ HonoursSettled' /\ BudgetIsAsked'
  BY <1>4 DEF DebitIsAsked, HonoursSettled, BudgetIsAsked, Settled, Config, Charge, Grant
<1> QED BY <1>3, <1>6, <1>7

\* Grantex draws what it was asked to, and what is left.
LEMMA DrawBudgetKeeps ==
  ASSUME IInv, NEW r \in Calls, DrawBudget(r)
  PROVE  IInv'
<1> USE DEF DrawBudget, Account!Draw, gateVars, contractVars, IInv
<1>1. price[r] \in Nat /\ drawn' = [drawn EXCEPT ![r] = drawn[r] + 1]
        /\ remaining' = remaining - price[r] /\ UNCHANGED <<price, told>>
  BY DEF TypeOK
<1>2. remaining' \in 0..Budget
  BY <1>1, GateAssumption DEF TypeOK
<1>3. drawn[r] + 1 \in 0..BudgetTries
  BY GateAssumption DEF TypeOK
<1>4. TypeOK'
  BY <1>1, <1>2, <1>3 DEF TypeOK
<1>5. \A x \in Calls : drawn'[x] > 0 => drawn[x] > 0 \/ x = r
  BY <1>1 DEF TypeOK
<1>6. IssuedIsGenerated' /\ RequestIsKnown' /\ GrantIsChecked' /\ CaptureIsConsented'
  BY DEF IssuedIsGenerated, RequestIsKnown, Presented, Quote, Shown, GrantIsChecked, Granted,
         Config, Charge, Grant, CaptureIsConsented, Consented
<1>7. DebitIsAsked' /\ HonoursSettled'
  BY DEF DebitIsAsked, HonoursSettled, Settled, Owns, Status, Contract!Entry
<1>8. BudgetIsAsked'
  BY <1>1, <1>5
  DEF BudgetIsAsked, Settled, Owns, Status, Contract!Entry, Config, Charge, Grant, Account!NotAsked
<1> QED BY <1>4, <1>6, <1>7, <1>8

\* Time and stuttering change none of it.
LEMMA StandsStill ==
  ASSUME IInv, Tick \/ UNCHANGED vars
  PROVE  IInv'
<1> USE DEF vars, gateVars, budgetVars, contractVars, IInv
<1>1. now' \in 0..MaxTime /\ UNCHANGED <<stage, request, issued, decision, chargedAt,
                                       budgetVars, contractVars>>
  BY GateAssumption DEF Tick, TypeOK
<1>2. TypeOK'
  BY <1>1 DEF TypeOK
<1>3. IssuedIsGenerated' /\ RequestIsKnown' /\ GrantIsChecked' /\ CaptureIsConsented'
  BY <1>1 DEF IssuedIsGenerated, RequestIsKnown, Presented, Quote, Shown, GrantIsChecked, Granted,
         Config, Charge, Grant, CaptureIsConsented, Consented
<1>4. DebitIsAsked' /\ HonoursSettled' /\ BudgetIsAsked'
  BY <1>1 DEF DebitIsAsked, HonoursSettled, BudgetIsAsked, Settled, Owns, Status, Contract!Entry,
              Config, Charge, Grant
<1> QED BY <1>2, <1>3, <1>4

\* Every step keeps the invariant.
LEMMA NextKeeps == IInv /\ [Next]_vars => IInv'
  BY ArriveKeeps, EarlyKeeps, AcceptKeeps, EndCaptureKeeps, AskBudgetKeeps,
     LastStepsKeep, BookKeeps, SettleKeeps, DrawBudgetKeeps, StandsStill DEF Next, Step

LEMMA Invariance == Spec => []IInv
  BY InitInvariant, NextKeeps, PTL DEF Spec

----------------------------------------------------------------------------
(* The theorems. *)

\* In every state the variables of the gate are in their ranges, and a request
\* has a decision exactly when it is decided.
THEOREM TypeCorrect == Spec => []TypeOK
<1>1. IInv => TypeOK
  BY DEF IInv
<1> QED BY <1>1, Invariance, PTL

\* Whatever credentials, grants and routes come, and however requests
\* interleave, a debit is only ever booked for a request that answered a
\* challenge of this server unchanged and in time, with the grant its route
\* demands.
THEOREM DebitsAreConsented == Spec => []DebitIsConsented
<1>1. IInv => DebitIsConsented
  BY DEF IInv, DebitIsConsented, DebitIsAsked, CaptureIsConsented, Consented, Granted
<1> QED BY <1>1, Invariance, PTL

\* However late the package draws on a budget, it does so for the amount that was
\* debited, once that debit settled, and within a valid grant's cap.
THEOREM DrawsAreGranted == Spec => []DrawIsGranted
<1>1. ASSUME IInv, NEW r \in Calls, drawn[r] > 0
      PROVE  /\ UsesBudget(Config(r), Grant(r)) /\ WithinCap(Grant(r), price[r])
             /\ price[r] = Charge(r).amount
             /\ Owns(r) /\ ~IsPendingDebitStatus(Status(r))
  <2>1. /\ UsesBudget(Config(r), Grant(r)) /\ price[r] = Charge(r).amount
        /\ Settled(r) /\ chargedAt[r] # NotCharged
    BY <1>1 DEF IInv, BudgetIsAsked
  <2>2. WithinCap(Grant(r), Charge(r).amount)
    BY <1>1, <2>1 DEF IInv, CaptureIsConsented, Consented, Granted, UsesBudget
  <2> QED BY <2>1, <2>2 DEF Settled
<1>2. IInv => DrawIsGranted
  BY <1>1 DEF DrawIsGranted
<1> QED BY <1>2, Invariance, PTL

----------------------------------------------------------------------------
(* The gate gives paid access. *)

\* What a step that touches no debit or decision, and draws nothing, shows of the gate.
LEMMA SameViews ==
  ASSUME UNCHANGED <<decision, chargedAt, drawn, ledger>>
  PROVE  UNCHANGED Gate!accessVars
BY DEF Gate!accessVars, DebitView, AccessView, Owns, Status, Contract!Entry

\* Before the capture, a decision opens nothing and closes nothing.
LEMMA EarlyStutters ==
  ASSUME IInv, NEW r \in Calls,
         Arrive(r) \/ MissGrant(r) \/ CheckGrant(r) \/ AnswerUnpaid(r) \/ RejectCredential(r)
  PROVE  UNCHANGED Gate!accessVars
<1>1. UNCHANGED <<chargedAt, drawn, ledger>>
  BY DEF Arrive, MissGrant, CheckGrant, AnswerUnpaid, RejectCredential, budgetVars, contractVars
<1>2. chargedAt[r] = NotCharged /\ decision[r] # "proceed"
  BY DEF Arrive, MissGrant, CheckGrant, AnswerUnpaid, RejectCredential, IInv, CaptureIsConsented,
         DebitIsAsked
<1>3. \/ UNCHANGED decision
      \/ \E d \in {NoDecision, "challenge", "invalid", "grant_required", "grant_invalid", "raised"} :
           decision' = [decision EXCEPT ![r] = d]
  BY DEF Arrive, MissGrant, CheckGrant, AnswerUnpaid, RejectCredential, SendChallenge, TurnAway, Decide,
         GoOn, Goto
<1>4. \A x \in Calls : decision'[x] = "proceed" <=> decision[x] = "proceed"
  BY <1>2, <1>3 DEF IInv, TypeOK, NoDecision
<1> QED BY <1>1, <1>4 DEF Gate!accessVars, DebitView, AccessView, Owns, Status, Contract!Entry

\* The capture that begins is the payer's asking.
LEMMA AcceptAsks ==
  ASSUME IInv, NEW r \in Calls, AcceptCredential(r)
  PROVE  Gate!Ask(r)
<1>1. UNCHANGED <<decision, drawn, ledger>> /\ chargedAt' = [chargedAt EXCEPT ![r] = now]
  BY DEF AcceptCredential, GoOn, Goto, budgetVars, contractVars
<1>2. chargedAt[r] = NotCharged /\ decision[r] # "proceed"
  BY DEF AcceptCredential, IInv, CaptureIsConsented, DebitIsAsked
<1>3. chargedAt'[r] # NotCharged /\ \A x \in Calls \ {r} : chargedAt'[x] = chargedAt[x]
  BY <1>1, GateAssumption DEF IInv, TypeOK, NotCharged
<1>4. AccessView[r] = "closed"
  BY <1>2 DEF AccessView
<1>5. AccessView' = [AccessView EXCEPT ![r] = "asked"]
  BY <1>1, <1>2, <1>3 DEF AccessView
<1>6. DebitView' = DebitView
  BY <1>1 DEF DebitView, Owns, Status, Contract!Entry
<1> QED BY <1>1, <1>4, <1>5, <1>6 DEF Gate!Ask

\* capture() may end however it does: no access is given yet.
LEMMA EndCaptureStutters ==
  ASSUME IInv, NEW r \in Calls, EndCapture(r)
  PROVE  UNCHANGED Gate!accessVars
<1>1. UNCHANGED <<chargedAt, drawn, ledger>>
  BY DEF EndCapture, budgetVars, Contract!Report
<1>2. decision[r] = NoDecision
  BY DEF EndCapture, IInv, TypeOK
<1>3. UNCHANGED decision \/ \E d \in {"failed", "error", "pending"} :
                              decision' = [decision EXCEPT ![r] = d]
  BY DEF EndCapture, Decide, Goto
<1>4. \A x \in Calls : decision'[x] = "proceed" <=> decision[x] = "proceed"
  BY <1>2, <1>3 DEF IInv, TypeOK, NoDecision
<1> QED BY <1>1, <1>4 DEF Gate!accessVars, DebitView, AccessView, Owns, Status, Contract!Entry

\* What is asked of the budget is not drawn yet.
LEMMA AskBudgetStutters ==
  ASSUME IInv, NEW r \in Calls, AskBudget(r)
  PROVE  UNCHANGED Gate!accessVars
<1>1. UNCHANGED <<decision, chargedAt, drawn, ledger>>
  BY DEF AskBudget, Account!Ask, Goto, contractVars
<1> QED BY <1>1, SameViews

\* The answer follows the settled debit.
LEMMA LastStepsOpen ==
  ASSUME IInv, NEW r \in Calls, EndBudget(r) \/ SkipBudget(r)
  PROVE  Gate!Open(r) \/ UNCHANGED Gate!accessVars
<1>1. Settled(r) /\ chargedAt[r] # NotCharged /\ decision[r] = NoDecision
  BY DEF EndBudget, SkipBudget, NeedsBudget, IInv, TypeOK, HonoursSettled, DebitIsAsked
<1>2. UNCHANGED <<chargedAt, ledger, drawn>>
  BY DEF EndBudget, SkipBudget, Account!Report, budgetVars, contractVars
<1>3. PICK d \in {"proceed", "raised"} : decision' = [decision EXCEPT ![r] = d]
  BY DEF EndBudget, SkipBudget, AfterBudgetFailure, ReceiptFails, Decide
<1>4. DebitView[r] = "settled" /\ DebitView' = DebitView
  BY <1>1, <1>2 DEF DebitView, Settled, Owns, Status, Contract!Entry
<1>5. AccessView[r] = "asked"
  BY <1>1 DEF AccessView, NoDecision
<1>6. AccessView' = [AccessView EXCEPT ![r] = "open"] \/ AccessView' = AccessView
  BY <1>1, <1>2, <1>3 DEF AccessView, IInv, TypeOK, NoDecision
<1> QED BY <1>2, <1>4, <1>5, <1>6 DEF Gate!Open, Gate!accessVars

\* A draw on the budget counts a settled debit.
LEMMA DrawBudgetDraws ==
  ASSUME IInv, NEW r \in Calls, DrawBudget(r)
  PROVE  Gate!Draw(r)
<1>1. UNCHANGED <<decision, chargedAt, ledger>> /\ drawn' = [drawn EXCEPT ![r] = drawn[r] + 1]
  BY DEF DrawBudget, Account!Draw, gateVars, contractVars
<1>2. Settled(r) /\ chargedAt[r] # NotCharged
  BY DEF DrawBudget, Account!Draw, IInv, BudgetIsAsked
<1>3. DebitView[r] = "settled" /\ DebitView' = DebitView
  BY <1>1, <1>2 DEF DebitView, Settled, Owns, Status, Contract!Entry
<1>4. AccessView[r] # "closed" /\ AccessView' = AccessView
  BY <1>1, <1>2 DEF AccessView
<1>5. \A x \in Calls : drawn'[x] > 0 <=> drawn[x] > 0 \/ x = r
  BY <1>1, GateAssumption DEF IInv, TypeOK
<1>6. {x \in Calls : drawn'[x] > 0} = {x \in Calls : drawn[x] > 0} \cup {r}
  BY <1>5
<1> QED BY <1>3, <1>4, <1>6 DEF Gate!Draw

\* Pine Labs debits a request that asked.
LEMMA BookDebits ==
  ASSUME IInv, NEW r \in Calls, Book(r)
  PROVE  Gate!Debit(r)
<1>1. PICK t \in DebitStatuses :
        ledger' = [ledger EXCEPT ![KeyOf[r]] = [status |-> t, owner |-> r]]
  BY SameWords DEF Book, Contract!Book
<1>2. ledger[KeyOf[r]].owner = NoCall /\ UNCHANGED <<decision, chargedAt, drawn>>
  BY DEF Book, gateVars, budgetVars, Contract!Book, Contract!Entry, Contract!Unbooked
<1>3. \A x \in Calls \ {r} : (Owns(x)' <=> Owns(x)) /\ (Owns(x) => Status(x)' = Status(x))
  BY <1>1, <1>2, GateAssumption DEF IInv, TypeOK, Owns, Status, Contract!Entry
<1>4. ~Owns(r) /\ Owns(r)'
  BY <1>1, <1>2, GateAssumption DEF IInv, TypeOK, Owns, Contract!Entry
<1>5. DebitView[r] = "none"
  BY <1>4 DEF DebitView
<1>6. \E d \in {"pending", "settled"} : DebitView' = [DebitView EXCEPT ![r] = d]
  BY <1>3, <1>4 DEF DebitView
<1>7. AccessView[r] # "closed" /\ AccessView' = AccessView
  BY <1>2 DEF Book, AccessView
<1> QED BY <1>2, <1>5, <1>6, <1>7 DEF Gate!Debit

\* A debit that settles is its owner's.
LEMMA SettleSettles ==
  ASSUME IInv, NEW k \in Keys, Settle(k)
  PROVE  [Gate!Next]_(Gate!accessVars)
<1>1. PICK t \in FinalStatuses : ledger' = [ledger EXCEPT ![k].status = t]
  BY SameWords DEF Settle, Contract!SettleDebit
<1>2. UNCHANGED <<decision, chargedAt, drawn>> /\ IsPendingDebitStatus(ledger[k].status)
  BY SameWords DEF Settle, gateVars, budgetVars, Contract!SettleDebit
<1>3. AccessView' = AccessView
  BY <1>2 DEF AccessView
<1>4. \A x \in Calls : /\ Owns(x)' <=> Owns(x)
                       /\ KeyOf[x] # k => Status(x)' = Status(x)
                       /\ KeyOf[x] = k => ~IsPendingDebitStatus(Status(x)')
  BY <1>1, GateAssumption
  DEF IInv, TypeOK, Owns, Status, Contract!Entry, IsPendingDebitStatus, PendingDebitStatuses,
      FinalStatuses
<1>5. CASE \E x \in Calls : KeyOf[x] = k /\ Owns(x)
  <2>1. PICK x \in Calls : KeyOf[x] = k /\ Owns(x)
    BY <1>5
  <2>2. DebitView[x] = "pending"
    BY <1>2, <2>1 DEF DebitView, Owns, Status, Contract!Entry
  <2>3. \A y \in Calls \ {x} : KeyOf[y] = k => ~Owns(y)
    BY <2>1 DEF Owns, Contract!Entry
  <2>4. DebitView' = [DebitView EXCEPT ![x] = "settled"]
    BY <1>4, <2>1, <2>3 DEF DebitView
  <2>5. Gate!Settle(x)
    BY <1>2, <1>3, <2>2, <2>4 DEF Gate!Settle
  <2> QED BY <2>5 DEF Gate!Next
<1>6. CASE ~\E x \in Calls : KeyOf[x] = k /\ Owns(x)
  <2>1. DebitView' = DebitView
    BY <1>4, <1>6 DEF DebitView
  <2> QED BY <1>2, <1>3, <2>1 DEF Gate!accessVars
<1> QED BY <1>5, <1>6

\* Every behaviour of the gate is one that PaidAccess allows: no debit that was
\* not asked for, no access and no draw on the budget before the request's own
\* debit settled.
THEOREM ImplementsPaidAccess == Spec => GivesPaidAccess
<1>1. Init => Gate!Init
  <2> SUFFICES ASSUME Init  PROVE Gate!Init
    OBVIOUS
  <2>1. \A r \in Calls : ~Owns(r)
    BY GateAssumption DEF Init, Contract!Init, Owns, Contract!Entry, Contract!Unbooked
  <2> QED BY <2>1 DEF Init, Account!Init, Gate!Init, DebitView, AccessView, NoDecision
<1>2. IInv /\ [Next]_vars => [Gate!Next]_(Gate!accessVars)
  <2> SUFFICES ASSUME IInv, [Next]_vars  PROVE [Gate!Next]_(Gate!accessVars)
    OBVIOUS
  <2>1. ASSUME NEW r \in Calls, Arrive(r) \/ Step(r) \/ Book(r) \/ DrawBudget(r)
        PROVE  [Gate!Next]_(Gate!accessVars)
    BY <2>1, EarlyStutters, AcceptAsks, EndCaptureStutters, AskBudgetStutters, LastStepsOpen,
       BookDebits, DrawBudgetDraws
    DEF Step, Gate!Next
  <2>2. ASSUME NEW k \in Keys, Settle(k)  PROVE [Gate!Next]_(Gate!accessVars)
    BY <2>2, SettleSettles
  <2>3. CASE Tick \/ UNCHANGED vars
    <3>1. UNCHANGED <<decision, chargedAt, drawn, ledger>>
      BY <2>3 DEF Tick, vars, gateVars, budgetVars, contractVars
    <3> QED BY <3>1, SameViews
  <2> QED BY <2>1, <2>2, <2>3 DEF Next
<1> QED BY <1>1, <1>2, Invariance, PTL DEF Spec, GivesPaidAccess, Gate!Spec

----------------------------------------------------------------------------
(***************************************************************************)
(* What becomes of a request whose debit has settled.  This invariant      *)
(* stands on IInv.                                                         *)
(***************************************************************************)

\* A capture has an outcome only once it began; past it, or with a budget asked, the
\* outcome is a settled debit, and then no decision turns the payer away.
Honours(r) ==
  /\ chargedAt[r] = NotCharged => outcome[r] = NoOutcome
  /\ stage[r] \in {"settled", "budget"} => SawSettled(r)
  /\ price[r] # Account!NotAsked => SawSettled(r)
  /\ stage[r] = "decided" /\ SawSettled(r) => decision[r] \in {"proceed", "raised"}

HInv == \A r \in Calls : Honours(r)

\* No outcome is not a settled debit.
LEMMA NothingSeen == \A r \in Calls : outcome[r] = NoOutcome => ~SawSettled(r)
  BY DEF SawSettled, Captured, NoOutcome, Outcome

\* What another request does, or the world, leaves this one as it was.
LEMMA UntouchedHonours ==
  ASSUME NEW r \in Calls, Honours(r), outcome'[r] = outcome[r], chargedAt'[r] = chargedAt[r],
         stage'[r] = stage[r], decision'[r] = decision[r], price'[r] = price[r]
  PROVE  Honours(r)'
BY DEF Honours, SawSettled, Account!NotAsked

\* The request itself, up to its capture.
LEMMA EarlyHonours ==
  ASSUME IInv, HInv, NEW r \in Calls,
         Arrive(r) \/ MissGrant(r) \/ CheckGrant(r) \/ AnswerUnpaid(r) \/ RejectCredential(r)
         \/ AcceptCredential(r)
  PROVE  Honours(r)'
<1>1. outcome' = outcome /\ price' = price
  BY DEF Arrive, MissGrant, CheckGrant, AnswerUnpaid, RejectCredential, AcceptCredential,
         budgetVars, contractVars
<1>2. chargedAt[r] = NotCharged
  BY DEF Arrive, MissGrant, CheckGrant, AnswerUnpaid, RejectCredential, AcceptCredential,
         IInv, CaptureIsConsented
<1>3. outcome[r] = NoOutcome /\ ~SawSettled(r)
  BY <1>2, NothingSeen DEF HInv, Honours
<1>4. ~SawSettled(r)' /\ outcome'[r] = NoOutcome /\ price'[r] = Account!NotAsked
  BY <1>1, <1>3 DEF HInv, Honours, SawSettled
<1>5. stage'[r] \in {"grant", "header", "capturing", "decided"}
  BY DEF Arrive, MissGrant, CheckGrant, AnswerUnpaid, RejectCredential, AcceptCredential,
         SendChallenge, TurnAway, Decide, GoOn, Goto, IInv, TypeOK
<1> QED BY <1>4, <1>5 DEF Honours, Account!NotAsked

\* The end of its capture: a settled debit is not answered but honoured.
LEMMA EndCaptureHonours ==
  ASSUME IInv, HInv, NEW r \in Calls, EndCapture(r)
  PROVE  Honours(r)'
<1> DEFINE o == outcome'[r]
<1>1. chargedAt'[r] # NotCharged /\ price' = price /\ outcome[r] = NoOutcome
  BY SameWords DEF EndCapture, budgetVars, Contract!Report, IInv, DebitIsAsked
<1>2. price'[r] = Account!NotAsked
  BY <1>1, NothingSeen DEF HInv, Honours
<1>3. CASE SawSettled(r)'
  <2>1. Goto(r, "settled")
    BY <1>3 DEF EndCapture, SawSettled, Captured
  <2>2. stage'[r] = "settled"
    BY <2>1 DEF Goto, IInv, TypeOK
  <2> QED BY <1>1, <1>2, <1>3, <2>2 DEF Honours, Account!NotAsked
<1>4. CASE ~SawSettled(r)'
  <2>1. \E d \in Decisions : Decide(r, d)
    BY <1>4 DEF EndCapture, SawSettled, Decisions
  <2>2. stage'[r] = "decided"
    BY <2>1 DEF Decide, IInv, TypeOK
  <2> QED BY <1>1, <1>2, <1>4, <2>2 DEF Honours, Account!NotAsked
<1> QED BY <1>3, <1>4

\* After it, the budget's answer decides nothing.
LEMMA LastStepsHonour ==
  ASSUME IInv, HInv, NEW r \in Calls, AskBudget(r) \/ EndBudget(r) \/ SkipBudget(r)
  PROVE  Honours(r)'
<1>1. outcome' = outcome /\ chargedAt' = chargedAt
  BY DEF AskBudget, EndBudget, SkipBudget, contractVars
<1>2. SawSettled(r)
  BY DEF AskBudget, EndBudget, SkipBudget, NeedsBudget, HInv, Honours
<1>3. SawSettled(r)'
  BY <1>1, <1>2 DEF SawSettled
<1>4. stage'[r] = "decided" => decision'[r] \in {"proceed", "raised"}
  <2>1. CASE AskBudget(r)
    BY <2>1 DEF AskBudget, Goto, IInv, TypeOK
  <2>2. CASE EndBudget(r) \/ SkipBudget(r)
    <3>1. PICK d \in {"proceed", "raised"} : Decide(r, d)
      BY <2>2 DEF EndBudget, SkipBudget, AfterBudgetFailure, ReceiptFails
    <3> QED BY <3>1 DEF Decide, IInv, TypeOK
  <2> QED BY <2>1, <2>2
<1> QED BY <1>1, <1>3, <1>4 DEF HInv, Honours

\* A step of one request changes nothing the others' decisions rest on.
LEMMA OthersUntouched ==
  ASSUME IInv, NEW r \in Calls, Arrive(r) \/ Step(r), NEW x \in Calls \ {r}
  PROVE  /\ outcome'[x] = outcome[x] /\ chargedAt'[x] = chargedAt[x]
         /\ stage'[x] = stage[x] /\ decision'[x] = decision[x] /\ price'[x] = price[x]
<1>1. outcome'[x] = outcome[x]
  BY DEF Arrive, Step, MissGrant, CheckGrant, AnswerUnpaid, RejectCredential, AcceptCredential,
         EndCapture, AskBudget, EndBudget, SkipBudget, Contract!Report, contractVars, IInv, TypeOK
<1>2. chargedAt'[x] = chargedAt[x]
  BY DEF Arrive, Step, MissGrant, CheckGrant, AnswerUnpaid, RejectCredential, AcceptCredential,
         EndCapture, AskBudget, EndBudget, SkipBudget, IInv, TypeOK
<1>3. price'[x] = price[x]
  BY DEF Arrive, Step, MissGrant, CheckGrant, AnswerUnpaid, RejectCredential, AcceptCredential,
         EndCapture, AskBudget, EndBudget, SkipBudget, Account!Ask, Account!Report, budgetVars,
         IInv, TypeOK
<1>4. stage'[x] = stage[x] /\ decision'[x] = decision[x]
  BY DEF Arrive, Step, MissGrant, CheckGrant, AnswerUnpaid, RejectCredential, AcceptCredential,
         EndCapture, AskBudget, EndBudget, SkipBudget, AfterBudgetFailure, ReceiptFails, SendChallenge,
         TurnAway, Decide, GoOn, Goto, IInv, TypeOK
<1> QED BY <1>1, <1>2, <1>3, <1>4

LEMMA HonourInit == Init => HInv
<1> SUFFICES ASSUME Init, NEW r \in Calls  PROVE Honours(r)
  BY DEF HInv
<1>1. outcome[r] = NoOutcome /\ stage[r] = "idle" /\ price[r] = Account!NotAsked
  BY SameWords DEF Init, Contract!Init, Account!Init
<1> QED BY <1>1 DEF Honours

LEMMA HonourNextKeeps == IInv /\ HInv /\ [Next]_vars => HInv'
<1> SUFFICES ASSUME IInv, HInv, [Next]_vars  PROVE HInv'
  OBVIOUS
<1>1. ASSUME NEW r \in Calls, Arrive(r) \/ Step(r)  PROVE HInv'
  <2>1. Honours(r)'
    BY <1>1, EarlyHonours, EndCaptureHonours, LastStepsHonour DEF Step
  <2>2. ASSUME NEW x \in Calls \ {r}  PROVE Honours(x)'
    BY <1>1, OthersUntouched, UntouchedHonours DEF HInv
  <2> QED BY <2>1, <2>2 DEF HInv
<1>2. CASE \/ \E r \in Calls : Book(r) \/ DrawBudget(r)
           \/ \E k \in Keys : Settle(k)
           \/ Tick
           \/ UNCHANGED vars
  <2>1. UNCHANGED <<outcome, chargedAt, stage, decision, price>>
    BY <1>2 DEF Book, Contract!Book, DrawBudget, Account!Draw, Settle, Contract!SettleDebit, Tick,
                vars, gateVars, budgetVars, contractVars
  <2> QED BY <2>1, UntouchedHonours DEF HInv
<1> QED BY <1>1, <1>2 DEF Next

\* However requests, budget and ledger interleave, no payer whose debit the server has
\* seen settled, or whose budget was drawn on, is answered with anything but the
\* resource, unless the receipt raises.
THEOREM PaidAreHonoured == Spec => []PaidIsHonoured
<1>1. IInv /\ HInv => PaidIsHonoured
  BY DEF IInv, BudgetIsAsked, HInv, Honours, PaidIsHonoured
<1> QED BY <1>1, HonourInit, HonourNextKeeps, Invariance, PTL DEF Spec
=============================================================================
