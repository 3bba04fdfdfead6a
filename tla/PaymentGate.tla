---------------------------- MODULE PaymentGate ----------------------------
(***************************************************************************)
(* `decide_payment` and the adapters' use of it: what a server does with a *)
(* request for a paid resource.  It composes the pure decisions (Grantex,  *)
(* Challenge) with the capture, which is here what DebitContract promises  *)
(* of it, and with the hosted Grantex budget, which may fail.              *)
(*                                                                         *)
(* A request runs on one thread; the steps where it waits for somebody     *)
(* else end a stage, and other requests run between them.  A payer that is *)
(* turned away asks again, for the same route or another: an element of    *)
(* Calls stands for all its requests up to the one that is captured.       *)
(* Nothing is kept from one request to the next but what the payer, Pine   *)
(* Labs and Grantex hold.                                                  *)
(***************************************************************************)
EXTENDS DebitTerms, Challenge, Grantex

CONSTANTS
  Calls,         \* payers' requests; each makes at most one call of capture()
  Keys, KeyOf,   \* idempotency keys: charge_options.merchantOrderReference,
                 \* or a uuid4 for each request
  NoCall,
  Routes,        \* what a request may be decided with: the config the route is
                 \* given and the ChargeOptions (amount, resource, expiry), which
                 \* a resolver may compute afresh for each request
  Grants,        \* grant headers a request may carry
  Methods,       \* payment methods a client may select
  Foreign,       \* a challenge that another server issued
  NoRequest,
  Budget,        \* what the grant's hosted budget starts with
  BudgetTries,   \* how often the grantex package sends a budget debit at most
  MaxTime        \* bound: the clock stops here

ASSUME GateAssumption ==
  /\ KeyOf \in [Calls -> Keys]
  /\ NoCall \notin Calls
  /\ \A rt \in Routes : rt.charge.amount \in Nat /\ ~Genuine(rt.config, Foreign)
  /\ MaxTime \in Nat /\ Budget \in Nat /\ BudgetTries \in Nat

VARIABLES
  now,           \* the clock
  stage,         \* idle, grant, header, capturing, settled, budget, decided
  request,       \* the request in progress; kept once its capture began
  issued,        \* the challenges this server has sent, which clients know
  decision,      \* the action of the PaymentDecision
  chargedAt,     \* history: when the capture began, NotCharged if it has not
  remaining,     \* the hosted budget
  price, drawn, told,
  ledger, outcome

gateVars == <<now, stage, request, issued, decision, chargedAt>>
budgetVars == <<remaining, price, drawn, told>>
contractVars == <<ledger, outcome>>
vars == <<gateVars, budgetVars, contractVars>>

Contract == INSTANCE DebitContract
Account == INSTANCE BudgetContract WITH Tries <- BudgetTries

NotCharged == MaxTime + 1
NoDecision == "none"
Decisions == {NoDecision, "challenge", "invalid", "grant_required", "grant_invalid",
              "failed", "error", "pending", "proceed", "raised"}

\* A header that starts with "Payment ": a credential made from a challenge the
\* client knows, or from one it changed, or a payload that does not decode to a
\* credential (not base64 of JSON, or fields of the wrong JSON type).
NoHeader == [payment |-> FALSE, decodes |-> FALSE, credential |-> <<>>]
Undecodable == [payment |-> TRUE, decodes |-> FALSE, credential |-> <<>>]
Header(challenge, token, method) ==
  [payment |-> TRUE, decodes |-> TRUE,
   credential |-> [challenge |-> challenge, token |-> token, method |-> method]]

Altered(challenge) == [challenge EXCEPT !.expires = MaxTime + 1]

Headers ==
  {NoHeader, Undecodable}
    \cup {Header(ch, "TOKEN", m) : ch \in issued, m \in Methods}
    \cup UNION {{Header(Foreign, "TOKEN", m), Header(Altered(ch), "TOKEN", m),
                 Header(ch, NoField, m)} : ch \in issued, m \in Foreign.request.methods}

\* What decide_payment is called with; the grant header is not read unless
\* Grantex is configured.
Requests ==
  UNION {[route : {rt}, header : Headers,
          grant : IF rt.config.grantex = "none" THEN {NoGrant} ELSE Grants] : rt \in Routes}

Init ==
  /\ now = 0
  /\ stage = [r \in Calls |-> "idle"]
  /\ request = [r \in Calls |-> NoRequest]
  /\ issued = {}
  /\ decision = [r \in Calls |-> NoDecision]
  /\ chargedAt = [r \in Calls |-> NotCharged]
  /\ remaining = Budget /\ Account!Init
  /\ Contract!Init

Config(r) == request[r].route.config
Charge(r) == request[r].route.charge
Grant(r) == request[r].grant
Shown(r) == request[r].header
Quote(r) == Shown(r).credential.challenge

Decide(r, d) ==
  /\ stage' = [stage EXCEPT ![r] = "decided"]
  /\ decision' = [decision EXCEPT ![r] = d]

\* A decision before any capture: the payer is told, and the request is over.
TurnAway(r, d) == Decide(r, d) /\ request' = [request EXCEPT ![r] = NoRequest]

Goto(r, s) ==
  /\ stage' = [stage EXCEPT ![r] = s]
  /\ UNCHANGED decision

GoOn(r, s) == Goto(r, s) /\ UNCHANGED request

\* A fresh challenge with the decision d, or the error of generate().
SendChallenge(r, d) ==
  \/ /\ IsPayable(Charge(r))
     /\ issued' = issued \cup {Generate(Config(r), Charge(r), now)}
     /\ TurnAway(r, d)
  \/ ~IsPayable(Charge(r)) /\ TurnAway(r, "raised") /\ UNCHANGED issued

----------------------------------------------------------------------------
(* decide_payment. *)

\* A request arrives: the payer's first, or one after it was turned away.
Arrive(r) ==
  /\ stage[r] \in {"idle", "decided"} /\ chargedAt[r] = NotCharged
  /\ \E q \in Requests : request' = [request EXCEPT ![r] = q]
  /\ stage' = [stage EXCEPT ![r] = "grant"]
  /\ decision' = [decision EXCEPT ![r] = NoDecision]
  /\ UNCHANGED <<now, issued, chargedAt, budgetVars, contractVars>>

\* No grant was sent: only enforcement minds.
MissGrant(r) ==
  /\ stage[r] = "grant" /\ ~Grant(r).present
  /\ \/ Enforced(Config(r)) /\ TurnAway(r, "grant_required")
     \/ ~Enforced(Config(r)) /\ GoOn(r, "header")
  /\ UNCHANGED <<now, issued, chargedAt, budgetVars, contractVars>>

\* The grant token is verified (a JWKS fetch, or config.verifier) and the cap
\* checked.  A config.verifier that raises is not caught.
CheckGrant(r) ==
  /\ stage[r] = "grant" /\ Grant(r).present
  /\ \/ GrantAllows(Config(r), Grant(r), Charge(r).amount) /\ GoOn(r, "header")
     \/ ~GrantAllows(Config(r), Grant(r), Charge(r).amount) /\ TurnAway(r, "grant_invalid")
     \/ TurnAway(r, "raised")
  /\ UNCHANGED <<now, issued, chargedAt, budgetVars, contractVars>>

\* The look at the hosted budget, where there is one.
BudgetSuffices(r) == UsesBudget(Config(r), Grant(r)) => remaining >= Charge(r).amount

\* It refuses when the budget is short, and also when it cannot be read.
BudgetMayRefuse(r) == UsesBudget(Config(r), Grant(r))

\* No credential: a challenge is sent, unless the budget refuses.
AnswerUnpaid(r) ==
  /\ stage[r] = "header" /\ ~Shown(r).payment
  /\ \/ BudgetSuffices(r) /\ SendChallenge(r, "challenge")
     \/ BudgetMayRefuse(r) /\ TurnAway(r, "grant_invalid") /\ UNCHANGED issued
  /\ UNCHANGED <<now, chargedAt, budgetVars, contractVars>>

Verified(r) == Shown(r).decodes /\ Verify(Config(r), Shown(r).credential, now)

\* A bad credential is answered with a fresh challenge, budget or not.  A field
\* of the wrong type, such as a number for the id, makes verify() itself raise.
RejectCredential(r) ==
  /\ stage[r] = "header" /\ Shown(r).payment /\ ~Verified(r)
  /\ \/ SendChallenge(r, "invalid")
     \/ ~Shown(r).decodes /\ TurnAway(r, "raised") /\ UNCHANGED issued
  /\ UNCHANGED <<now, chargedAt, budgetVars, contractVars>>

AcceptCredential(r) ==
  /\ stage[r] = "header" /\ Shown(r).payment /\ Verified(r)
  /\ chargedAt' = [chargedAt EXCEPT ![r] = now]
  /\ GoOn(r, "capturing")
  /\ UNCHANGED <<now, issued, budgetVars, contractVars>>

\* Only the mark of a 202 looked at, not the status the result carries.
IsPendingCapture_FlagOnly(o) == o.kind = "pending"

\* _is_pending_capture_result
IsPendingCapture(o) ==
  o.kind = "pending" \/ (o.kind = "result" /\ IsPendingDebitStatus(o.status))

Captured(o) == o.kind \in {"pending", "result"}

\* capture() returns or raises.
EndCapture(r) ==
  LET o == outcome'[r] IN
  /\ stage[r] = "capturing"
  /\ Contract!Report(r) /\ o # NoOutcome
  /\ \/ o.kind = "refused" /\ o.code < 500 /\ Decide(r, "failed")
     \/ o.kind = "refused" /\ o.code >= 500 /\ Decide(r, "error")
     \/ o.kind = "raised" /\ Decide(r, "error")
     \/ Captured(o) /\ IsPendingCapture(o) /\ Decide(r, "pending")
     \/ Captured(o) /\ ~IsPendingCapture(o) /\ Goto(r, "settled")
  /\ UNCHANGED <<now, request, issued, chargedAt, budgetVars>>

\* What a budget debit that failed does to the request: nothing, it is logged.
AfterBudgetFailure_Fails(r) == Decide(r, "error")
AfterBudgetFailure_NoReturn(r) ==
  stage' = [stage EXCEPT ![r] = "decided"] /\ UNCHANGED decision
AfterBudgetFailure_Parks(r) == Goto(r, "parked")
AfterBudgetFailure(r) == Decide(r, "proceed")

\* build_receipt_header raises if the capture's amount is not a number.
ReceiptFails(r) == Decide(r, "raised")

\* Debited from a budget that is configured, without a look at the grant.
NeedsBudget_AnyGrant(r) == stage[r] \in {"settled", "budget"} /\ Config(r).budget

NeedsBudget(r) == stage[r] \in {"settled", "budget"} /\ UsesBudget(Config(r), Grant(r))

\* debit_budget sends its request.
AskBudget(r) ==
  /\ stage[r] = "settled" /\ NeedsBudget(r)
  /\ Account!Ask(r, Charge(r).amount)
  /\ Goto(r, "budget")
  /\ UNCHANGED <<now, request, issued, chargedAt, contractVars>>

\* It returns or raises, which it may before anything was sent; then the receipt.
EndBudget(r) ==
  /\ NeedsBudget(r)
  /\ Account!Report(r)
  /\ \/ told'[r] = "returned" /\ Decide(r, "proceed")
     \/ told'[r] = "failed" /\ AfterBudgetFailure(r)
     \/ ReceiptFails(r)
  /\ UNCHANGED <<now, request, issued, chargedAt, contractVars>>

\* No budget is asked for: the receipt follows the capture.
SkipBudget(r) ==
  /\ stage[r] = "settled" /\ ~NeedsBudget(r)
  /\ Decide(r, "proceed") \/ ReceiptFails(r)
  /\ UNCHANGED <<now, request, issued, chargedAt, budgetVars, contractVars>>

----------------------------------------------------------------------------
(* The world. *)

\* Pine Labs books only what a request asked it to; capture() asks for nothing
\* when the amount is not positive.
Book(r) ==
  /\ chargedAt[r] # NotCharged /\ IsPayable(Charge(r))
  /\ Contract!Book(r)
  /\ UNCHANGED <<gateVars, budgetVars>>

Settle(k) ==
  /\ Contract!SettleDebit(k)
  /\ UNCHANGED <<gateVars, budgetVars>>

\* Grantex draws on the budget, also for a request whose debit_budget has given up.
DrawBudget(r) ==
  /\ Account!Draw(r)
  /\ UNCHANGED <<gateVars, contractVars>>

Tick ==
  /\ now < MaxTime
  /\ now' = now + 1
  /\ UNCHANGED <<stage, request, issued, decision, chargedAt, budgetVars, contractVars>>

----------------------------------------------------------------------------

Step(r) ==
  \/ MissGrant(r) \/ CheckGrant(r) \/ AnswerUnpaid(r) \/ RejectCredential(r) \/ AcceptCredential(r)
  \/ EndCapture(r) \/ AskBudget(r) \/ EndBudget(r) \/ SkipBudget(r)

Next ==
  \/ \E r \in Calls : Arrive(r) \/ Step(r) \/ Book(r) \/ DrawBudget(r)
  \/ \E k \in Keys : Settle(k)
  \/ Tick

(***************************************************************************)
(* A thread in decide_payment goes on: a capture ends (EveryCallEnds of    *)
(* CaptureClient), and the calls to Grantex have timeouts of their own.    *)
(***************************************************************************)
Fairness == \A r \in Calls : WF_vars(Step(r))

Spec == Init /\ [][Next]_vars /\ Fairness

----------------------------------------------------------------------------
(* Properties. *)

Owns(r) == Contract!Entry(r).owner = r
Status(r) == Contract!Entry(r).status

TypeOK ==
  /\ now \in 0..MaxTime
  /\ stage \in [Calls -> {"idle", "grant", "header", "capturing", "settled", "budget",
                      "decided"}]
  /\ decision \in [Calls -> Decisions]
  /\ \A r \in Calls : stage[r] = "decided" <=> decision[r] # NoDecision
  /\ \A r \in Calls : request[r] # NoRequest =>
       request[r].route \in Routes /\ request[r].grant \in Grants \cup {NoGrant}
  /\ chargedAt \in [Calls -> 0..NotCharged]
  /\ remaining \in 0..Budget
  /\ price \in [Calls -> Nat \cup {Account!NotAsked}] /\ drawn \in [Calls -> 0..BudgetTries]
  /\ told \in [Calls -> {"open", "returned", "failed"}]
  /\ outcome \in [Calls -> Outcomes]
  /\ ledger \in [Keys -> [status : DebitStatuses \cup {"NONE"}, owner : Calls \cup {NoCall}]]

\* A debit stands only for a request that answered a challenge of this server,
\* unchanged and before it expired, and that brought the grant its route demands,
\* of at least the amount debited.
DebitIsConsented ==
  \A r \in Calls : Owns(r) =>
    /\ Quote(r) \in issued
    /\ chargedAt[r] < Quote(r).expires
    /\ Enforced(Config(r)) =>
         GrantIsValid(Config(r), Grant(r)) /\ WithinCap(Grant(r), Charge(r).amount)

\* The budget of a grant is drawn on only for a request that brought that grant,
\* valid and of a sufficient cap, for the amount debited and when the debit has
\* settled: also by a draw that comes after the payer was answered.
DrawIsGranted ==
  \A r \in Calls : drawn[r] > 0 =>
    /\ UsesBudget(Config(r), Grant(r)) /\ WithinCap(Grant(r), price[r])
    /\ price[r] = Charge(r).amount
    /\ Owns(r) /\ ~IsPendingDebitStatus(Status(r))

\* What the gate promises each request (PaidAccess): Pine Labs may report a debit
\* pending, or hold it for another call's key, and answers may be late, but no
\* resource is served and no budget drawn on before the request's own debit has
\* settled.
DebitView ==
  [r \in Calls |-> IF ~Owns(r) THEN "none"
                   ELSE IF IsPendingDebitStatus(Status(r)) THEN "pending" ELSE "settled"]
AccessView ==
  [r \in Calls |-> IF decision[r] = "proceed" THEN "open"
                   ELSE IF chargedAt[r] # NotCharged THEN "asked" ELSE "closed"]

Gate == INSTANCE PaidAccess WITH
  Requests <- Calls, debit <- DebitView, access <- AccessView,
  drawn <- {r \in Calls : drawn[r] > 0}

GivesPaidAccess == Gate!Spec

\* capture() returned a debit that has settled.
SawSettled(r) == Captured(outcome[r]) /\ ~IsPendingCapture(outcome[r])

\* No payer is turned away, told to wait or asked to pay again once the server has
\* seen the debit settled, or once the budget was drawn on, be it late: the decision is
\* to serve, or the receipt raised.
PaidIsHonoured ==
  \A r \in Calls : stage[r] = "decided" /\ (SawSettled(r) \/ drawn[r] > 0) =>
    decision[r] \in {"proceed", "raised"}

\* A request whose debit settled is never turned away with an answer, whatever
\* becomes of its budget debit: it is served, unless the receipt raises.
SettledIsServed ==
  \A r \in Calls : stage[r] = "settled" ~> decision[r] \in {"proceed", "raised"}

\* Every request is answered.
EveryRequestIsDecided == \A r \in Calls : stage[r] = "grant" ~> stage[r] = "decided"

\* challenge_generator.py line 69: "This resource requires payment of {amount}",
\* the amount of the challenge the payer then answered.
QuotedIsCharged == \A r \in Calls : Owns(r) => Quote(r).request.amount = Major(Charge(r).amount)

\* generic.py lines 4-6 and receipt_builder.py line 20: the handler proceeds
\* "after capturing the payment", with a receipt "from a successful capture".
ServedIsPaid == \A r \in Calls : decision[r] = "proceed" => Owns(r) /\ Status(r) = "PROCESSED"
=============================================================================
