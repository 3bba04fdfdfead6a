---------------------------- MODULE MerchantApi ----------------------------
(***************************************************************************)
(* `ApiClient`: pre-authorizations, refunds, revocations and lookups, each *)
(* one request sent through `request_with_retry` until an answer ends it.  *)
(* What tells two attempts of a call from two calls differs: a             *)
(* pre-authorization carries an Idempotency-Key, a refund a Request-ID,    *)
(* and a revocation only the X-Request-Id of the retry layer, which the    *)
(* service may or may not heed.                                            *)
(*                                                                         *)
(* The service is not in the repository: it may act on any attempt, lose   *)
(* its answer, and answer an attempt the client has given up.              *)
(***************************************************************************)
EXTENDS DebitTerms, FiniteSets

CONSTANTS
  Calls,        \* calls of the client's methods
  Methods,      \* the methods each may be a call of
  Inputs,       \* the options they may give
  KeyOf,        \* Idempotency-Key of a pre-authorization: given, or a uuid4
  MaxRetries    \* config.maxRetries of the client each call runs on

Lookups == {"mandate", "order", "balance"}
Operations == {"pre_authorize", "refund", "revoke"} \cup Lookups

ASSUME ApiAssumption ==
  /\ Methods \in [Calls -> SUBSET Operations]
  /\ MaxRetries \in [Calls -> Nat]

VARIABLES
  op,        \* what a call does, once it is made
  pc,        \* where a call is: ready, auth, wait, done
  attempt,   \* request_with_retry's `attempt`
  outcome,   \* how the call ended
  seen,      \* history: what its attempts were answered with
  reply,     \* the answer on its way to the attempt the call waits for
  inflight,  \* attempts the service has not processed yet
  effects    \* attempts that changed something at the service

vars == <<op, pc, attempt, outcome, seen, reply, inflight, effects>>

\* Bodies: one the parser of the operation takes; Garbled, one that is not JSON,
\* or an object no parser takes (`"data": null`); Odd, JSON that is no object.
Good == "GOOD"
Odd == "ODD"
NoReply == [code |-> NoAnswer, body |-> Garbled]
Attempt(c, n) == [call |-> c, attempt |-> n]
Attempts == [call : Calls, attempt : Nat]
EffectsOf(c) == {e \in effects : e.call = c}

\* The lookups differ in what they check and parse, not in what they do.
Effect(method) == IF method \in Lookups THEN "lookup" ELSE method
NoMethod == "none"
Returned == Outcome("result", 200, Good)

Init ==
  /\ op = [c \in Calls |-> NoMethod]
  /\ pc = [c \in Calls |-> "ready"]
  /\ attempt = [c \in Calls |-> 0]
  /\ outcome = [c \in Calls |-> NoOutcome]
  /\ seen = [c \in Calls |-> {}]
  /\ reply = [c \in Calls |-> NoReply]
  /\ inflight = {}
  /\ effects = {}

----------------------------------------------------------------------------
(* Options.  `given` says which of these a call names its subject by: an   *)
(* identifier ("id"), a ten-digit phone number, a number of another length. *)

Supported(method) == method \in {"RESERVE_PAY", "OTM", "CARD", "CREDIT_EMI"}

\* No paymentMethod means the first configured one.
PreAuthorizable(o) ==
  /\ "mobile" \in o.given
  /\ o.amount >= 100 /\ o.currency = "INR"
  /\ o.days > 0
  /\ o.method = "" \/ Supported(o.method)

Refundable(o) == "id" \in o.given /\ o.amount > 0 /\ o.currency # ""

Revocable(o) == Supported(o.method) /\ o.given # {} /\ "short" \notin o.given

BalanceIsSought(o) == Supported(o.method) /\ o.method # "OTM" /\ "mobile" \in o.given

Acceptable(method, o) ==
  CASE method = "pre_authorize" -> PreAuthorizable(o)
    [] method = "refund"        -> Refundable(o)
    [] method = "revoke"        -> Revocable(o)
    [] method = "balance"       -> BalanceIsSought(o)
    [] OTHER                -> "id" \in o.given

----------------------------------------------------------------------------
(* The client. *)

End(c, o) ==
  /\ pc' = [pc EXCEPT ![c] = "done"]
  /\ outcome' = [outcome EXCEPT ![c] = o]

Begin(c) ==
  /\ pc[c] = "ready"
  /\ \E method \in Methods[c], o \in Inputs :
       /\ op' = [op EXCEPT ![c] = Effect(method)]
       /\ IF Acceptable(method, o)
          THEN pc' = [pc EXCEPT ![c] = "auth"] /\ UNCHANGED outcome
          ELSE End(c, Raised)
  /\ UNCHANGED <<attempt, seen, reply, inflight, effects>>

\* get_access_token returns, or raises before anything was sent: the P3PError of
\* the token service's refusal, or a bare exception.
Authorise(c) ==
  /\ pc[c] = "auth"
  /\ \/ /\ pc' = [pc EXCEPT ![c] = "wait"]
        /\ inflight' = inflight \cup {Attempt(c, 0)}
        /\ UNCHANGED outcome
     \/ \E o \in {Raised, Refused(401)} :
          End(c, o) /\ UNCHANGED inflight
  /\ UNCHANGED <<op, attempt, seen, reply, effects>>

\* `range(effective_max + 1)` read as one attempt more.
MayRetry_OneMore(c) == attempt[c] <= MaxRetries[c]

MayRetry(c) == attempt[c] < MaxRetries[c]

\* `while True` without the count.
CountAttempt_Never(c) == UNCHANGED attempt

CountAttempt(c) == attempt' = [attempt EXCEPT ![c] = @ + 1]

Resend(c) ==
  /\ CountAttempt(c)
  /\ inflight' = inflight \cup {Attempt(c, attempt'[c])}
  /\ UNCHANGED <<pc, outcome>>

\* An answer that cannot be read taken for none.
IsResent_Unreadable(c, r) == (IsRetriableStatus(r.code) \/ r.body = Garbled) /\ MayRetry(c)

IsResent(c, r) == IsRetriableStatus(r.code) /\ MayRetry(c)

\* A success whose body defeats the parser reported as an error of the service.
Conclusion_OddRefused(r) ==
  IF r.code < 400 /\ r.body = Good THEN Returned ELSE Refused(r.code)

\* The status not looked at.
Conclusion_AnyCode(r) == IF r.body = Good THEN Returned ELSE Raised

\* _request: an error is raised with its HTTP status, unless its JSON is not an
\* object, and a success is parsed.
Conclusion(r) ==
  IF r.code >= 400
  THEN IF r.body = Odd THEN Raised ELSE Refused(r.code)
  ELSE IF r.body = Good THEN Returned ELSE Raised

\* A Retry-After that int() cannot hold.
Defeats(c, r) == IsResent(c, r) /\ r.body = Endless

Receive(c) ==
  LET r == reply[c] IN
  /\ pc[c] = "wait" /\ r # NoReply
  /\ \/ Defeats(c, r) /\ End(c, Raised) /\ UNCHANGED <<attempt, inflight>>
     \/ IsResent(c, r) /\ ~Defeats(c, r) /\ Resend(c)
     \/ ~IsResent(c, r) /\ End(c, Conclusion(r)) /\ UNCHANGED <<attempt, inflight>>
  /\ seen' = [seen EXCEPT ![c] = @ \cup {r.code}]
  /\ reply' = [reply EXCEPT ![c] = NoReply]
  /\ UNCHANGED <<op, effects>>

\* A timeout or a network error.
Fault(c) ==
  /\ pc[c] = "wait"
  /\ \/ MayRetry(c) /\ Resend(c)
     \/ ~MayRetry(c) /\ End(c, Raised) /\ UNCHANGED <<attempt, inflight>>
  /\ seen' = [seen EXCEPT ![c] = @ \cup {NoAnswer}]
  /\ reply' = [reply EXCEPT ![c] = NoReply]
  /\ UNCHANGED <<op, effects>>

----------------------------------------------------------------------------
(* The service (external). *)

\* The answer reaches the call only if it still waits for that attempt.
Answer(m, code, body) ==
  reply' = IF pc[m.call] = "wait" /\ attempt[m.call] = m.attempt
           THEN [reply EXCEPT ![m.call] = [code |-> code, body |-> body]]
           ELSE reply

TurnAway(m) ==
  /\ \E code \in {404, 429, 503}, body \in {Good, Garbled, Odd, Endless} :
       Answer(m, code, body)
  /\ UNCHANGED effects

\* Only a pre-authorization says which of the others it repeats.
SameKey(m) ==
  {e \in effects : op[e.call] = "pre_authorize" /\ KeyOf[e.call] = KeyOf[m.call]}

Repeats(m) == op[m.call] = "pre_authorize" /\ SameKey(m) # {}

Act(m) ==
  /\ op[m.call] # "lookup" /\ ~Repeats(m)
  /\ effects' = effects \cup {m}
  /\ \/ \E body \in {Good, Garbled, Odd} : Answer(m, 200, body)
     \/ \E body \in {Garbled, Odd} : Answer(m, 503, body)

\* The first answer given again, or what a lookup found.
Report(m) ==
  /\ op[m.call] = "lookup" \/ Repeats(m)
  /\ \E body \in {Good, Garbled, Odd} : Answer(m, 200, body)
  /\ UNCHANGED effects

Service(m) ==
  /\ inflight' = inflight \ {m}
  /\ TurnAway(m) \/ Act(m) \/ Report(m)
  /\ UNCHANGED <<op, pc, attempt, outcome, seen>>

----------------------------------------------------------------------------

Step(c) == Begin(c) \/ Authorise(c) \/ Receive(c) \/ Fault(c)

Next ==
  \/ \E c \in Calls : Step(c)
  \/ \E m \in inflight : Service(m)

\* As in CaptureClient: every request carries a timeout and every sleep ends.
Fairness == \A c \in Calls : WF_vars(pc[c] # "ready" /\ Step(c))

Spec == Init /\ [][Next]_vars /\ Fairness

----------------------------------------------------------------------------
(* Properties. *)

TypeOK ==
  /\ op \in [Calls -> {NoMethod, "lookup"} \cup Operations]
  /\ pc \in [Calls -> {"ready", "auth", "wait", "done"}]
  /\ attempt \in [Calls -> Nat] /\ \A c \in Calls : attempt[c] <= MaxRetries[c]
  /\ outcome \in [Calls -> {NoOutcome, Returned, Raised} \cup {Refused(e) : e \in ErrorCodes}]
  /\ seen \in [Calls -> SUBSET (Codes \cup {NoAnswer})]
  /\ reply \in [Calls -> [code : Codes \cup {NoAnswer}, body : {Good, Garbled, Odd, Endless}]]
  /\ inflight \subseteq Attempts
  /\ effects \subseteq Attempts

InDoubt(c) == \E code \in seen[c] : code = NoAnswer \/ code >= 500

\* A call takes effect a second time only if one of its attempts had gone
\* unanswered, or been answered 5xx: the retries the code makes on 429, and
\* whatever else it reads, cannot refund or revoke twice.
RepeatIsInDoubt ==
  \A c \in Calls : \A d, e \in EffectsOf(c) : d # e => InDoubt(c)

\* A refusal with an HTTP status means nothing was done, with the same excuse.
RefusalMeansNoEffect ==
  \A c \in Calls : outcome[c].kind = "refused" /\ EffectsOf(c) # {} => InDoubt(c)

\* A result is returned only for something the service did for the call, or for
\* an earlier call with its key.
ResultHasEffect ==
  \A c \in Calls :
    outcome[c] = Returned /\ op[c] # "lookup"
      => EffectsOf(c) # {} \/ (op[c] = "pre_authorize" /\ SameKey(Attempt(c, 0)) # {})

\* What the methods promise as retried requests (RetriedRequest): a call takes
\* effect once, and again or after it has ended only if an attempt went
\* unanswered or was answered 5xx; a refusal hides an effect only then.
Verdict(o) ==
  CASE o.kind = "none"    -> "open"
    [] o.kind = "refused" -> "refused"
    [] o.kind = "raised"  -> "unknown"
    [] OTHER              -> "returned"

AttemptNumbers == UNION {0..MaxRetries[c] : c \in Calls}

Promise == INSTANCE RetriedRequest WITH
  Marks   <- AttemptNumbers,
  verdict <- [c \in Calls |-> Verdict(outcome[c])],
  doubt   <- [c \in Calls |-> InDoubt(c)],
  done    <- [c \in Calls |-> {e.attempt : e \in EffectsOf(c)}]

KeepsPromise == Promise!Spec

\* However the service behaves, a call that began ends.
EveryCallEnds == \A c \in Calls : pc[c] # "ready" ~> pc[c] = "done"
=============================================================================
