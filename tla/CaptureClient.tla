--------------------------- MODULE CaptureClient ---------------------------
(***************************************************************************)
(* `CaptureClient.capture`: one debit, POSTed with an idempotency key      *)
(* through `request_with_retry`, and resolved by polling when Pine Labs    *)
(* answers 202.  Several calls run at once (one per server thread) and may *)
(* share a key, because a merchant chooses it.                             *)
(*                                                                         *)
(* The service is not in the repository: its actions are what the SDK's    *)
(* code and README say of it, at its least helpful.  It may answer late,   *)
(* after the client has given an attempt up, and it may act on a request   *)
(* whose answer the client never sees.                                     *)
(***************************************************************************)
EXTENDS DebitTerms, FiniteSets

CONSTANTS
  Calls,        \* calls of capture()
  Keys,         \* idempotency keys
  KeyOf,        \* the key each call ends up with: idempotencyKey, or the
                \* merchantOrderReference, or a uuid4 of its own
  MaxRetries,   \* config.maxRetries of the client each call runs on; it bounds
                \* retries and polls alike
  NoCall,       \* no owner
  NewDebit      \* the statuses an accepted debit can start with

ASSUME CaptureAssumption ==
  /\ KeyOf \in [Calls -> Keys]
  /\ MaxRetries \in [Calls -> Nat]
  /\ NoCall \notin Calls
  /\ NewDebit \subseteq DebitStatuses \ {"FAILED"}

VARIABLES
  pc,        \* where a call is: ready, auth, post, sleep or oversleep, get, done
  attempt,   \* request_with_retry's `attempt`, of the POST or of a GET
  polls,     \* polls finished
  outcome,   \* how the call ended
  seen,      \* history: what the call's POSTs were answered with
  reply,     \* the answer on its way to the attempt the call waits for
  inflight,  \* POSTs the service has not processed yet
  ledger     \* the service's debits, by key

vars == <<pc, attempt, polls, outcome, seen, reply, inflight, ledger>>
netVars == <<seen, reply, inflight, ledger>>

Locations == {"ready", "auth", "post", "sleep", "oversleep", "get", "done"}
NoReply == [code |-> NoAnswer, status |-> Garbled]
Replies == [code : Codes \cup {NoAnswer},
            status : DebitStatuses \cup {Garbled, Endless, Overlong}]
Post(c, n) == [call |-> c, attempt |-> n]
Posts == [call : Calls, attempt : Nat]

Debits == [status : DebitStatuses, owner : Calls]
Unbooked == [status |-> "NONE", owner |-> NoCall]
Entry(c) == ledger[KeyOf[c]]
Owns(c) == Entry(c).owner = c

Init ==
  /\ pc = [c \in Calls |-> "ready"]
  /\ attempt = [c \in Calls |-> 0]
  /\ polls = [c \in Calls |-> 0]
  /\ outcome = [c \in Calls |-> NoOutcome]
  /\ seen = [c \in Calls |-> {}]
  /\ reply = [c \in Calls |-> NoReply]
  /\ inflight = {}
  /\ ledger = [k \in Keys |-> Unbooked]

----------------------------------------------------------------------------
(* Before the debit is sent. *)

\* What the checks of capture() tell apart in its options.
Options == [method : {"CARD", "CREDIT_EMI", "Crypto"}, amount : {0, 1},
            mobile : BOOLEAN, challenge : BOOLEAN, reference : BOOLEAN]

Acceptable(o) ==
  /\ o.method # "Crypto"
  /\ o.amount > 0
  /\ o.mobile
  /\ o.challenge
  /\ o.method = "CREDIT_EMI" => o.reference

End(c, o) ==
  /\ pc' = [pc EXCEPT ![c] = "done"]
  /\ outcome' = [outcome EXCEPT ![c] = o]

\* capture() is called: it raises on bad options, or asks for a bearer token.
Begin(c) ==
  /\ pc[c] = "ready"
  /\ \E o \in Options :
       \/ Acceptable(o) /\ pc' = [pc EXCEPT ![c] = "auth"] /\ UNCHANGED outcome
       \/ ~Acceptable(o) /\ End(c, Raised)
  /\ UNCHANGED <<attempt, polls, netVars>>

\* The bearer token is there: the first attempt goes out.
Authorise(c) ==
  /\ pc[c] = "auth"
  /\ pc' = [pc EXCEPT ![c] = "post"]
  /\ attempt' = [attempt EXCEPT ![c] = 0]
  /\ inflight' = inflight \cup {Post(c, 0)}
  /\ UNCHANGED <<polls, outcome, seen, reply, ledger>>

\* get_access_token raises: nothing was sent.
AuthFails(c) ==
  /\ pc[c] = "auth"
  /\ End(c, Raised)
  /\ UNCHANGED <<attempt, polls, netVars>>

----------------------------------------------------------------------------
(* The answer to the POST, or none. *)

\* `range(effective_max + 1)` read as one attempt more.
MayRetry_OneMore(c) == attempt[c] <= MaxRetries[c]

MayRetry(c) == attempt[c] < MaxRetries[c]

\* Sleep and send the next attempt with the same key.  The sleep is time only:
\* the service may take any POST later than it was sent.
Resend(c) ==
  /\ attempt' = [attempt EXCEPT ![c] = @ + 1]
  /\ inflight' = inflight \cup {Post(c, attempt[c] + 1)}
  /\ UNCHANGED <<pc, polls, outcome>>

\* A 202 taken for one more answer to try again on.
IsResent_202(c, r) == (IsRetriableStatus(r.code) \/ r.code = 202) /\ MayRetry(c)

\* The codes request_with_retry sleeps and tries again on.
IsResent(c, r) == IsRetriableStatus(r.code) /\ MayRetry(c)

\* An accepted debit (202) is polled, unless there is no budget for polls, at the
\* interval its Retry-After asks for.
Follow(c, r) ==
  IF MaxRetries[c] = 0
  THEN End(c, PendingResult) /\ UNCHANGED <<attempt, polls>>
  ELSE /\ pc' = [pc EXCEPT ![c] = IF r.status = Overlong THEN "oversleep" ELSE "sleep"]
       /\ attempt' = [attempt EXCEPT ![c] = 0]
       /\ polls' = [polls EXCEPT ![c] = 0]
       /\ UNCHANGED outcome

\* The 422 of a resubmit taken for "already accepted".
Conclusion_DuplicateAccepted(r) ==
  IF r.status = Garbled THEN Raised
  ELSE IF r.code = 422 THEN PendingResult
  ELSE IF r.code >= 400 THEN Refused(r.code) ELSE Result(r.status)

\* An unreadable body reported as a refusal with the answer's code.
Conclusion_GarbledRefused(r) ==
  IF r.code >= 400 \/ r.status = Garbled THEN Refused(r.code) ELSE Result(r.status)

\* What capture() makes of an answer that ends it: an error status is raised
\* with its HTTP status if the body is readable, and a 200 is a result.
Conclusion(r) ==
  IF r.status = Garbled THEN Raised
  ELSE IF r.code >= 400 THEN Refused(r.code) ELSE Result(r.status)

\* A 202 whose body or Retry-After cannot be read, or a retriable answer whose
\* Retry-After cannot, escapes capture() as a bare exception.
Defeats(c, r) ==
  \/ r.code = 202 /\ r.status \in {Garbled, Endless}
  \/ IsResent(c, r) /\ r.status = Endless

Receive(c) ==
  LET r == reply[c] IN
  /\ pc[c] = "post" /\ r # NoReply
  /\ \/ Defeats(c, r) /\ End(c, Raised) /\ UNCHANGED <<attempt, polls, inflight>>
     \/ ~Defeats(c, r) /\ IsResent(c, r) /\ Resend(c)
     \/ ~Defeats(c, r) /\ ~IsResent(c, r) /\ r.code = 202
          /\ Follow(c, r) /\ UNCHANGED inflight
     \/ ~Defeats(c, r) /\ ~IsResent(c, r) /\ r.code # 202
          /\ End(c, Conclusion(r)) /\ UNCHANGED <<attempt, polls, inflight>>
  /\ seen' = [seen EXCEPT ![c] = @ \cup {r.code}]
  /\ reply' = [reply EXCEPT ![c] = NoReply]
  /\ UNCHANGED ledger

\* httpx.TimeoutException or httpx.HTTPError: whatever the service did or will
\* do with the attempt, the client learns nothing from it.
Fault(c) ==
  /\ pc[c] = "post"
  /\ \/ MayRetry(c) /\ Resend(c)
     \/ ~MayRetry(c) /\ End(c, Raised) /\ UNCHANGED <<attempt, polls, inflight>>
  /\ seen' = [seen EXCEPT ![c] = @ \cup {NoAnswer}]
  /\ reply' = [reply EXCEPT ![c] = NoReply]
  /\ UNCHANGED ledger

----------------------------------------------------------------------------
(* _poll_debit_status.  A GET only reads the ledger, and its answer can only *)
(* be overtaken by the debit settling, so request and answer are one step.   *)

\* The sleep is over and a bearer token is there, or it is not.
Poll(c) ==
  /\ pc[c] = "sleep"
  /\ \/ /\ pc' = [pc EXCEPT ![c] = "get"]
        /\ attempt' = [attempt EXCEPT ![c] = 0]
        /\ UNCHANGED outcome
     \/ End(c, PendingResult) /\ UNCHANGED attempt
  /\ UNCHANGED <<polls, netVars>>

\* time.sleep raises on an interval it cannot take, outside the loop's try.
SleepRaises(c) ==
  /\ pc[c] = "oversleep"
  /\ End(c, Raised)
  /\ UNCHANGED <<attempt, polls, netVars>>

\* 429, 5xx, a timeout or a network error on the GET, with attempts left.
PollRetries(c) ==
  /\ pc[c] = "get" /\ MayRetry(c)
  /\ attempt' = [attempt EXCEPT ![c] = @ + 1]
  /\ UNCHANGED <<pc, polls, outcome, netVars>>

\* Any exception of get_debit_status ends the polling: still pending.
PollFails(c) ==
  /\ pc[c] = "get"
  /\ End(c, PendingResult)
  /\ UNCHANGED <<attempt, polls, netVars>>

\* Polling until the debit is terminal, however long that takes.
CountPoll_Never(c) == UNCHANGED polls

CountPoll(c) == polls' = [polls EXCEPT ![c] = @ + 1]

PollsLeft(c) == polls[c] + 1 < MaxRetries[c]

PollReads(c) ==
  LET s == Entry(c).status IN
  /\ pc[c] = "get" /\ Entry(c) # Unbooked
  /\ \/ IsPendingDebitStatus(s) /\ PollsLeft(c)
          /\ pc' = [pc EXCEPT ![c] = "sleep"]
          /\ CountPoll(c)
          /\ UNCHANGED outcome
     \/ IsPendingDebitStatus(s) /\ ~PollsLeft(c)
          /\ End(c, PendingResult) /\ UNCHANGED polls
     \/ ~IsPendingDebitStatus(s) /\ End(c, Result(s)) /\ UNCHANGED polls
  /\ UNCHANGED <<attempt, netVars>>

----------------------------------------------------------------------------
(* The service (external). *)

\* The answer reaches the call only if it still waits for that attempt.
Answer(m, code, status) ==
  reply' = IF pc[m.call] = "post" /\ attempt[m.call] = m.attempt
           THEN [reply EXCEPT ![m.call] = [code |-> code, status |-> status]]
           ELSE reply

\* Turned away before it does anything.  An Overlong wait before the next attempt
\* escapes request_with_retry as an Endless one does, which stands for both.
TurnAway(m) ==
  /\ \E code \in {401, 429, 503}, status \in {"FAILED", Garbled, Endless} :
       Answer(m, code, status)
  /\ UNCHANGED ledger

\* The key is known: a resubmit is rejected with 422.
Duplicate(m) ==
  /\ Entry(m.call) # Unbooked
  /\ Answer(m, 422, "FAILED")
  /\ UNCHANGED ledger

\* The debit is made, or begun.  The answer may be a 5xx all the same.
Accept(m) ==
  /\ Entry(m.call) = Unbooked
  /\ \E s \in NewDebit :
       /\ ledger' = [ledger EXCEPT ![KeyOf[m.call]] = [status |-> s, owner |-> m.call]]
       /\ \/ \E status \in {s, Garbled} : Answer(m, 200, status)
          \/ IsPendingDebitStatus(s) /\ \E status \in {s, Garbled, Endless, Overlong} :
               Answer(m, 202, status)
          \/ \E status \in {"FAILED", Garbled} : Answer(m, 503, status)

\* The debit is made and fails: 422 with the reason, or a 200 that says so.
Decline(m) ==
  /\ Entry(m.call) = Unbooked
  /\ ledger' = [ledger EXCEPT ![KeyOf[m.call]] = [status |-> "FAILED", owner |-> m.call]]
  /\ \E code \in {200, 422} : Answer(m, code, "FAILED")

Service(m) ==
  /\ inflight' = inflight \ {m}
  /\ TurnAway(m) \/ Duplicate(m) \/ Accept(m) \/ Decline(m)
  /\ UNCHANGED <<pc, attempt, polls, outcome, seen>>

Settle(k) ==
  /\ IsPendingDebitStatus(ledger[k].status)
  /\ \E s \in FinalStatuses : ledger' = [ledger EXCEPT ![k].status = s]
  /\ UNCHANGED <<pc, attempt, polls, outcome, seen, reply, inflight>>

----------------------------------------------------------------------------

Step(c) ==
  \/ Begin(c) \/ Authorise(c) \/ AuthFails(c) \/ Receive(c) \/ Fault(c)
  \/ Poll(c) \/ SleepRaises(c) \/ PollRetries(c) \/ PollFails(c) \/ PollReads(c)

Next ==
  \/ \E c \in Calls : Step(c)
  \/ \E m \in inflight : Service(m)
  \/ \E k \in Keys : Settle(k)

(***************************************************************************)
(* A call that has begun takes its next step: every request carries a      *)
(* timeout, so an attempt is answered or faults, and every sleep ends.     *)
(* Nothing is assumed of the service.                                      *)
(***************************************************************************)
Fairness == \A c \in Calls : WF_vars(pc[c] # "ready" /\ Step(c))

Spec == Init /\ [][Next]_vars /\ Fairness

----------------------------------------------------------------------------
(* Properties. *)

Bounded == \A c \in Calls : attempt[c] <= MaxRetries[c] /\ polls[c] <= MaxRetries[c]

TypeOK ==
  /\ pc \in [Calls -> Locations]
  /\ attempt \in [Calls -> Nat] /\ polls \in [Calls -> Nat] /\ Bounded
  /\ outcome \in [Calls -> Outcomes]
  /\ seen \in [Calls -> SUBSET (Codes \cup {NoAnswer})]
  /\ reply \in [Calls -> Replies]
  /\ inflight \subseteq Posts
  /\ ledger \in [Keys -> {Unbooked} \cup Debits]

\* What capture() promises whatever the network does (DebitContract): a call
\* that reports a debit reports its own, with the ledger's status once that is
\* terminal, though attempts may be answered late, never, or after the effect,
\* and another call may hold the key.
Contract == INSTANCE DebitContract

KeepsContract == Contract!Spec

ReportsOwnDebit == \A c \in Calls : Contract!Truthful(c, outcome[c])

\* The debit is POSTed once, so far as the client can know it was accepted:
\* after a 202 no attempt of the call goes out again (capture() lines 106-114).
NoRepostAfter202 ==
  [][\A c \in Calls : 202 \in seen'[c] =>
        \A m \in inflight' \ inflight : m.call # c]_vars

InDoubt(c) == \E code \in seen[c] : code = NoAnswer \/ code >= 500

\* A refusal with an HTTP status means no money moves, unless an earlier
\* attempt of the call went unanswered or was answered 5xx: only then may the
\* call's own debit stand behind the refusal.
RefusalMeansNoDebit ==
  \A c \in Calls :
    outcome[c].kind = "refused" /\ Owns(c) /\ Entry(c).status # "FAILED"
      => InDoubt(c)

\* What capture() promises as a retried request (RetriedRequest): the debit of a
\* call is begun once, and again or after the call has ended only if an attempt
\* went unanswered or was answered 5xx; a refusal hides a live debit only then.
\* A debit that fails is undone.
Live(c) == Owns(c) /\ Entry(c).status # "FAILED"

LiveDebits(c) == IF Live(c) THEN {KeyOf[c]} ELSE {}

Verdict(o) ==
  CASE o.kind = "none"    -> "open"
    [] o.kind = "refused" -> "refused"
    [] o.kind = "raised"  -> "unknown"
    [] OTHER              -> "returned"

Promise == INSTANCE RetriedRequest WITH
  Marks   <- Keys,
  verdict <- [c \in Calls |-> Verdict(outcome[c])],
  doubt   <- [c \in Calls |-> InDoubt(c)],
  done    <- [c \in Calls |-> LiveDebits(c)]

KeepsPromise == Promise!Spec

\* However the service behaves, a call that began ends.
EveryCallEnds == \A c \in Calls : pc[c] # "ready" ~> pc[c] = "done"

\* capture() lines 106-108: "An in-flight async debit (HTTP 202) must NEVER be
\* re-POSTed with the same idempotency key: Pine rejects the resubmit with 422."
NeverRepostInFlight ==
  [][\A c \in Calls : Owns(c) /\ reply[c].code = 202 =>
        \A m \in inflight' \ inflight : m.call # c]_vars

\* _poll_debit_status lines 133-137: polling "never raises", and a failure of it
\* "lets the caller resolve the pending debit out-of-band", for which the caller is
\* given the debit's key: whoever polls ends with a result or a pending one.
PollingNeverRaises ==
  [][\A c \in Calls : pc[c] \in {"sleep", "oversleep", "get"} => outcome'[c] # Raised]_vars
=============================================================================
