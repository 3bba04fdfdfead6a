--------------------------- MODULE HostedGrantex ---------------------------
(***************************************************************************)
(* `HostedGrantexClient`, behind the instance's six methods: each asks the *)
(* hosted Grantex service one thing through a client of the `grantex`      *)
(* package.  That client is built when it is first needed and then shared  *)
(* by the threads, without a lock.  It, and the service, are not in the    *)
(* repository: it sends a request again when it hears nothing, up to the   *)
(* max_retries it was given; the service may act on any attempt, late too. *)
(*                                                                         *)
(* What can fail does so in two ways for the caller: inside _call_hosted   *)
(* every exception becomes a HostedGrantexError; outside it, the exception *)
(* is raised as it is.                                                     *)
(***************************************************************************)
EXTENDS Integers

CONSTANTS
  Calls,          \* calls of the instance's methods
  Methods,        \* the methods each may be a call of
  MaxRetries,     \* hosted.maxRetries; Unset where it is None
  Budget,         \* what a budget is allocated with
  Amounts,        \* the amounts debited
  NoClient

Unset == -1

Lookups == {"balance", "transactions"}      \* these check no options
Operations == {"authorize", "exchange", "allocate", "debit"} \cup Lookups

ASSUME HostedAssumption ==
  /\ Methods \in [Calls -> SUBSET Operations]
  /\ NoClient \notin Calls
  /\ MaxRetries \in Nat \cup {Unset}
  /\ Budget \in Nat /\ Amounts \subseteq Nat

VARIABLES
  client,      \* self._client, by the call that built it
  built,       \* history: the calls that built a client
  op, amount,  \* what a call asks for
  given,       \* whether it names the grant, or the agent and user, it must name
  pc,          \* ready, getting, building, calling, waiting, done
  attempts,    \* attempts sent for a call
  underway,    \* of these, those the service has not processed
  answer,      \* the answer to the call's request
  outcome,     \* none, raised, hosted_error, result
  told,        \* the number in the result: the budget's remainder
  remaining,   \* the budget at the service
  drawn,       \* how often a call's debit took effect
  most,        \* history: the most the budget held since the call was sent
  late         \* history: calls that began when a client had been built

callVars == <<op, amount, given, pc, outcome, told, late>>
clientVars == <<client, built>>
sentVars == <<attempts, underway, answer>>
serviceVars == <<remaining, drawn, most>>
vars == <<callVars, clientVars, sentVars, serviceVars>>

\* An answer: an object that has the number or has not, or has one that no float
\* can hold, or an error.
Silence == [kind |-> "none", number |-> 0]
Problem == [kind |-> "error", number |-> 0]
Incomplete == [kind |-> "incomplete", number |-> 0]
TooLarge == [kind |-> "too_large", number |-> 0]
Answered(n) == [kind |-> "number", number |-> n]

Init ==
  /\ client = NoClient /\ built = {}
  /\ op = [c \in Calls |-> "none"] /\ amount = [c \in Calls |-> 0]
  /\ given = [c \in Calls |-> TRUE]
  /\ pc = [c \in Calls |-> "ready"]
  /\ attempts = [c \in Calls |-> 0] /\ underway = [c \in Calls |-> 0]
  /\ answer = [c \in Calls |-> Silence]
  /\ outcome = [c \in Calls |-> "none"] /\ told = [c \in Calls |-> 0]
  /\ remaining \in {0, Budget}
  /\ drawn = [c \in Calls |-> 0] /\ most = [c \in Calls |-> 0]
  /\ late = {}

Goto(c, s) ==
  /\ pc' = [pc EXCEPT ![c] = s]
  /\ UNCHANGED <<outcome, told>>

End(c, o, n) ==
  /\ pc' = [pc EXCEPT ![c] = "done"]
  /\ outcome' = [outcome EXCEPT ![c] = o]
  /\ told' = [told EXCEPT ![c] = n]

----------------------------------------------------------------------------
(* The SDK. *)

\* Required options are missing where the method looks at once.
ChecksFirst(method) == method \in {"allocate", "debit"}

\* A method is called, on an instance that was created with grantex.hosted or on
\* one that was not (_require_hosted_grantex); then the options it needs first.
Begin(c) ==
  /\ pc[c] = "ready"
  /\ \E method \in Methods[c], n \in Amounts, hosted \in BOOLEAN, named \in BOOLEAN :
       /\ op' = [op EXCEPT ![c] = method]
       /\ amount' = [amount EXCEPT ![c] = IF method = "debit" THEN n ELSE 0]
       /\ given' = [given EXCEPT ![c] = named \/ method \in Lookups]
       /\ \/ hosted /\ (named \/ ~ChecksFirst(method)) /\ Goto(c, "getting")
          \/ ~hosted /\ End(c, "raised", 0)
          \/ hosted /\ ~named /\ ChecksFirst(method) /\ End(c, "raised", 0)
  /\ late' = IF built # {} THEN late \cup {c} ELSE late
  /\ UNCHANGED <<clientVars, sentVars, serviceVars>>

\* _get_client finds a client, or goes to build one.
GetClient(c) ==
  /\ pc[c] = "getting"
  /\ \/ client # NoClient /\ Goto(c, "calling")
     \/ client = NoClient /\ Goto(c, "building")
  /\ UNCHANGED <<op, amount, given, late, clientVars, sentVars, serviceVars>>

\* The lookups get their client inside _call_hosted, the others before it.
BuildError(method) == IF method \in Lookups THEN "hosted_error" ELSE "raised"

\* The package is missing, its base URL not https, or the factory raises.
BuildFails(c) ==
  /\ pc[c] = "building"
  /\ End(c, BuildError(op[c]), 0)
  /\ UNCHANGED <<op, amount, given, late, clientVars, sentVars, serviceVars>>

\* A client for this call only.
StoreClient_Dropped(c) == UNCHANGED client

StoreClient(c) == client' = c

\* Of two threads that build, the later one's client is kept.
Build(c) ==
  /\ pc[c] = "building"
  /\ StoreClient(c)
  /\ built' = built \cup {c}
  /\ Goto(c, "calling")
  /\ UNCHANGED <<op, amount, given, late, sentVars, serviceVars>>

\* The exception let through, or caught and forgotten.
CallError_Unwrapped == "raised"
CallError_Swallowed == "result"

\* What _call_hosted makes of any exception.
CallError == "hosted_error"

\* The parameters are put together inside _call_hosted, where those that authorize
\* and exchange need are missed, and where the package may have no such class.
RefuseParams(c) ==
  /\ pc[c] = "calling" /\ op[c] \notin Lookups
  /\ End(c, CallError, 0)
  /\ UNCHANGED <<op, amount, given, late, clientVars, sentVars, serviceVars>>

Send(c) ==
  /\ pc[c] = "calling" /\ given[c]
  /\ Goto(c, "waiting")
  /\ attempts' = [attempts EXCEPT ![c] = 1] /\ underway' = [underway EXCEPT ![c] = 1]
  /\ most' = [most EXCEPT ![c] = remaining]
  /\ UNCHANGED <<op, amount, given, late, clientVars, answer, remaining, drawn>>

\* A number that is not there is taken for what was allocated.
NumberRead_Allocated(a) == IF a.kind = "number" THEN a.number ELSE Budget

\* A number that is not there marked as such.
NumberRead_Marked(a) == IF a.kind = "number" THEN a.number ELSE -1

\* _number_value: a number that is not there is 0.
NumberRead(a) == IF a.kind = "number" THEN a.number ELSE 0

\* An answer that says it failed is read like one that lacks fields.
IsResult_Anything(a) == a # Silence

IsResult(a) == a.kind \in {"number", "incomplete"}

\* The answer is made a result outside _call_hosted, where float() may raise.
Return(c) ==
  /\ pc[c] = "waiting"
  /\ \/ IsResult(answer[c]) /\ End(c, "result", NumberRead(answer[c]))
     \/ answer[c] = TooLarge /\ End(c, "raised", 0)
     \/ answer[c] = Problem /\ End(c, CallError, 0)
  /\ UNCHANGED <<op, amount, given, late, clientVars, sentVars, serviceVars>>

----------------------------------------------------------------------------
(* The grantex package and the service (external). *)

\* `maxRetries or 3`: a zero is taken for unset.
EffectiveRetries == IF MaxRetries \in {Unset, 0} THEN 3 ELSE MaxRetries

\* A wait that is begun again without an attempt.
SendAgain_Waits(c) == UNCHANGED <<attempts, underway>>

SendAgain(c) ==
  /\ attempts' = [attempts EXCEPT ![c] = @ + 1]
  /\ underway' = [underway EXCEPT ![c] = @ + 1]

\* Nothing was heard in time: another attempt, or a timeout is raised.
Timeout(c) ==
  /\ pc[c] = "waiting" /\ answer[c] = Silence
  /\ \/ /\ attempts[c] <= EffectiveRetries
        /\ SendAgain(c)
        /\ UNCHANGED <<pc, outcome, told>>
     \/ /\ attempts[c] > EffectiveRetries
        /\ End(c, CallError, 0)
        /\ UNCHANGED <<attempts, underway>>
  /\ UNCHANGED <<op, amount, given, late, clientVars, answer, serviceVars>>

Reply(c, answers) ==
  \E a \in answers \cup {Silence} :
    answer' = IF pc[c] = "waiting" /\ answer[c] = Silence THEN [answer EXCEPT ![c] = a] ELSE answer

\* A grant without a budget, or whose budget is used up, is given one.
Allocate(c) ==
  /\ op[c] = "allocate" /\ remaining = 0
  /\ remaining' = Budget
  /\ most' = [d \in Calls |-> IF most[d] < Budget THEN Budget ELSE most[d]]
  /\ Reply(c, {Answered(Budget), Incomplete, TooLarge, Problem})
  /\ UNCHANGED drawn

Debit(c) ==
  /\ op[c] = "debit" /\ remaining >= amount[c]
  /\ remaining' = remaining - amount[c]
  /\ drawn' = [drawn EXCEPT ![c] = @ + 1]
  /\ Reply(c, {Answered(remaining'), Incomplete, TooLarge, Problem})
  /\ UNCHANGED most

Look(c) ==
  /\ \/ op[c] = "balance" /\ Reply(c, {Answered(remaining), Incomplete, TooLarge})
     \/ op[c] = "transactions" /\ Reply(c, {Incomplete, TooLarge})
     \/ op[c] \in {"authorize", "exchange"} /\ Reply(c, {Incomplete})
  /\ UNCHANGED serviceVars

Refuse(c) == Reply(c, {Problem}) /\ UNCHANGED serviceVars

Serve(c) ==
  /\ underway[c] > 0
  /\ underway' = [underway EXCEPT ![c] = @ - 1]
  /\ Allocate(c) \/ Debit(c) \/ Look(c) \/ Refuse(c)
  /\ UNCHANGED <<callVars, clientVars, attempts>>

----------------------------------------------------------------------------

Step(c) ==
  \/ GetClient(c) \/ BuildFails(c) \/ Build(c) \/ RefuseParams(c) \/ Send(c)
  \/ Return(c) \/ Timeout(c)

Next == \E c \in Calls : Begin(c) \/ Step(c) \/ Serve(c)

\* A thread goes on, and every attempt has a timeout (hosted.timeoutMs or 30 s).
Fairness == \A c \in Calls : WF_vars(Step(c))

Spec == Init /\ [][Next]_vars /\ Fairness

----------------------------------------------------------------------------
(* Properties. *)

TypeOK ==
  /\ client \in Calls \cup {NoClient} /\ built \subseteq Calls /\ late \subseteq Calls
  /\ op \in [Calls -> Operations \cup {"none"}] /\ amount \in [Calls -> Amounts \cup {0}]
  /\ given \in [Calls -> BOOLEAN]
  /\ pc \in [Calls -> {"ready", "getting", "building", "calling", "waiting", "done"}]
  /\ attempts \in [Calls -> 0..(EffectiveRetries + 1)]
  /\ underway \in [Calls -> 0..(EffectiveRetries + 1)]
  /\ answer \in [Calls -> [kind : {"none", "error", "incomplete", "too_large", "number"}, number : 0..Budget]]
  /\ outcome \in [Calls -> {"none", "raised", "hosted_error", "result"}]
  /\ told \in [Calls -> 0..Budget]
  /\ remaining \in 0..Budget /\ most \in [Calls -> 0..Budget]
  /\ drawn \in [Calls -> 0..(EffectiveRetries + 1)]

\* An exception that is not a HostedGrantexError means that nothing was sent, unless
\* the service answered with a number that no float can hold: a caller that catches
\* the one and not the other misses no debit it was not told of.
RaisedMeansUnsent ==
  \A c \in Calls : outcome[c] = "raised" => attempts[c] = 0 \/ answer[c] = TooLarge

\* No result promises more than the budget held at some time since the call was
\* sent, though answers come late, get lost, or lack the number.
ResultsDoNotFlatter == \A c \in Calls : told[c] <= most[c]

\* Only calls that began before there was a client build one: the race of the
\* first calls is all that can waste connections.
ClientIsShared == built \cap late = {}

\* What the debits promise their callers (BudgetContract): however often one is sent
\* and answered, it is drawn for the amount asked, never more often than it was sent,
\* never for more than is left, and a caller told that it failed may have been drawn
\* on; PaymentGate builds on it.
PriceView == [c \in Calls |-> IF op[c] = "debit" /\ attempts[c] > 0 THEN amount[c] ELSE -1]
ToldView ==
  [c \in Calls |-> IF op[c] # "debit" \/ outcome[c] = "none" THEN "open"
                   ELSE IF outcome[c] = "result" THEN "returned" ELSE "failed"]

Account == INSTANCE BudgetContract WITH
  Tries <- EffectiveRetries + 1, price <- PriceView, told <- ToldView

KeepsBudgetContract == Account!Spec

\* Every call that was made ends.
EveryCallEnds == \A c \in Calls : pc[c] # "ready" ~> pc[c] = "done"
=============================================================================
