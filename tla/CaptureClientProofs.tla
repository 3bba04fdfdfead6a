------------------------ MODULE CaptureClientProofs ------------------------
(***************************************************************************)
(* Proofs about CaptureClient, for any calls, keys and maxRetries.         *)
(***************************************************************************)
EXTENDS CaptureClient, TLAPS

(***************************************************************************)
(* The inductive invariant, in named parts.                                *)
(***************************************************************************)

\* A call that has not ended has said nothing.
Undecided == \A c \in Calls : pc[c] # "done" => outcome[c] = NoOutcome

\* A call that has sent nothing has no debit, no answer and no request.
Unsent ==
  \A c \in Calls : pc[c] \in {"ready", "auth"} =>
    seen[c] = {} /\ ~Owns(c) /\ \A m \in inflight : m.call # c

\* An answer is on its way only to the attempt the call waits for, and that
\* attempt is then no longer on its way to the service.
ReplyIsAwaited ==
  \A c \in Calls : reply[c] # NoReply =>
    /\ pc[c] = "post"
    /\ Post(c, attempt[c]) \notin inflight
    /\ reply[c].code # NoAnswer

\* A success answer speaks of the call's own debit.
ReplyIsTrue ==
  \A c \in Calls :
    /\ reply[c].code \in {200, 202} => Owns(c)
    /\ reply[c].code = 200 => reply[c].status \in DebitStatuses \cup {Garbled}
    /\ reply[c].code = 200 /\ reply[c].status \in FinalStatuses
         => Entry(c).status = reply[c].status

\* Only a call whose debit was accepted polls, and a call that saw the 202
\* is past sending.
Followed ==
  \A c \in Calls :
    /\ pc[c] \in {"sleep", "oversleep", "get"} => Owns(c)
    /\ 202 \in seen[c] => pc[c] \in {"sleep", "oversleep", "get", "done"}

\* The polls a call that still polls has behind it leave room for this one.
PollsBounded == \A c \in Calls : pc[c] \in {"sleep", "oversleep", "get"} => polls[c] < MaxRetries[c]

\* A POST the client gave up went unanswered.
LateIsUnanswered ==
  \A m \in inflight :
    \/ NoAnswer \in seen[m.call]
    \/ pc[m.call] = "post" /\ m.attempt = attempt[m.call]

\* Where the client's knowledge of its own live debit can be.
Known(c) ==
  \/ InDoubt(c)
  \/ pc[c] \in {"sleep", "oversleep", "get"}
  \/ outcome[c].kind \in {"result", "pending", "raised"}
  \/ pc[c] = "post" /\ (reply[c].code \in {200, 202} \/ reply[c].code >= 500)

LiveDebitIsKnown == \A c \in Calls : Live(c) => Known(c)

IInv ==
  /\ TypeOK
  /\ Undecided
  /\ Unsent
  /\ ReplyIsAwaited
  /\ ReplyIsTrue
  /\ Followed
  /\ PollsBounded
  /\ LateIsUnanswered
  /\ LiveDebitIsKnown
  /\ ReportsOwnDebit

----------------------------------------------------------------------------

\* No call has begun: the invariant holds at the start.
LEMMA InitInvariant == Init => IInv
  BY CaptureAssumption
  DEF Init, IInv, TypeOK, Bounded, Undecided, Unsent, ReplyIsAwaited, ReplyIsTrue, Followed,
      PollsBounded, LateIsUnanswered, LiveDebitIsKnown, Live, Known, ReportsOwnDebit,
      Contract!Truthful, Locations, NoReply, Replies, Unbooked, Entry, Owns,
       DebitStatuses, FinalStatuses,
      Codes, NoAnswer, Garbled, Endless, Overlong, Outcome, NoOutcome, Outcomes

\* The outcomes the client gives, and their kinds.
LEMMA OutcomeKinds ==
  /\ NoOutcome \in Outcomes /\ NoOutcome.kind = "none"
  /\ Raised \in Outcomes /\ Raised.kind = "raised"
  /\ PendingResult \in Outcomes /\ PendingResult.kind = "pending"
  /\ \A s \in DebitStatuses :
       Result(s) \in Outcomes /\ Result(s).kind = "result" /\ Result(s).status = s
  /\ \A code \in ErrorCodes : Refused(code) \in Outcomes /\ Refused(code).kind = "refused"
<1>1. \A s \in DebitStatuses :
         Result(s) \in Outcomes /\ Result(s).kind = "result" /\ Result(s).status = s
  <2> TAKE s \in DebitStatuses
  <2>1. Result(s) \in {Result(t) : t \in DebitStatuses}
    OBVIOUS
  <2> QED BY <2>1 DEF Outcomes, Result, Outcome
<1>2. \A code \in ErrorCodes : Refused(code) \in Outcomes /\ Refused(code).kind = "refused"
  <2> TAKE code \in ErrorCodes
  <2>1. Refused(code) \in {Refused(n) : n \in ErrorCodes}
    OBVIOUS
  <2> QED BY <2>1 DEF Outcomes, Refused, Outcome
<1>3. /\ NoOutcome \in Outcomes /\ NoOutcome.kind = "none"
      /\ Raised \in Outcomes /\ Raised.kind = "raised"
      /\ PendingResult \in Outcomes /\ PendingResult.kind = "pending"
  BY DEF Outcomes, NoOutcome, Raised, PendingResult, Outcome
<1> QED BY <1>1, <1>2, <1>3

\* A call that ends without touching the network, with an outcome it may give.
LEMMA EndKeeps ==
  ASSUME IInv, NEW c \in Calls, NEW o \in Outcomes, End(c, o),
         pc[c] # "post", UNCHANGED <<attempt, polls, netVars>>,
         o.kind \in {"result", "pending", "raised"},
         Contract!Truthful(c, o)
  PROVE  IInv'
<1> USE DEF End, netVars, IInv
<1>1. TypeOK'
  BY DEF Bounded, TypeOK, Locations
<1>2. Undecided' /\ Unsent' /\ ReplyIsAwaited' /\ Followed' /\ PollsBounded'
  BY DEF TypeOK, Undecided, Unsent, ReplyIsAwaited, Followed, PollsBounded, Owns, Entry
<1>3. ReplyIsTrue' /\ LateIsUnanswered'
  BY DEF TypeOK, ReplyIsTrue, LateIsUnanswered, Owns, Entry
<1>4. LiveDebitIsKnown'
  BY DEF TypeOK, LiveDebitIsKnown, Live, Known, Owns, Entry, InDoubt
<1>5. ReportsOwnDebit'
  BY DEF TypeOK, ReportsOwnDebit, Contract!Truthful, Contract!Entry
<1> QED BY <1>1, <1>2, <1>3, <1>4, <1>5

\* capture() is called: nothing is sent yet.
LEMMA BeginKeeps ==
  ASSUME IInv, NEW c \in Calls, Begin(c)
  PROVE  IInv'
<1>1. CASE pc' = [pc EXCEPT ![c] = "auth"] /\ UNCHANGED outcome
  <2> USE <1>1 DEF Begin, netVars, IInv
  <2>1. TypeOK' /\ Undecided' /\ Unsent' /\ ReplyIsAwaited'
    BY DEF Bounded, TypeOK, Locations, Undecided, Unsent, ReplyIsAwaited, Owns, Entry
  <2>2. ReplyIsTrue' /\ Followed' /\ PollsBounded'
    BY DEF TypeOK, ReplyIsTrue, Followed, PollsBounded, Owns, Entry
  <2>3. LateIsUnanswered' /\ LiveDebitIsKnown' /\ ReportsOwnDebit'
    BY DEF TypeOK, LateIsUnanswered, LiveDebitIsKnown, Live, Known, ReportsOwnDebit, Owns,
           Entry, InDoubt, Contract!Truthful, Contract!Entry
  <2> QED BY <2>1, <2>2, <2>3
<1>2. CASE End(c, Raised)
  BY <1>2, OutcomeKinds, EndKeeps DEF Begin, Contract!Truthful
<1> QED BY <1>1, <1>2 DEF Begin

\* The first attempt goes out.
LEMMA AuthoriseKeeps ==
  ASSUME IInv, NEW c \in Calls, Authorise(c)
  PROVE  IInv'
<1> USE CaptureAssumption DEF Authorise, IInv
<1>b. Bounded'
  <2>1. MaxRetries[c] \in Nat
    OBVIOUS
  <2>2. attempt'[c] <= MaxRetries[c] /\ polls'[c] <= MaxRetries[c]
    BY <2>1 DEF TypeOK, Bounded, PollsBounded
  <2>3. \A d \in Calls \ {c} : attempt'[d] = attempt[d] /\ polls'[d] = polls[d]
    BY DEF TypeOK
  <2> QED BY <2>2, <2>3 DEF TypeOK, Bounded
<1>1. TypeOK'
  BY <1>b DEF TypeOK, Locations, Post, Posts
<1>2. Undecided' /\ Unsent' /\ ReplyIsTrue' /\ Followed' /\ PollsBounded'
  BY DEF TypeOK, Undecided, Unsent, ReplyIsTrue, Followed, PollsBounded, Owns, Entry, Post
<1>3. ReplyIsAwaited'
  BY DEF TypeOK, ReplyIsAwaited, Post, Posts
<1>4. LateIsUnanswered'
  BY DEF TypeOK, LateIsUnanswered, Unsent, Post
<1>5. LiveDebitIsKnown' /\ ReportsOwnDebit'
  BY DEF TypeOK, LiveDebitIsKnown, Live, Known, Unsent, ReportsOwnDebit, Owns,
           Entry, InDoubt, Contract!Truthful, Contract!Entry
<1> QED BY <1>1, <1>2, <1>3, <1>4, <1>5

\* No bearer token: the call ends and has sent nothing.
LEMMA AuthFailsKeeps ==
  ASSUME IInv, NEW c \in Calls, AuthFails(c)
  PROVE  IInv'
  BY OutcomeKinds, EndKeeps DEF AuthFails, Contract!Truthful

\* A sleep between polls ends.
LEMMA PollKeeps ==
  ASSUME IInv, NEW c \in Calls, Poll(c)
  PROVE  IInv'
<1>1. CASE End(c, PendingResult) /\ UNCHANGED attempt
  BY <1>1, OutcomeKinds, EndKeeps
  DEF Poll, IInv, Followed, Owns, Entry, Contract!Truthful, Contract!Entry
<1>2. CASE pc' = [pc EXCEPT ![c] = "get"] /\ attempt' = [attempt EXCEPT ![c] = 0]
           /\ UNCHANGED outcome
  <2> USE <1>2, CaptureAssumption DEF Poll, netVars, IInv
  <2>b. Bounded'
    <3>1. MaxRetries[c] \in Nat
      OBVIOUS
    <3>2. attempt'[c] <= MaxRetries[c] /\ polls'[c] <= MaxRetries[c]
      BY <3>1 DEF TypeOK, Bounded, PollsBounded
    <3>3. \A d \in Calls \ {c} : attempt'[d] = attempt[d] /\ polls'[d] = polls[d]
      BY DEF TypeOK
    <3> QED BY <3>2, <3>3 DEF TypeOK, Bounded
  <2>1. TypeOK' /\ Undecided' /\ Unsent' /\ ReplyIsAwaited'
    BY <2>b DEF TypeOK, Locations, Undecided, Unsent, ReplyIsAwaited, Owns, Entry
  <2>2. ReplyIsTrue' /\ Followed' /\ PollsBounded'
    BY DEF TypeOK, ReplyIsTrue, Followed, PollsBounded, Owns, Entry
  <2>3. LateIsUnanswered' /\ LiveDebitIsKnown' /\ ReportsOwnDebit'
    BY DEF TypeOK, LateIsUnanswered, LiveDebitIsKnown, Live, Known, ReportsOwnDebit, Owns,
           Entry, InDoubt, Contract!Truthful, Contract!Entry
  <2> QED BY <2>1, <2>2, <2>3
<1> QED BY <1>1, <1>2 DEF Poll

\* The interval between polls is one that time.sleep does not take.
LEMMA SleepRaisesKeeps ==
  ASSUME IInv, NEW c \in Calls, SleepRaises(c)
  PROVE  IInv'
  BY OutcomeKinds, EndKeeps DEF SleepRaises, Contract!Truthful

\* A GET is tried again; the ledger and the POSTs are left alone.
LEMMA PollRetriesKeeps ==
  ASSUME IInv, NEW c \in Calls, PollRetries(c)
  PROVE  IInv'
<1> USE CaptureAssumption DEF PollRetries, MayRetry, netVars, IInv
<1>b. Bounded'
  <2>1. MaxRetries[c] \in Nat
    OBVIOUS
  <2>2. attempt'[c] <= MaxRetries[c] /\ polls'[c] <= MaxRetries[c]
    BY <2>1 DEF TypeOK, Bounded, PollsBounded
  <2>3. \A d \in Calls \ {c} : attempt'[d] = attempt[d] /\ polls'[d] = polls[d]
    BY DEF TypeOK
  <2> QED BY <2>2, <2>3 DEF TypeOK, Bounded
<1>1. TypeOK' /\ Undecided' /\ Unsent' /\ ReplyIsAwaited'
  BY <1>b DEF TypeOK, Undecided, Unsent, ReplyIsAwaited, Owns, Entry
<1>2. ReplyIsTrue' /\ Followed' /\ PollsBounded'
  BY DEF TypeOK, ReplyIsTrue, Followed, PollsBounded, Owns, Entry
<1>3. LateIsUnanswered' /\ LiveDebitIsKnown' /\ ReportsOwnDebit'
  BY DEF TypeOK, LateIsUnanswered, LiveDebitIsKnown, Live, Known, ReportsOwnDebit, Owns,
           Entry, InDoubt, Contract!Truthful, Contract!Entry
<1> QED BY <1>1, <1>2, <1>3

\* Polling is given up: the debit is reported pending, and is the call's own.
LEMMA PollFailsKeeps ==
  ASSUME IInv, NEW c \in Calls, PollFails(c)
  PROVE  IInv'
  BY OutcomeKinds, EndKeeps
  DEF PollFails, IInv, Followed, Owns, Entry, Contract!Truthful, Contract!Entry

\* A GET reads the call's own debit, since only its 202 led to polling.
LEMMA PollReadsKeeps ==
  ASSUME IInv, NEW c \in Calls, PollReads(c)
  PROVE  IInv'
<1> DEFINE s == Entry(c).status
<1>1. CASE End(c, PendingResult) /\ UNCHANGED polls
  BY <1>1, OutcomeKinds, EndKeeps
  DEF PollReads, IInv, Followed, Owns, Entry, Contract!Truthful, Contract!Entry
<1>2. CASE ~IsPendingDebitStatus(s) /\ End(c, Result(s)) /\ UNCHANGED polls
  <2>1. s \in DebitStatuses
    BY CaptureAssumption DEF PollReads, IInv, TypeOK, Followed, Owns, Entry, Debits
  <2>2. Owns(c)
    BY DEF PollReads, IInv, Followed
  <2>3. Contract!Truthful(c, Result(s))
    BY <2>1, <2>2, OutcomeKinds DEF Contract!Truthful, Contract!Entry, Owns, Entry
  <2> QED BY <1>2, <2>1, <2>3, OutcomeKinds, EndKeeps DEF PollReads
<1>3. CASE PollsLeft(c) /\ pc' = [pc EXCEPT ![c] = "sleep"]
           /\ polls' = [polls EXCEPT ![c] = @ + 1] /\ UNCHANGED outcome
  <2> USE <1>3, CaptureAssumption DEF PollReads, PollsLeft, CountPoll, netVars, IInv
  <2>b. Bounded'
    <3>1. MaxRetries[c] \in Nat
      OBVIOUS
    <3>2. attempt'[c] <= MaxRetries[c] /\ polls'[c] <= MaxRetries[c]
      BY <3>1 DEF TypeOK, Bounded, PollsBounded
    <3>3. \A d \in Calls \ {c} : attempt'[d] = attempt[d] /\ polls'[d] = polls[d]
      BY DEF TypeOK
    <3> QED BY <3>2, <3>3 DEF TypeOK, Bounded
  <2>1. TypeOK' /\ Undecided' /\ Unsent' /\ ReplyIsAwaited'
    BY <2>b DEF TypeOK, Locations, Undecided, Unsent, ReplyIsAwaited, Owns, Entry
  <2>2. ReplyIsTrue' /\ Followed' /\ PollsBounded'
    BY DEF TypeOK, ReplyIsTrue, Followed, PollsBounded, Owns, Entry
  <2>3. LateIsUnanswered' /\ LiveDebitIsKnown' /\ ReportsOwnDebit'
    BY DEF TypeOK, LateIsUnanswered, LiveDebitIsKnown, Live, Known, ReportsOwnDebit, Owns,
           Entry, InDoubt, Contract!Truthful, Contract!Entry
  <2> QED BY <2>1, <2>2, <2>3
<1> QED BY <1>1, <1>2, <1>3 DEF PollReads, CountPoll

----------------------------------------------------------------------------
(* The answer to a POST. *)

\* Sending the next attempt leaves what is known intact, as long as the one
\* before it is counted among the unanswered or did not reach the service.
LEMMA ResendKeeps ==
  ASSUME IInv, NEW c \in Calls, NEW code \in Codes \cup {NoAnswer},
         pc[c] = "post", MayRetry(c), Resend(c),
         code # 202 /\ code # 200,
         code # NoAnswer => Post(c, attempt[c]) \notin inflight,
         reply[c].code \in {200, 202} \/ reply[c].code >= 500 => code = NoAnswer \/ code >= 500,
         seen' = [seen EXCEPT ![c] = @ \cup {code}],
         reply' = [reply EXCEPT ![c] = NoReply],
         UNCHANGED ledger
  PROVE  IInv'
<1> USE CaptureAssumption DEF Resend, MayRetry, IInv
<1>b. Bounded'
  <2>1. MaxRetries[c] \in Nat
    OBVIOUS
  <2>2. attempt'[c] <= MaxRetries[c] /\ polls'[c] <= MaxRetries[c]
    BY <2>1 DEF TypeOK, Bounded, PollsBounded
  <2>3. \A d \in Calls \ {c} : attempt'[d] = attempt[d] /\ polls'[d] = polls[d]
    BY DEF TypeOK
  <2> QED BY <2>2, <2>3 DEF TypeOK, Bounded
<1>1. TypeOK'
  BY <1>b DEF TypeOK, Post, Posts, NoReply, Replies, Garbled
<1>2. Undecided' /\ Unsent' /\ Followed' /\ PollsBounded'
  BY DEF TypeOK, Undecided, Unsent, Followed, PollsBounded, Owns, Entry, Post
<1>3. ReplyIsAwaited'
  BY DEF TypeOK, ReplyIsAwaited, Post
<1>4. ReplyIsTrue'
  BY DEF TypeOK, ReplyIsTrue, NoReply, NoAnswer, Owns, Entry
<1>5. LateIsUnanswered'
  BY DEF TypeOK, LateIsUnanswered, Post, Posts
<1>6. LiveDebitIsKnown'
  <2> SUFFICES ASSUME NEW d \in Calls, Live(d)'  PROVE  Known(d)'
    BY DEF LiveDebitIsKnown
  <2>1. CASE d # c
    BY <2>1 DEF TypeOK, LiveDebitIsKnown, Live, Known, InDoubt, Owns, Entry
  <2>2. CASE d = c
    <3>1. outcome[c].kind = "none"
      BY OutcomeKinds DEF Undecided
    <3>2. InDoubt(c) \/ reply[c].code \in {200, 202} \/ reply[c].code >= 500
      BY <2>2, <3>1 DEF LiveDebitIsKnown, Live, Known, Owns, Entry
    <3>3. seen'[c] = seen[c] \cup {code}
      BY DEF TypeOK
    <3> QED BY <2>2, <3>2, <3>3 DEF Known, InDoubt
  <2> QED BY <2>1, <2>2
<1>7. ReportsOwnDebit'
  BY DEF TypeOK, ReportsOwnDebit, Contract!Truthful, Contract!Entry
<1> QED BY <1>1, <1>2, <1>3, <1>4, <1>5, <1>6, <1>7

\* Ending with an answer, or without one after the last attempt.
LEMMA EndPostKeeps ==
  ASSUME IInv, NEW c \in Calls, NEW code \in Codes \cup {NoAnswer},
         NEW o \in Outcomes, End(c, o),
         pc[c] = "post",
         o.kind \in {"result", "pending", "refused", "raised"},
         Contract!Truthful(c, o),
         code # NoAnswer => Post(c, attempt[c]) \notin inflight,
         o.kind = "refused" => code = reply[c].code /\ code \notin {200, 202},
         seen' = [seen EXCEPT ![c] = @ \cup {code}],
         reply' = [reply EXCEPT ![c] = NoReply],
         UNCHANGED <<attempt, polls, inflight, ledger>>
  PROVE  IInv'
<1> USE CaptureAssumption DEF End, IInv
<1>1. TypeOK'
  BY DEF Bounded, TypeOK, Locations, NoReply, Replies, Garbled
<1>2. Undecided' /\ Unsent' /\ Followed' /\ PollsBounded'
  BY DEF TypeOK, Undecided, Unsent, Followed, PollsBounded, Owns, Entry
<1>3. ReplyIsAwaited'
  BY DEF TypeOK, ReplyIsAwaited, NoReply
<1>4. ReplyIsTrue'
  BY DEF TypeOK, ReplyIsTrue, NoReply, NoAnswer, Owns, Entry
<1>5. LateIsUnanswered'
  BY DEF TypeOK, LateIsUnanswered, Post, Posts
<1>6. LiveDebitIsKnown'
  BY OutcomeKinds DEF TypeOK, LiveDebitIsKnown, Live, Known, Undecided, InDoubt, Owns, Entry
<1>7. ReportsOwnDebit'
  BY DEF TypeOK, ReportsOwnDebit, Contract!Truthful, Contract!Entry
<1> QED BY <1>1, <1>2, <1>3, <1>4, <1>5, <1>6, <1>7

\* An attempt goes unanswered.
LEMMA FaultKeeps ==
  ASSUME IInv, NEW c \in Calls, Fault(c)
  PROVE  IInv'
<1>0. NoAnswer \in Codes \cup {NoAnswer} /\ NoAnswer \notin {200, 202}
  BY DEF NoAnswer
<1>1. CASE MayRetry(c) /\ Resend(c)
  BY <1>0, <1>1, ResendKeeps DEF Fault
<1>2. CASE ~MayRetry(c) /\ End(c, Raised) /\ UNCHANGED <<attempt, polls, inflight>>
  BY <1>0, <1>2, EndPostKeeps, OutcomeKinds DEF Fault, Contract!Truthful
<1> QED BY <1>1, <1>2 DEF Fault

\* What Conclusion returns is an outcome, and a truthful one.
LEMMA ConclusionIsTrue ==
  ASSUME IInv, NEW c \in Calls, reply[c] # NoReply, reply[c].code # 202
  PROVE  /\ Conclusion(reply[c]) \in Outcomes
         /\ Conclusion(reply[c]).kind \in {"result", "refused", "raised"}
         /\ Conclusion(reply[c]).kind = "refused" => reply[c].code >= 400
         /\ Contract!Truthful(c, Conclusion(reply[c]))
<1> DEFINE r == reply[c]
<1>1. r.code \in Codes /\ (r.code < 400 => r.code = 200)
  BY DEF IInv, TypeOK, ReplyIsAwaited, Replies, Codes
<1>2. CASE r.status = Garbled
  <2>1. Conclusion(r) = Raised
    BY <1>2 DEF Conclusion
  <2> QED BY <2>1, OutcomeKinds DEF Contract!Truthful
<1>3. CASE r.status # Garbled /\ r.code >= 400
  <2>1. Conclusion(r) = Refused(r.code)
    BY <1>3 DEF Conclusion
  <2>2. r.code \in ErrorCodes
    BY <1>1, <1>3 DEF ErrorCodes
  <2> QED BY <1>3, <2>1, <2>2, OutcomeKinds DEF Contract!Truthful
<1>4. CASE r.status # Garbled /\ ~(r.code >= 400)
  <2>1. r.code = 200 /\ Conclusion(r) = Result(r.status)
    BY <1>1, <1>4 DEF Conclusion, Codes
  <2>2. r.status \in DebitStatuses /\ Owns(c)
    BY <2>1, <1>4 DEF IInv, ReplyIsTrue
  <2>3. ~IsPendingDebitStatus(r.status) => r.status \in FinalStatuses
    BY <2>2 DEF DebitStatuses, IsPendingDebitStatus
  <2>4. ~IsPendingDebitStatus(r.status) => Entry(c).status = r.status
    BY <2>1, <2>3 DEF IInv, ReplyIsTrue
  <2>5. Contract!Truthful(c, Conclusion(r))
    BY <2>1, <2>2, <2>4, OutcomeKinds
    DEF Contract!Truthful, Contract!Entry, Owns, Entry, Contract!IsPendingDebitStatus,
        IsPendingDebitStatus, Contract!PendingDebitStatuses, PendingDebitStatuses
  <2> QED BY <2>1, <2>2, <2>5, OutcomeKinds
<1> QED BY <1>2, <1>3, <1>4

\* Following a 202: the call's own debit, so polling may begin.
LEMMA FollowKeeps ==
  ASSUME IInv, NEW c \in Calls, Receive(c), reply[c].code = 202,
         Follow(c, reply[c]), UNCHANGED inflight, MaxRetries[c] # 0
  PROVE  IInv'
<1> USE CaptureAssumption DEF Receive, Follow, IInv
<1>0. reply[c] # NoReply /\ pc[c] = "post" /\ Owns(c)
  BY DEF ReplyIsTrue
<1>a. reply[c].code \in Codes \cup {NoAnswer} /\ NoReply \in Replies
  BY DEF TypeOK, NoReply, Replies, Garbled
<1>b. Bounded'
  <2>1. MaxRetries[c] \in Nat
    OBVIOUS
  <2>2. attempt'[c] <= MaxRetries[c] /\ polls'[c] <= MaxRetries[c]
    BY <2>1 DEF TypeOK, Bounded, PollsBounded
  <2>3. \A d \in Calls \ {c} : attempt'[d] = attempt[d] /\ polls'[d] = polls[d]
    BY DEF TypeOK
  <2> QED BY <2>2, <2>3 DEF TypeOK, Bounded
<1>1. TypeOK'
  <2>1. pc' \in [Calls -> Locations] /\ attempt' \in [Calls -> Nat] /\ polls' \in [Calls -> Nat]
    BY DEF TypeOK, Locations
  <2>2. seen' \in [Calls -> SUBSET (Codes \cup {NoAnswer})] /\ reply' \in [Calls -> Replies]
    BY <1>a DEF TypeOK
  <2>3. UNCHANGED <<outcome, inflight, ledger>>
    OBVIOUS
  <2>4. TypeOK
    OBVIOUS
  <2> HIDE DEF IInv, Receive, Follow
  <2> QED BY <1>b, <2>1, <2>2, <2>3, <2>4 DEF TypeOK
<1>2. Undecided' /\ Unsent' /\ Followed'
  BY <1>0 DEF TypeOK, Undecided, Unsent, Followed, Owns, Entry
<1>c. PollsBounded'
  <2>1. MaxRetries[c] \in Nat \ {0}
    OBVIOUS
  <2>2. polls'[c] < MaxRetries[c]
    BY <2>1 DEF TypeOK
  <2>3. \A d \in Calls \ {c} : pc'[d] = pc[d] /\ polls'[d] = polls[d]
    BY DEF TypeOK
  <2> QED BY <2>2, <2>3 DEF PollsBounded
<1>3. ReplyIsAwaited'
  BY DEF TypeOK, ReplyIsAwaited, NoReply
<1>4. ReplyIsTrue'
  BY DEF TypeOK, ReplyIsTrue, NoReply, NoAnswer, Owns, Entry
<1>5. LateIsUnanswered'
  BY <1>0 DEF TypeOK, LateIsUnanswered, ReplyIsAwaited, Post, Posts
<1>6. LiveDebitIsKnown'
  BY <1>0 DEF TypeOK, LiveDebitIsKnown, Live, Known, InDoubt, Owns, Entry
<1>7. ReportsOwnDebit'
  BY <1>0 DEF TypeOK, ReportsOwnDebit, Contract!Truthful, Contract!Entry
<1> QED BY <1>1, <1>2, <1>c, <1>3, <1>4, <1>5, <1>6, <1>7

\* An answer is taken: resent on, followed, or concluded from.
LEMMA ReceiveKeeps ==
  ASSUME IInv, NEW c \in Calls, Receive(c)
  PROVE  IInv'
<1> DEFINE r == reply[c]
<1>0. /\ r # NoReply /\ pc[c] = "post" /\ r.code \in Codes
      /\ Post(c, attempt[c]) \notin inflight
      /\ seen' = [seen EXCEPT ![c] = @ \cup {r.code}]
      /\ reply' = [reply EXCEPT ![c] = NoReply] /\ UNCHANGED ledger
  BY DEF Receive, IInv, TypeOK, ReplyIsAwaited, Replies
<1>1. CASE End(c, Raised) /\ UNCHANGED <<attempt, polls, inflight>>
  BY <1>0, <1>1, EndPostKeeps, OutcomeKinds DEF Contract!Truthful
<1>2. CASE IsResent(c, r) /\ Resend(c)
  <2>1. r.code # 202 /\ r.code # 200 /\ MayRetry(c)
    BY <1>2 DEF IsResent, IsRetriableStatus
  <2> QED BY <1>0, <1>2, <2>1, ResendKeeps
<1>3. CASE r.code = 202 /\ Follow(c, r) /\ UNCHANGED inflight
  <2>1. CASE MaxRetries[c] = 0
    <3>1. Owns(c)
      BY <1>3 DEF IInv, ReplyIsTrue
    <3>2. Contract!Truthful(c, PendingResult)
      BY <3>1, OutcomeKinds DEF Contract!Truthful, Contract!Entry, Owns, Entry
    <3> QED BY <1>0, <1>3, <2>1, <3>2, EndPostKeeps, OutcomeKinds DEF Follow
  <2>2. CASE MaxRetries[c] # 0
    BY <1>3, <2>2, FollowKeeps
  <2> QED BY <2>1, <2>2
<1>4. CASE r.code # 202 /\ End(c, Conclusion(r)) /\ UNCHANGED <<attempt, polls, inflight>>
  <2>1. /\ Conclusion(r) \in Outcomes
        /\ Conclusion(r).kind \in {"result", "refused", "raised"}
        /\ Conclusion(r).kind = "refused" => r.code >= 400
        /\ Contract!Truthful(c, Conclusion(r))
    BY <1>0, <1>4, ConclusionIsTrue
  <2>2. Conclusion(r).kind = "refused" => r.code \notin {200, 202}
    BY <2>1
  <2> QED BY <1>0, <1>4, <2>1, <2>2, EndPostKeeps
<1> QED BY <1>1, <1>2, <1>3, <1>4 DEF Receive

----------------------------------------------------------------------------
(* The service. *)

\* A pending debit settles: final statuses already reported are not touched.
LEMMA SettleKeeps ==
  ASSUME IInv, NEW k \in Keys, Settle(k)
  PROVE  IInv'
<1> USE CaptureAssumption DEF Settle, IInv
<1>1. PICK s \in FinalStatuses : ledger' = [ledger EXCEPT ![k].status = s]
  OBVIOUS
<1>2. ledger[k] \in Debits /\ ledger'[k].owner = ledger[k].owner
  BY <1>1 DEF TypeOK, Unbooked, Debits, IsPendingDebitStatus, PendingDebitStatuses
<1>3. \A c \in Calls : Owns(c)' <=> Owns(c)
  BY <1>1, <1>2 DEF TypeOK, Owns, Entry, Debits, Unbooked
<1>4. TypeOK'
  BY <1>1, <1>2 DEF Bounded, TypeOK, Debits, DebitStatuses
<1>5. Undecided' /\ Unsent' /\ ReplyIsAwaited' /\ Followed' /\ PollsBounded'
  BY <1>3 DEF Undecided, Unsent, ReplyIsAwaited, Followed, PollsBounded
<1>6. \A c \in Calls : Entry(c).status \in FinalStatuses => Entry(c)' = Entry(c)
  BY <1>1 DEF TypeOK, Entry, IsPendingDebitStatus, PendingDebitStatuses, FinalStatuses
<1>7. ReplyIsTrue' /\ LateIsUnanswered'
  BY <1>3, <1>6 DEF ReplyIsTrue, LateIsUnanswered
<1>8. LiveDebitIsKnown'
  <2>1. \A c \in Calls : Live(c)' => Live(c)
    BY <1>3, <1>6 DEF Live, FinalStatuses
  <2> QED BY <2>1 DEF LiveDebitIsKnown, Known, InDoubt
<1>9. ReportsOwnDebit'
  <2>1. \A c \in Calls : ~IsPendingDebitStatus(Entry(c).status) => Entry(c)' = Entry(c)
    BY <1>1 DEF TypeOK, Entry
  <2>2. \A t : Contract!IsPendingDebitStatus(t) <=> IsPendingDebitStatus(t)
    BY DEF Contract!IsPendingDebitStatus, IsPendingDebitStatus,
           Contract!PendingDebitStatuses, PendingDebitStatuses
  <2> QED BY <1>3, <2>1, <2>2
    DEF ReportsOwnDebit, Contract!Truthful, Contract!Entry, Owns, Entry
<1> QED BY <1>4, <1>5, <1>7, <1>8, <1>9

\* An attempt still on its way to the service has no answer yet.
LEMMA UnservedIsUnanswered ==
  ASSUME IInv, NEW m \in inflight, pc[m.call] = "post", attempt[m.call] = m.attempt
  PROVE  reply[m.call] = NoReply
<1>1. m \in Posts /\ m.call \in Calls
  BY DEF IInv, TypeOK, Posts
<1>2. m = Post(m.call, m.attempt)
  BY <1>1 DEF Posts, Post
<1> QED BY <1>1, <1>2 DEF IInv, ReplyIsAwaited

\* An answer that makes no debit.
LEMMA AnswerKeeps ==
  ASSUME IInv, NEW m \in inflight, inflight' = inflight \ {m},
         NEW code \in Codes, NEW status \in DebitStatuses \cup {Garbled, Endless, Overlong},
         Answer(m, code, status), code \notin {200, 202},
         UNCHANGED <<pc, attempt, polls, outcome, seen, ledger>>
  PROVE  IInv'
<1> DEFINE c == m.call
<1> USE DEF IInv
<1>1. m \in Posts /\ c \in Calls /\ [code |-> code, status |-> status] \in Replies
  BY DEF TypeOK, Posts, Replies
<1>2. TypeOK'
  BY <1>1 DEF Bounded, TypeOK, Answer
<1>3. Undecided' /\ Unsent' /\ Followed' /\ PollsBounded' /\ LateIsUnanswered'
  BY DEF Undecided, Unsent, Followed, PollsBounded, LateIsUnanswered, Owns, Entry
<1>4. ReplyIsAwaited'
  <2>1. Post(c, m.attempt) = m /\ code # NoAnswer
    BY <1>1 DEF Posts, Post, Codes, NoAnswer
  <2> QED BY <1>1, <2>1 DEF TypeOK, ReplyIsAwaited, Answer, NoReply
<1>5. ReplyIsTrue'
  BY <1>1 DEF TypeOK, ReplyIsTrue, Answer, Owns, Entry
<1>6. LiveDebitIsKnown'
  <2> SUFFICES ASSUME NEW d \in Calls, Live(d)'  PROVE  Known(d)'
    BY DEF LiveDebitIsKnown
  <2>1. Known(d)
    BY DEF LiveDebitIsKnown, Live, Owns, Entry
  <2>2. CASE reply'[d] = reply[d]
    BY <2>1, <2>2 DEF Known, InDoubt
  <2>3. CASE reply'[d] # reply[d]
    <3>1. d = c /\ pc[c] = "post" /\ attempt[c] = m.attempt
      BY <2>3, <1>1 DEF Answer, TypeOK
    <3>2. reply[d].code = NoAnswer
      BY <3>1, UnservedIsUnanswered DEF NoReply
    <3> QED BY <2>1, <3>2 DEF Known, InDoubt, NoAnswer
  <2> QED BY <2>2, <2>3
<1>7. ReportsOwnDebit'
  BY DEF ReportsOwnDebit, Contract!Truthful, Contract!Entry
<1> QED BY <1>2, <1>3, <1>4, <1>5, <1>6, <1>7

\* An answer that comes with a new debit.
LEMMA BookKeeps ==
  ASSUME IInv, NEW m \in inflight, inflight' = inflight \ {m},
         NEW code \in Codes, NEW status \in DebitStatuses \cup {Garbled, Endless, Overlong},
         NEW s \in DebitStatuses,
         Entry(m.call) = Unbooked,
         ledger' = [ledger EXCEPT ![KeyOf[m.call]] = [status |-> s, owner |-> m.call]],
         Answer(m, code, status),
         code = 200 => status \in {s, Garbled},
         s = "FAILED" \/ code \in {200, 202} \/ code >= 500,
         UNCHANGED <<pc, attempt, polls, outcome, seen>>
  PROVE  IInv'
<1> DEFINE c == m.call
<1> USE CaptureAssumption DEF IInv
<1>1. m \in Posts /\ c \in Calls /\ [code |-> code, status |-> status] \in Replies
  BY DEF TypeOK, Posts, Replies
<1>2. /\ Owns(c)' /\ Entry(c)'.status = s
      /\ \A d \in Calls : Owns(d) => Owns(d)' /\ Entry(d)' = Entry(d)
      /\ \A d \in Calls : Owns(d)' => (Owns(d) /\ Entry(d)' = Entry(d)) \/ d = c
  BY <1>1 DEF TypeOK, Owns, Entry, Unbooked
<1>3. TypeOK'
  BY <1>1 DEF Bounded, TypeOK, Answer, Debits
<1>4. Undecided' /\ Unsent' /\ Followed' /\ PollsBounded' /\ LateIsUnanswered'
  BY <1>2 DEF Undecided, Unsent, Followed, PollsBounded, LateIsUnanswered
<1>5. ReplyIsAwaited'
  <2>1. Post(c, m.attempt) = m /\ code # NoAnswer
    BY <1>1 DEF Posts, Post, Codes, NoAnswer
  <2> QED BY <1>1, <2>1 DEF TypeOK, ReplyIsAwaited, Answer, NoReply
<1>6. ReplyIsTrue'
  <2> SUFFICES ASSUME NEW d \in Calls
               PROVE  /\ reply'[d].code \in {200, 202} => Owns(d)'
                      /\ reply'[d].code = 200 => reply'[d].status \in DebitStatuses \cup {Garbled}
                      /\ reply'[d].code = 200 /\ reply'[d].status \in FinalStatuses
                           => Entry(d)'.status = reply'[d].status
    BY DEF ReplyIsTrue
  <2>1. CASE reply'[d] = reply[d]
    BY <1>2, <2>1 DEF ReplyIsTrue
  <2>2. CASE reply'[d] # reply[d]
    <3>1. d = c /\ reply'[d] = [code |-> code, status |-> status]
      BY <2>2, <1>1 DEF Answer, TypeOK
    <3>2. Garbled \notin FinalStatuses
      BY DEF Garbled, FinalStatuses
    <3> QED BY <1>2, <3>1, <3>2
  <2> QED BY <2>1, <2>2
<1>7. LiveDebitIsKnown'
  <2> SUFFICES ASSUME NEW d \in Calls, Live(d)'  PROVE  Known(d)'
    BY DEF LiveDebitIsKnown
  <2>1. CASE d # c
    <3>1. Known(d)
      BY <1>2, <2>1 DEF LiveDebitIsKnown, Live
    <3>2. reply'[d] = reply[d]
      BY <2>1, <1>1 DEF Answer, TypeOK
    <3> QED BY <3>1, <3>2 DEF Known, InDoubt
  <2>2. CASE d = c /\ NoAnswer \in seen[c]
    BY <2>2 DEF Known, InDoubt
  <2>3. CASE d = c /\ pc[c] = "post" /\ m.attempt = attempt[c]
    <3>1. reply'[c].code = code
      BY <2>3, <1>1 DEF Answer, TypeOK
    <3>2. s # "FAILED"
      BY <1>2, <2>3 DEF Live
    <3> QED BY <2>3, <3>1, <3>2 DEF Known
  <2> QED BY <2>1, <2>2, <2>3 DEF LateIsUnanswered
<1>8. ReportsOwnDebit'
  BY <1>2 DEF ReportsOwnDebit, Contract!Truthful, Contract!Entry, Owns, Entry
<1> QED BY <1>3, <1>4, <1>5, <1>6, <1>7, <1>8

\* The service turns a POST away, or answers it with or without a debit.
LEMMA ServiceKeeps ==
  ASSUME IInv, NEW m \in inflight, Service(m)
  PROVE  IInv'
<1>1. CASE TurnAway(m)
  <2>1. {401, 429, 503} \subseteq Codes /\ {"FAILED", Garbled, Endless}
           \subseteq DebitStatuses \cup {Garbled, Endless, Overlong}
    BY DEF Codes, DebitStatuses, FinalStatuses
  <2> QED BY <1>1, <2>1, AnswerKeeps DEF Service, TurnAway
<1>2. CASE Duplicate(m)
  BY <1>2, AnswerKeeps DEF Service, Duplicate, Codes, DebitStatuses, FinalStatuses
<1>3. CASE Accept(m)
  <2>1. PICK s \in NewDebit :
          /\ ledger' = [ledger EXCEPT ![KeyOf[m.call]] = [status |-> s, owner |-> m.call]]
          /\ \/ \E status \in {s, Garbled} : Answer(m, 200, status)
             \/ \E status \in {s, Garbled, Endless, Overlong} : Answer(m, 202, status)
             \/ \E status \in {"FAILED", Garbled} : Answer(m, 503, status)
    BY <1>3 DEF Accept
  <2>0. /\ Entry(m.call) = Unbooked /\ inflight' = inflight \ {m}
        /\ UNCHANGED <<pc, attempt, polls, outcome, seen>>
    BY <1>3 DEF Service, Accept
  <2>2. ledger' = [ledger EXCEPT ![KeyOf[m.call]] = [status |-> s, owner |-> m.call]]
    BY <2>1
  <2>3. s \in DebitStatuses /\ {200, 202, 503} \subseteq Codes /\ "FAILED" \in DebitStatuses
    BY CaptureAssumption DEF Codes, DebitStatuses, FinalStatuses
  <2>4. ASSUME NEW code \in {200, 202, 503},
               NEW status \in DebitStatuses \cup {Garbled, Endless, Overlong},
               Answer(m, code, status), code = 200 => status \in {s, Garbled}
        PROVE IInv'
    <3>1. code \in Codes /\ (code \in {200, 202} \/ code >= 500)
      BY <2>3
    <3> QED BY <2>0, <2>2, <2>3, <2>4, <3>1, BookKeeps
  <2> QED BY <2>1, <2>3, <2>4
<1>4. CASE Decline(m)
  <2>1. "FAILED" \in DebitStatuses /\ {200, 422} \subseteq Codes
    BY DEF Codes, DebitStatuses, FinalStatuses
  <2> QED BY <1>4, <2>1, BookKeeps DEF Service, Decline
<1> QED BY <1>1, <1>2, <1>3, <1>4 DEF Service

----------------------------------------------------------------------------
(* The theorems. *)

\* Nothing changes: the invariant stays.
LEMMA StutterKeeps == IInv /\ UNCHANGED vars => IInv'
<1> SUFFICES ASSUME IInv, UNCHANGED vars  PROVE IInv'
  OBVIOUS
<1> USE DEF IInv, vars
<1>1. TypeOK'
  BY DEF TypeOK, Bounded
<1>2. Undecided' /\ ReplyIsAwaited' /\ PollsBounded' /\ LateIsUnanswered'
  BY DEF Undecided, ReplyIsAwaited, PollsBounded, LateIsUnanswered
<1>3. Unsent' /\ ReplyIsTrue' /\ Followed'
  BY DEF Unsent, ReplyIsTrue, Followed, Owns, Entry
<1>4. LiveDebitIsKnown'
  BY DEF LiveDebitIsKnown, Live, Known, InDoubt, Owns, Entry
<1>5. ReportsOwnDebit'
  BY DEF ReportsOwnDebit, Contract!Truthful, Contract!Entry
<1> QED BY <1>1, <1>2, <1>3, <1>4, <1>5

\* The invariant is inductive: every step of a call, of the service and of a
\* debit's settlement keeps it.
THEOREM NextKeeps == IInv /\ [Next]_vars => IInv'
<1> SUFFICES ASSUME IInv, [Next]_vars  PROVE IInv'
  OBVIOUS
<1>1. CASE UNCHANGED vars
  BY <1>1, StutterKeeps
<1>2. ASSUME NEW c \in Calls, Step(c)  PROVE IInv'
  BY <1>2, BeginKeeps, AuthoriseKeeps, AuthFailsKeeps, ReceiveKeeps, FaultKeeps,
     PollKeeps, SleepRaisesKeeps, PollRetriesKeeps, PollFailsKeeps, PollReadsKeeps
  DEF Step
<1>3. ASSUME NEW m \in inflight, Service(m)  PROVE IInv'
  BY <1>3, ServiceKeeps
<1>4. ASSUME NEW k \in Keys, Settle(k)  PROVE IInv'
  BY <1>4, SettleKeeps
<1> QED BY <1>1, <1>2, <1>3, <1>4 DEF Next

\* IInv holds in every reachable state.
THEOREM Invariance == Spec => []IInv
  BY InitInvariant, NextKeeps, PTL DEF Spec

\* The variables keep their types whatever calls, keys and maxRetries.
THEOREM TypeCorrect == Spec => []TypeOK
  BY Invariance, PTL DEF IInv

\* A call that reports a debit reports its own, with the ledger's final status.
THEOREM ReportsAreTrue == Spec => []ReportsOwnDebit
  BY Invariance, PTL DEF IInv

\* A refusal hides no live debit of the call unless an attempt was in doubt.
THEOREM RefusalsAreSafe == Spec => []RefusalMeansNoDebit
<1>1. IInv => RefusalMeansNoDebit
  <2> SUFFICES ASSUME IInv, NEW c \in Calls, outcome[c].kind = "refused", Live(c)
               PROVE  InDoubt(c)
    BY DEF RefusalMeansNoDebit, Live, InDoubt
  <2>1. pc[c] = "done"
    BY OutcomeKinds DEF IInv, Undecided
  <2> QED BY <2>1 DEF IInv, LiveDebitIsKnown, Known
<1> QED BY <1>1, Invariance, PTL

\* No attempt of a call is sent once the call has seen a 202.
THEOREM PostedOnce == Spec => NoRepostAfter202
<1> DEFINE Keeps == \A c \in Calls : 202 \in seen'[c] =>
                     \A m \in inflight' \ inflight : m.call # c
<1>1. IInv /\ [Next]_vars => [Keeps]_vars
  <2> SUFFICES ASSUME IInv, Next, NEW c \in Calls, 202 \in seen'[c],
                      NEW m \in inflight' \ inflight
               PROVE  m.call # c
    BY DEF vars
  <2>1. ASSUME NEW d \in Calls, Authorise(d)  PROVE m.call # c
    BY <2>1 DEF Authorise, IInv, Unsent, Post
  <2>2. ASSUME NEW d \in Calls, Resend(d), pc[d] = "post", NEW code \in Codes \cup {NoAnswer},
               code # 202, seen' = [seen EXCEPT ![d] = @ \cup {code}]
        PROVE m.call # c
    BY <2>2 DEF Resend, IInv, TypeOK, Followed, Post
  <2>3. ASSUME NEW d \in Calls, Receive(d)  PROVE m.call # c
    <3>1. Resend(d) /\ IsRetriableStatus(reply[d].code)
      BY <2>3 DEF Receive, IsResent
    <3>2. reply[d].code # 202 /\ reply[d].code \in Codes \cup {NoAnswer}
      BY <3>1 DEF IsRetriableStatus, IInv, TypeOK, Replies
    <3> QED BY <2>2, <2>3, <3>1, <3>2 DEF Receive
  <2>4. ASSUME NEW d \in Calls, Fault(d)  PROVE m.call # c
    <3>1. Resend(d) /\ NoAnswer # 202
      BY <2>4 DEF Fault, NoAnswer
    <3> QED BY <2>2, <2>4, <3>1 DEF Fault
  <2> QED BY <2>1, <2>3, <2>4
      DEF Next, Step, Begin, AuthFails, Poll, SleepRaises, PollRetries, PollFails, PollReads,
          Service, Settle, netVars
<1> QED BY <1>1, Invariance, PTL DEF Spec, NoRepostAfter202

----------------------------------------------------------------------------
(* CaptureClient implements DebitContract.  The contract's copies of the    *)
(* shared vocabulary mean what CaptureClient's own mean.                    *)

\* The contract's vocabulary is the client's own, under the identity mapping.
LEMMA SameWords ==
  /\ Contract!DebitStatuses = DebitStatuses
  /\ Contract!FinalStatuses = FinalStatuses
  /\ \A t : Contract!IsPendingDebitStatus(t) <=> IsPendingDebitStatus(t)
  /\ Contract!Outcomes = Outcomes
  /\ Contract!NoOutcome = NoOutcome
  /\ Contract!Unbooked = Unbooked
  /\ \A c : Contract!Entry(c) = Entry(c)
  BY DEF Contract!DebitStatuses, DebitStatuses, Contract!FinalStatuses, FinalStatuses,
         Contract!IsPendingDebitStatus, IsPendingDebitStatus,
         Contract!PendingDebitStatuses, PendingDebitStatuses,
         Contract!Outcomes, Outcomes, Contract!NoOutcome, NoOutcome,
         Contract!PendingResult, PendingResult, Contract!Raised, Raised,
         Contract!Result, Result, Contract!Refused, Refused, Contract!Outcome, Outcome,
         Contract!Garbled, Garbled, Contract!NoAnswer, NoAnswer, Contract!Codes, Codes,
         Contract!ErrorCodes, ErrorCodes, Contract!Unbooked, Unbooked, Contract!Entry, Entry

\* A call that ends, ends with an outcome its contract allows.
LEMMA EndsAreReports ==
  ASSUME IInv, NEW c \in Calls, Step(c), outcome' # outcome
  PROVE  Contract!Report(c)
<1>1. IInv'
  BY BeginKeeps, AuthoriseKeeps, AuthFailsKeeps, ReceiveKeeps, FaultKeeps,
     PollKeeps, SleepRaisesKeeps, PollRetriesKeeps, PollFailsKeeps, PollReadsKeeps
  DEF Step
<1>2. PICK o : End(c, o)
  BY DEF Step, Begin, Authorise, AuthFails, Receive, Fault, Poll, SleepRaises, PollRetries, PollFails,
         PollReads, Resend, Follow
<1>3. pc[c] # "done" /\ UNCHANGED ledger
  BY DEF Step, Begin, Authorise, AuthFails, Receive, Fault, Poll, SleepRaises, PollRetries, PollFails,
         PollReads, netVars
<1>4. outcome[c] = NoOutcome
  BY <1>3 DEF IInv, Undecided
<1>5. o \in Outcomes /\ outcome' = [outcome EXCEPT ![c] = o]
  BY <1>1, <1>2 DEF End, IInv, TypeOK
<1>6. Contract!Truthful(c, o)
  BY <1>1, <1>3, <1>5
  DEF IInv, TypeOK, ReportsOwnDebit, Contract!Truthful, Contract!Entry
<1> QED BY <1>3, <1>4, <1>5, <1>6, SameWords DEF Contract!Report

\* A service step books a debit once for its call, or leaves the ledger alone.
LEMMA ServiceBooks ==
  ASSUME IInv, NEW m \in inflight, Service(m), ledger' # ledger
  PROVE  m.call \in Calls /\ Contract!Book(m.call)
<1>1. m.call \in Calls
  BY DEF IInv, TypeOK, Posts
<1>2. Entry(m.call) = Unbooked /\ UNCHANGED outcome
  BY DEF Service, TurnAway, Duplicate, Accept, Decline
<1>3. PICK s \in DebitStatuses :
        ledger' = [ledger EXCEPT ![KeyOf[m.call]] = [status |-> s, owner |-> m.call]]
  BY CaptureAssumption
  DEF Service, TurnAway, Duplicate, Accept, Decline, DebitStatuses, FinalStatuses
<1> QED BY <1>1, <1>2, <1>3, SameWords DEF Contract!Book

\* A debit that settles in the client's model settles in the contract.
LEMMA SettlesAreSettlements ==
  ASSUME NEW k \in Keys, Settle(k)
  PROVE  Contract!SettleDebit(k)
  BY SameWords DEF Settle, Contract!SettleDebit

\* Every behaviour of the client and the service is one the contract allows.
THEOREM ImplementsContract == Spec => KeepsContract
<1>1. Init => Contract!Init
  BY SameWords DEF Init, Contract!Init
<1>2. IInv /\ [Next]_vars => [Contract!Next]_(Contract!contractVars)
  <2> SUFFICES ASSUME IInv, Next, ~UNCHANGED <<ledger, outcome>>  PROVE Contract!Next
    BY DEF vars, Contract!contractVars
  <2>1. ASSUME NEW c \in Calls, Step(c)  PROVE Contract!Next
    <3>1. outcome' # outcome
      BY <2>1 DEF Step, Begin, Authorise, AuthFails, Receive, Fault, Poll, SleepRaises, PollRetries,
                  PollFails, PollReads, netVars
    <3> QED BY <2>1, <3>1, EndsAreReports DEF Contract!Next
  <2>2. ASSUME NEW m \in inflight, Service(m)  PROVE Contract!Next
    <3>1. ledger' # ledger
      BY <2>2 DEF Service
    <3> QED BY <2>2, <3>1, ServiceBooks DEF Contract!Next
  <2>3. ASSUME NEW k \in Keys, Settle(k)  PROVE Contract!Next
    BY <2>3, SettlesAreSettlements DEF Contract!Next
  <2> QED BY <2>1, <2>2, <2>3 DEF Next
<1> QED BY <1>1, <1>2, Invariance, PTL DEF Spec, KeepsContract, Contract!Spec

----------------------------------------------------------------------------
(* CaptureClient implements RetriedRequest, under the mapping of Promise.   *)

\* A step of a call leaves the others alone, and what it has lost track of stays lost.
LEMMA StepIsLocal ==
  ASSUME IInv, NEW c \in Calls, Step(c)
  PROVE  /\ outcome[c] = NoOutcome
         /\ \A d \in Calls \ {c} : outcome'[d] = outcome[d] /\ seen'[d] = seen[d]
         /\ seen[c] \subseteq seen'[c]
         /\ UNCHANGED ledger
<1>1. pc[c] # "done" /\ UNCHANGED ledger
  BY DEF Step, Begin, Authorise, AuthFails, Receive, Fault, Poll, SleepRaises, PollRetries, PollFails,
         PollReads, netVars
<1>2. outcome[c] = NoOutcome
  BY <1>1 DEF IInv, Undecided
<1>3. outcome' = outcome \/ \E o : End(c, o)
  BY DEF Step, Begin, Authorise, AuthFails, Receive, Fault, Poll, SleepRaises, PollRetries, PollFails,
         PollReads, Resend, Follow
<1>4. \A d \in Calls \ {c} : outcome'[d] = outcome[d]
  BY <1>3 DEF End, IInv, TypeOK
<1>5. seen' = seen \/ \E code : seen' = [seen EXCEPT ![c] = @ \cup {code}]
  BY DEF Step, Begin, Authorise, AuthFails, Receive, Fault, Poll, SleepRaises, PollRetries, PollFails,
         PollReads, netVars
<1>6. seen[c] \subseteq seen'[c] /\ \A d \in Calls \ {c} : seen'[d] = seen[d]
  BY <1>5 DEF IInv, TypeOK
<1> QED BY <1>1, <1>2, <1>4, <1>6

\* A step of a call is an answer, or the lack of one, and perhaps its end.
LEMMA StepProceeds ==
  ASSUME IInv, NEW c \in Calls, Step(c)
  PROVE  Promise!Proceed(c)
<1> DEFINE verdict == [d \in Calls |-> Verdict(outcome[d])]
           doubt == [d \in Calls |-> InDoubt(d)]
           done == [d \in Calls |-> LiveDebits(d)]
           lost == InDoubt(c)'
           v == Verdict(outcome'[c])
<1>1. IInv'
  BY BeginKeeps, AuthoriseKeeps, AuthFailsKeeps, ReceiveKeeps, FaultKeeps,
     PollKeeps, SleepRaisesKeeps, PollRetriesKeeps, PollFailsKeeps, PollReadsKeeps
  DEF Step
<1>2. verdict[c] = "open"
  BY StepIsLocal, OutcomeKinds DEF Verdict
<1>3. lost \in BOOLEAN /\ v \in Promise!Verdicts
  BY DEF InDoubt, Verdict, Promise!Verdicts
<1>4. (InDoubt(c) => lost) /\ \A d \in Calls \ {c} : InDoubt(d)' = InDoubt(d)
  BY StepIsLocal DEF InDoubt
<1>5. doubt' = [doubt EXCEPT ![c] = @ \/ lost]
  <2>1. (InDoubt(c) \/ lost) = lost
    BY <1>3, <1>4 DEF InDoubt
  <2>2. \A d \in Calls : InDoubt(d)' = IF d = c THEN lost ELSE InDoubt(d)
    BY <1>4
  <2> QED BY <2>1, <2>2
<1>6. verdict' = [verdict EXCEPT ![c] = v]
  BY StepIsLocal
<1>7. done' = done
  BY StepIsLocal DEF LiveDebits, Live, Owns, Entry
<1>8. v = "refused" => done[c] = {} \/ doubt[c] \/ lost
  <2>1. v = "refused" /\ Live(c)' => lost
    <3>1. v = "refused" => outcome'[c].kind = "refused"
      BY DEF Verdict
    <3>2. outcome'[c].kind = "refused" => pc'[c] = "done"
      BY <1>1, OutcomeKinds DEF IInv, Undecided
    <3> QED BY <1>1, <3>1, <3>2 DEF IInv, LiveDebitIsKnown, Known
  <2>2. Live(c)' = Live(c)
    BY StepIsLocal DEF Live, Owns, Entry
  <2> QED BY <2>1, <2>2 DEF LiveDebits
<1> HIDE DEF verdict, doubt, done, lost, v
<1>9. \E l \in BOOLEAN, w \in Promise!Verdicts :
        /\ doubt' = [doubt EXCEPT ![c] = @ \/ l]
        /\ w = "refused" => done[c] = {} \/ doubt[c] \/ l
        /\ verdict' = [verdict EXCEPT ![c] = w]
  BY <1>3, <1>5, <1>6, <1>8
<1> QED BY <1>2, <1>7, <1>9 DEF Promise!Proceed, verdict, doubt, done

\* The service begins a debit for a call that waits, or that lost track.
LEMMA ServiceActs ==
  ASSUME IInv, NEW m \in inflight, Service(m)
  PROVE  Promise!Act(m.call) \/ UNCHANGED Promise!promiseVars
<1> DEFINE c == m.call
           done == [d \in Calls |-> LiveDebits(d)]
<1>1. c \in Calls /\ UNCHANGED <<pc, outcome, seen>>
  BY DEF Service, IInv, TypeOK, Posts
<1>2. \A d \in Calls : Verdict(outcome[d])' = Verdict(outcome[d]) /\ InDoubt(d)' = InDoubt(d)
  BY <1>1 DEF InDoubt
<1>3. CASE \A d \in Calls : Live(d)' = Live(d)
  BY <1>2, <1>3 DEF Promise!promiseVars, LiveDebits
<1>4. CASE \E d \in Calls : Live(d)' # Live(d)
  <2>1. PICK s \in DebitStatuses :
          /\ Entry(c) = Unbooked
          /\ ledger' = [ledger EXCEPT ![KeyOf[c]] = [status |-> s, owner |-> c]]
    BY <1>4, CaptureAssumption
    DEF Service, TurnAway, Duplicate, Accept, Decline, DebitStatuses, FinalStatuses, Live, Owns,
        Entry
  <2>2. ~Live(c) /\ \A d \in Calls \ {c} : Live(d)' = Live(d)
    BY <1>1, <2>1, CaptureAssumption DEF IInv, TypeOK, Live, Owns, Entry, Unbooked
  <2>3. Live(c)'
    BY <1>1, <1>4, <2>2 DEF Live
  <2>4. \A d \in Calls : done'[d] = [done EXCEPT ![c] = @ \cup {KeyOf[c]}][d]
    BY <1>1, <2>2, <2>3 DEF LiveDebits
  <2>5. done' = [done EXCEPT ![c] = @ \cup {KeyOf[c]}]
    BY <2>4
  <2>6. KeyOf[c] \in Keys \ done[c] /\ done[c] = {}
    BY <1>1, <2>2, CaptureAssumption DEF LiveDebits
  <2>7. InDoubt(c) \/ outcome[c] = NoOutcome
    BY <1>1 DEF IInv, LateIsUnanswered, InDoubt, Undecided
  <2>8. Promise!MayAct(c)
    BY <1>1, <2>6, <2>7, OutcomeKinds DEF Promise!MayAct, Verdict
  <2> QED BY <1>1, <1>2, <2>5, <2>6, <2>8 DEF Promise!Act
<1> QED BY <1>3, <1>4

\* A debit that settles goes on, or is undone.
LEMMA SettleUndoes ==
  ASSUME IInv, NEW k \in Keys, Settle(k)
  PROVE  (\E c \in Calls : Promise!Undo(c)) \/ UNCHANGED Promise!promiseVars
<1> DEFINE done == [d \in Calls |-> LiveDebits(d)]
<1>1. PICK s \in FinalStatuses : ledger' = [ledger EXCEPT ![k].status = s]
  BY DEF Settle
<1>2. PICK c \in Calls : ledger[k].owner = c /\ ledger'[k] = [status |-> s, owner |-> c]
  <2>1. ledger[k] \in Debits
    BY DEF IInv, TypeOK, Unbooked, IsPendingDebitStatus, PendingDebitStatuses, Settle
  <2>2. ledger'[k] = [status |-> s, owner |-> ledger[k].owner]
    BY <1>1, <2>1 DEF IInv, TypeOK, Debits
  <2> QED BY <2>1, <2>2 DEF Debits
<1>3. \A d \in Calls \ {c} : Live(d)' = Live(d)
  BY <1>1, <1>2, CaptureAssumption DEF IInv, TypeOK, Live, Owns, Entry
<1>4. \A d \in Calls : Verdict(outcome[d])' = Verdict(outcome[d]) /\ InDoubt(d)' = InDoubt(d)
  BY DEF Settle, InDoubt
<1>5. CASE Live(c)' = Live(c)
  BY <1>2, <1>3, <1>4, <1>5 DEF Promise!promiseVars, LiveDebits
<1>6. CASE Live(c)' # Live(c)
  <2>1. ~Live(c)'
    <3>1. Live(c)' => Owns(c)
      BY <1>1, <1>2, CaptureAssumption DEF IInv, TypeOK, Live, Owns, Entry
    <3>2. Owns(c) /\ KeyOf[c] # k => Live(c)' = Live(c)
      BY <1>1, <1>2, CaptureAssumption DEF IInv, TypeOK, Live, Owns, Entry
    <3>3. Owns(c) /\ KeyOf[c] = k => Live(c)
      BY DEF Settle, Live, Entry, IsPendingDebitStatus, PendingDebitStatuses
    <3> QED BY <1>6, <3>1, <3>2, <3>3 DEF Live
  <2>2. \A d \in Calls : LiveDebits(d)' = IF d = c THEN {} ELSE LiveDebits(d)
    BY <1>3, <2>1 DEF LiveDebits
  <2>3. done' = [done EXCEPT ![c] = {}]
    BY <2>2
  <2>4. Promise!Undo(c)
    BY <1>4, <2>3 DEF Promise!Undo
  <2> QED BY <1>2, <2>4
<1> QED BY <1>5, <1>6

\* The capture client keeps what a retried request promises.
THEOREM ImplementsPromise == Spec => KeepsPromise
<1>1. Init => Promise!Init
  BY CaptureAssumption, OutcomeKinds
  DEF Init, Promise!Init, Verdict, InDoubt, LiveDebits, Live, Owns, Entry, Unbooked
<1>2. IInv /\ [Next]_vars => [Promise!Next]_(Promise!promiseVars)
  <2> SUFFICES ASSUME IInv, [Next]_vars  PROVE Promise!Next \/ UNCHANGED Promise!promiseVars
    OBVIOUS
  <2>1. CASE UNCHANGED vars
    BY <2>1 DEF vars, Promise!promiseVars, InDoubt, LiveDebits, Live, Owns, Entry
  <2>2. ASSUME NEW c \in Calls, Step(c)  PROVE Promise!Next
    BY <2>2, StepProceeds DEF Promise!Next
  <2>3. ASSUME NEW m \in inflight, Service(m)
        PROVE  Promise!Next \/ UNCHANGED Promise!promiseVars
    <3>1. m.call \in Calls
      BY DEF IInv, TypeOK, Posts
    <3> QED BY <2>3, <3>1, ServiceActs DEF Promise!Next
  <2>4. ASSUME NEW k \in Keys, Settle(k)
        PROVE  Promise!Next \/ UNCHANGED Promise!promiseVars
    BY <2>4, SettleUndoes DEF Promise!Next
  <2> QED BY <2>1, <2>2, <2>3, <2>4 DEF Next
<1> QED BY <1>1, <1>2, Invariance, PTL DEF Spec, KeepsPromise, Promise!Spec
=============================================================================
