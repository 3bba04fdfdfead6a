------------------------- MODULE MerchantApiProofs -------------------------
(***************************************************************************)
(* Proofs about MerchantApi, for any calls, methods, keys and maxRetries.  *)
(***************************************************************************)
EXTENDS MerchantApi, TLAPS

(***************************************************************************)
(* The inductive invariant, in named parts.                                *)
(***************************************************************************)

\* A call that has not ended has said nothing.
Undecided == \A c \in Calls : pc[c] # "done" => outcome[c] = NoOutcome

\* A call that has sent nothing has changed nothing, and no answer.
Unsent ==
  \A c \in Calls : pc[c] \in {"ready", "auth"} =>
    /\ attempt[c] = 0 /\ seen[c] = {}
    /\ \A m \in inflight \cup effects : m.call # c

\* The attempts of a call are at most its retries and one.
Numbered == \A m \in inflight \cup effects : m.attempt <= MaxRetries[m.call]

\* An answer is on its way only to the attempt the call waits for, and that
\* attempt is then no longer on its way to the service.
ReplyIsAwaited ==
  \A c \in Calls : reply[c] # NoReply =>
    /\ pc[c] = "wait"
    /\ Attempt(c, attempt[c]) \notin inflight
    /\ reply[c].code # NoAnswer

\* What a result speaks of.
HasEffect(c) ==
  EffectsOf(c) # {} \/ (op[c] = "pre_authorize" /\ SameKey(Attempt(c, 0)) # {})

\* A success answer speaks of something done.
ReplyIsTrue ==
  \A c \in Calls : reply[c].code \in {200, 202} /\ op[c] # "lookup" => HasEffect(c)

\* An attempt the client gave up went unanswered.
LateIsUnanswered ==
  \A m \in inflight :
    \/ NoAnswer \in seen[m.call]
    \/ pc[m.call] = "wait" /\ m.attempt = attempt[m.call]

\* Where the client's knowledge of what it did can be.
Known(c) ==
  \/ InDoubt(c)
  \/ pc[c] = "wait" /\ (reply[c].code \in {200, 202} \/ reply[c].code >= 500)
  \/ outcome[c].kind \in {"result", "raised"}

EffectIsKnown == \A c \in Calls : EffectsOf(c) # {} => Known(c)

IInv ==
  /\ TypeOK
  /\ Undecided
  /\ Unsent
  /\ Numbered
  /\ ReplyIsAwaited
  /\ ReplyIsTrue
  /\ LateIsUnanswered
  /\ EffectIsKnown
  /\ RepeatIsInDoubt
  /\ ResultHasEffect

----------------------------------------------------------------------------

\* The outcomes of a call, and what tells them apart.
LEMMA OutcomeKinds ==
  /\ NoOutcome.kind = "none" /\ Returned.kind = "result" /\ Raised.kind = "raised"
  /\ \A code : Refused(code).kind = "refused"
  BY DEF NoOutcome, Returned, Raised, Refused, Outcome

Ends == {Returned, Raised} \cup {Refused(code) : code \in ErrorCodes}

\* No call is made: the invariant holds at the start.
LEMMA InitInvariant == Init => IInv
<1> SUFFICES ASSUME Init  PROVE IInv
  OBVIOUS
<1> USE ApiAssumption DEF Init
<1>1. TypeOK
  BY DEF TypeOK, NoReply, Codes, NoAnswer
<1>2. Undecided /\ Unsent /\ Numbered /\ ReplyIsAwaited /\ LateIsUnanswered
  BY DEF Undecided, Unsent, Numbered, ReplyIsAwaited, LateIsUnanswered
<1>3. ReplyIsTrue
  BY DEF ReplyIsTrue, NoReply, NoAnswer
<1>4. EffectIsKnown /\ RepeatIsInDoubt
  BY DEF EffectIsKnown, RepeatIsInDoubt, EffectsOf
<1>5. ResultHasEffect
  BY OutcomeKinds DEF ResultHasEffect
<1> QED BY <1>1, <1>2, <1>3, <1>4, <1>5 DEF IInv

\* A call that is made or refused before anything was sent.
LEMMA UnsentStepKeeps ==
  ASSUME IInv, NEW c \in Calls, pc[c] \in {"ready", "auth"},
         NEW p \in {"auth", "done"}, pc' = [pc EXCEPT ![c] = p],
         NEW method \in {NoMethod, "lookup"} \cup Operations,
         op' = [op EXCEPT ![c] = method],
         NEW o \in Ends, outcome' = IF p = "done" THEN [outcome EXCEPT ![c] = o] ELSE outcome,
         o # Returned,
         UNCHANGED <<attempt, seen, reply, inflight, effects>>
  PROVE  IInv'
<1> USE DEF IInv
<1>0. EffectsOf(c) = {} /\ \A d \in Calls : EffectsOf(d)' = EffectsOf(d)
  BY DEF Unsent, EffectsOf
<1>1. TypeOK'
  BY DEF TypeOK, Ends
<1>2. Undecided' /\ Unsent' /\ Numbered' /\ LateIsUnanswered'
  BY DEF TypeOK, Undecided, Unsent, Numbered, LateIsUnanswered
<1>3. ReplyIsAwaited'
  BY DEF TypeOK, ReplyIsAwaited
<1>4. \A e \in effects : op'[e.call] = op[e.call]
  BY DEF TypeOK, Unsent, Attempts
<1>5. \A d \in Calls \ {c} : HasEffect(d)' = HasEffect(d)
  BY <1>0, <1>4 DEF TypeOK, HasEffect, SameKey, Attempt
<1>6. ReplyIsTrue'
  <2>1. reply[c].code = NoAnswer
    BY DEF ReplyIsAwaited, NoReply
  <2> QED BY <1>5, <2>1 DEF TypeOK, ReplyIsTrue, NoAnswer
<1>7. EffectIsKnown' /\ RepeatIsInDoubt'
  BY <1>0 DEF TypeOK, EffectIsKnown, Known, InDoubt, RepeatIsInDoubt
<1>8. ResultHasEffect'
  <2>1. outcome'[c] # Returned
    BY OutcomeKinds DEF TypeOK, Undecided
  <2>2. \A d \in Calls \ {c} : outcome'[d] = outcome[d] /\ op'[d] = op[d]
    BY DEF TypeOK
  <2> QED BY <1>5, <2>1, <2>2 DEF ResultHasEffect, HasEffect
<1> QED BY <1>1, <1>2, <1>3, <1>6, <1>7, <1>8

\* A method is called: its options are checked and nothing is sent.
LEMMA BeginKeeps ==
  ASSUME IInv, NEW c \in Calls, Begin(c)
  PROVE  IInv'
<1>1. PICK method \in Methods[c], o \in Inputs :
        /\ op' = [op EXCEPT ![c] = Effect(method)]
        /\ \/ pc' = [pc EXCEPT ![c] = "auth"] /\ UNCHANGED outcome
           \/ End(c, Raised)
  BY DEF Begin
<1>2. Effect(method) \in {NoMethod, "lookup"} \cup Operations
  BY ApiAssumption DEF Effect
<1>3. Raised \in Ends /\ Raised # Returned
  BY OutcomeKinds DEF Ends
<1>4. /\ pc[c] \in {"ready", "auth"} /\ "auth" # "done"
      /\ UNCHANGED <<attempt, seen, reply, inflight, effects>>
  BY DEF Begin
<1>5. CASE pc' = [pc EXCEPT ![c] = "auth"] /\ UNCHANGED outcome
  BY <1>1, <1>2, <1>3, <1>4, <1>5, UnsentStepKeeps
<1>6. CASE End(c, Raised)
  BY <1>1, <1>2, <1>3, <1>4, <1>6, UnsentStepKeeps DEF End
<1> QED BY <1>1, <1>5, <1>6

\* The first attempt goes out, or no bearer token comes.
LEMMA AuthoriseKeeps ==
  ASSUME IInv, NEW c \in Calls, Authorise(c)
  PROVE  IInv'
<1>1. CASE \E o \in {Raised, Refused(401)} : End(c, o) /\ UNCHANGED inflight
  <2>1. PICK o \in {Raised, Refused(401)} : End(c, o) /\ UNCHANGED inflight
    BY <1>1
  <2>2. o \in Ends /\ o # Returned
    BY OutcomeKinds DEF Ends, ErrorCodes, Codes
  <2>3. op[c] \in {NoMethod, "lookup"} \cup Operations /\ op' = [op EXCEPT ![c] = op[c]]
    BY DEF IInv, TypeOK, Authorise
  <2>4. pc[c] = "auth" /\ UNCHANGED <<attempt, seen, reply, inflight, effects>>
    BY <2>1 DEF Authorise
  <2> QED BY <2>1, <2>2, <2>3, <2>4, UnsentStepKeeps DEF End
<1>2. CASE /\ pc' = [pc EXCEPT ![c] = "wait"]
           /\ inflight' = inflight \cup {Attempt(c, 0)}
           /\ UNCHANGED outcome
  <2> USE <1>2, ApiAssumption DEF Authorise, IInv
  <2>1. TypeOK'
    BY DEF TypeOK, Attempts, Attempt
  <2>2. Undecided' /\ Unsent' /\ Numbered' /\ LateIsUnanswered'
    BY DEF TypeOK, Undecided, Unsent, Numbered, LateIsUnanswered, Attempt
  <2>3. ReplyIsAwaited'
    BY DEF TypeOK, ReplyIsAwaited, Attempt
  <2>4. ReplyIsTrue' /\ ResultHasEffect'
    BY DEF ReplyIsTrue, ResultHasEffect, HasEffect, EffectsOf, SameKey
  <2>5. EffectIsKnown' /\ RepeatIsInDoubt'
    BY DEF TypeOK, Unsent, EffectIsKnown, Known, InDoubt, RepeatIsInDoubt, EffectsOf
  <2> QED BY <2>1, <2>2, <2>3, <2>4, <2>5
<1> QED BY <1>1, <1>2 DEF Authorise

----------------------------------------------------------------------------
(* The answer to an attempt, or none. *)

\* Sending the next attempt leaves what is known intact, as long as the one
\* before it is counted among the unanswered or did not reach the service.
LEMMA ResendKeeps ==
  ASSUME IInv, NEW c \in Calls, NEW code \in Codes \cup {NoAnswer},
         pc[c] = "wait", MayRetry(c), Resend(c),
         code # NoAnswer => Attempt(c, attempt[c]) \notin inflight,
         reply[c].code \in {200, 202} \/ reply[c].code >= 500 => code = NoAnswer \/ code >= 500,
         seen' = [seen EXCEPT ![c] = @ \cup {code}],
         reply' = [reply EXCEPT ![c] = NoReply],
         UNCHANGED <<op, effects>>
  PROVE  IInv'
<1> USE DEF Resend, CountAttempt, IInv
<1>0. /\ attempt'[c] = attempt[c] + 1 /\ attempt'[c] \in Nat
      /\ MaxRetries[c] \in Nat /\ attempt'[c] <= MaxRetries[c]
  <2>1. MaxRetries[c] \in Nat
    BY ApiAssumption
  <2>2. attempt[c] \in Nat /\ attempt[c] < MaxRetries[c]
    BY DEF TypeOK, MayRetry
  <2>3. attempt'[c] = attempt[c] + 1
    BY DEF TypeOK
  <2> QED BY <2>1, <2>2, <2>3
<1>1. TypeOK'
  <2>1. \A d \in Calls : attempt'[d] <= MaxRetries[d]
    BY <1>0 DEF TypeOK
  <2>2. inflight' \subseteq Attempts
    BY <1>0 DEF TypeOK, Attempts, Attempt
  <2>3. NoReply \in [code : Codes \cup {NoAnswer}, body : {Good, Garbled, Odd, Endless}]
    BY DEF NoReply, Garbled
  <2> QED BY <2>1, <2>2, <2>3 DEF TypeOK
<1>2. Undecided' /\ Unsent' /\ Numbered'
  BY <1>0 DEF TypeOK, Undecided, Unsent, Numbered, Attempt
<1>3. ReplyIsAwaited'
  BY DEF TypeOK, ReplyIsAwaited, Attempt
<1>4. ReplyIsTrue' /\ ResultHasEffect'
  <2>1. \A d \in Calls : HasEffect(d)' = HasEffect(d)
    BY DEF HasEffect, EffectsOf, SameKey
  <2>2. NoReply.code \notin {200, 202}
    BY DEF NoReply, NoAnswer
  <2>3. \A d \in Calls : reply'[d] = IF d = c THEN NoReply ELSE reply[d]
    BY DEF TypeOK
  <2>4. ReplyIsTrue'
    BY <2>1, <2>2, <2>3 DEF ReplyIsTrue
  <2>5. ResultHasEffect'
    BY <2>1 DEF ResultHasEffect, HasEffect
  <2> QED BY <2>4, <2>5
<1>5. LateIsUnanswered'
  BY DEF TypeOK, LateIsUnanswered, Attempt, Attempts
<1>6. EffectIsKnown'
  <2> SUFFICES ASSUME NEW d \in Calls, EffectsOf(d) # {}  PROVE  Known(d)'
    BY DEF EffectIsKnown, EffectsOf
  <2>1. CASE d # c
    BY <2>1 DEF TypeOK, EffectIsKnown, Known, InDoubt
  <2>2. CASE d = c
    <3>1. outcome[c].kind = "none"
      BY OutcomeKinds DEF Undecided
    <3>2. InDoubt(c) \/ reply[c].code \in {200, 202} \/ reply[c].code >= 500
      BY <2>2, <3>1 DEF EffectIsKnown, Known
    <3>3. seen'[c] = seen[c] \cup {code}
      BY DEF TypeOK
    <3> QED BY <2>2, <3>2, <3>3 DEF Known, InDoubt
  <2> QED BY <2>1, <2>2
<1>7. RepeatIsInDoubt'
  BY DEF TypeOK, RepeatIsInDoubt, InDoubt, EffectsOf
<1> QED BY <1>1, <1>2, <1>3, <1>4, <1>5, <1>6, <1>7

\* Ending with an answer, or without one after the last attempt.
LEMMA EndWaitKeeps ==
  ASSUME IInv, NEW c \in Calls, NEW code \in Codes \cup {NoAnswer},
         NEW o \in Ends, End(c, o),
         pc[c] = "wait",
         o = Returned /\ op[c] # "lookup" => HasEffect(c),
         code # NoAnswer => Attempt(c, attempt[c]) \notin inflight,
         o.kind = "refused" => code = reply[c].code /\ code \notin {200, 202},
         seen' = [seen EXCEPT ![c] = @ \cup {code}],
         reply' = [reply EXCEPT ![c] = NoReply],
         UNCHANGED <<op, attempt, inflight, effects>>
  PROVE  IInv'
<1> USE DEF End, IInv
<1>1. TypeOK'
  <2>1. NoReply \in [code : Codes \cup {NoAnswer}, body : {Good, Garbled, Odd, Endless}]
    BY DEF NoReply, Garbled
  <2> QED BY <2>1 DEF TypeOK, Ends
<1>2. Undecided' /\ Unsent' /\ Numbered'
  BY DEF TypeOK, Undecided, Unsent, Numbered
<1>3. ReplyIsAwaited'
  BY DEF TypeOK, ReplyIsAwaited, NoReply
<1>4. ReplyIsTrue' /\ ResultHasEffect'
  <2>1. \A d \in Calls : HasEffect(d)' = HasEffect(d)
    BY DEF HasEffect, EffectsOf, SameKey
  <2>2. NoReply.code \notin {200, 202}
    BY DEF NoReply, NoAnswer
  <2>3. \A d \in Calls : reply'[d] = IF d = c THEN NoReply ELSE reply[d]
    BY DEF TypeOK
  <2>4. \A d \in Calls : outcome'[d] = IF d = c THEN o ELSE outcome[d]
    BY DEF TypeOK
  <2>5. ReplyIsTrue'
    BY <2>1, <2>2, <2>3 DEF ReplyIsTrue
  <2>6. ResultHasEffect'
    BY <2>1, <2>4 DEF ResultHasEffect, HasEffect
  <2> QED BY <2>5, <2>6
<1>5. LateIsUnanswered'
  BY DEF TypeOK, LateIsUnanswered, Attempt, Attempts
<1>6. EffectIsKnown'
  <2> SUFFICES ASSUME NEW d \in Calls, EffectsOf(d) # {}  PROVE  Known(d)'
    BY DEF EffectIsKnown, EffectsOf
  <2>1. CASE d # c
    BY <2>1 DEF TypeOK, EffectIsKnown, Known, InDoubt
  <2>2. CASE d = c
    <3>1. outcome[c].kind = "none" /\ outcome'[c] = o /\ seen'[c] = seen[c] \cup {code}
      BY OutcomeKinds DEF TypeOK, Undecided
    <3>2. InDoubt(c) \/ reply[c].code \in {200, 202} \/ reply[c].code >= 500
      BY <2>2, <3>1 DEF EffectIsKnown, Known
    <3>3. o.kind \in {"result", "raised", "refused"}
      BY OutcomeKinds DEF Ends
    <3> QED BY <2>2, <3>1, <3>2, <3>3 DEF Known, InDoubt
  <2> QED BY <2>1, <2>2
<1>7. RepeatIsInDoubt'
  BY DEF TypeOK, RepeatIsInDoubt, InDoubt, EffectsOf
<1> QED BY <1>1, <1>2, <1>3, <1>4, <1>5, <1>6, <1>7

\* An attempt goes unanswered.
LEMMA FaultKeeps ==
  ASSUME IInv, NEW c \in Calls, Fault(c)
  PROVE  IInv'
<1>1. CASE MayRetry(c) /\ Resend(c)
  BY <1>1, ResendKeeps DEF Fault
<1>2. CASE ~MayRetry(c) /\ End(c, Raised) /\ UNCHANGED <<attempt, inflight>>
  <2>1. Raised \in Ends /\ Raised # Returned /\ Raised.kind # "refused"
    BY OutcomeKinds DEF Ends
  <2> QED BY <1>2, <2>1, EndWaitKeeps DEF Fault
<1> QED BY <1>1, <1>2 DEF Fault

\* What Conclusion makes of an answer.
LEMMA ConclusionIsTrue ==
  ASSUME IInv, NEW c \in Calls, reply[c] # NoReply
  PROVE  /\ Conclusion(reply[c]) \in Ends
         /\ Conclusion(reply[c]) = Returned => reply[c].code \in {200, 202}
         /\ Conclusion(reply[c]).kind = "refused" => reply[c].code >= 400
<1> DEFINE r == reply[c]
<1>1. r.code \in Codes /\ (r.code < 400 => r.code \in {200, 202})
  BY DEF IInv, TypeOK, ReplyIsAwaited, Codes
<1>2. r.code >= 400 => r.code \in ErrorCodes
  BY <1>1 DEF ErrorCodes
<1>3. CASE r.code >= 400
  BY <1>2, <1>3, OutcomeKinds DEF Conclusion, Ends
<1>4. CASE ~(r.code >= 400)
  BY <1>1, <1>4, OutcomeKinds DEF Conclusion, Ends, Codes
<1> QED BY <1>3, <1>4

\* An answer is taken: sent again on, or concluded from.
LEMMA ReceiveKeeps ==
  ASSUME IInv, NEW c \in Calls, Receive(c)
  PROVE  IInv'
<1> DEFINE r == reply[c]
<1>0. /\ r # NoReply /\ pc[c] = "wait" /\ r.code \in Codes
      /\ Attempt(c, attempt[c]) \notin inflight
      /\ seen' = [seen EXCEPT ![c] = @ \cup {r.code}]
      /\ reply' = [reply EXCEPT ![c] = NoReply] /\ UNCHANGED <<op, effects>>
  BY DEF Receive, IInv, TypeOK, ReplyIsAwaited
<1>1. CASE End(c, Raised) /\ UNCHANGED <<attempt, inflight>>
  <2>1. Raised \in Ends /\ Raised # Returned /\ Raised.kind # "refused"
    BY OutcomeKinds DEF Ends
  <2> HIDE DEF r
  <2> QED BY <1>0, <1>1, <2>1, EndWaitKeeps
<1>2. CASE IsResent(c, r) /\ Resend(c)
  <2>1. (r.code = 429 \/ r.code >= 500) /\ MayRetry(c)
    BY <1>2 DEF IsResent, IsRetriableStatus
  <2>2. r.code \in {200, 202} \/ r.code >= 500 => r.code >= 500
    BY <2>1
  <2>3. PICK code \in Codes : code = r.code
    BY <1>0
  <2>4. /\ code # NoAnswer => Attempt(c, attempt[c]) \notin inflight
        /\ reply[c].code \in {200, 202} \/ reply[c].code >= 500 => code = NoAnswer \/ code >= 500
        /\ seen' = [seen EXCEPT ![c] = @ \cup {code}]
    BY <1>0, <2>2, <2>3
  <2> QED BY <1>0, <1>2, <2>1, <2>4, ResendKeeps
<1>3. CASE End(c, Conclusion(r)) /\ UNCHANGED <<attempt, inflight>>
  <2>1. Conclusion(r) \in Ends /\ (Conclusion(r).kind = "refused" => r.code \notin {200, 202})
    BY <1>0, ConclusionIsTrue
  <2>2. Conclusion(r) = Returned /\ op[c] # "lookup" => HasEffect(c)
    BY <1>0, ConclusionIsTrue DEF IInv, ReplyIsTrue
  <2> QED BY <1>0, <1>3, <2>1, <2>2, EndWaitKeeps
<1> QED BY <1>1, <1>2, <1>3 DEF Receive

----------------------------------------------------------------------------
(* The service. *)

\* An attempt still on its way to the service has no answer yet.
LEMMA UnservedIsUnanswered ==
  ASSUME IInv, NEW m \in inflight, pc[m.call] = "wait", attempt[m.call] = m.attempt
  PROVE  reply[m.call] = NoReply
<1>1. m \in Attempts /\ m.call \in Calls
  BY DEF IInv, TypeOK, Attempts
<1>2. m = Attempt(m.call, m.attempt)
  BY <1>1 DEF Attempts, Attempt
<1> QED BY <1>1, <1>2 DEF IInv, ReplyIsAwaited

\* An answer, alone or with an effect of the attempt: a success answer only when
\* something was done, a new effect only with 200, with a 5xx, or too late.
LEMMA AnswerKeeps ==
  ASSUME IInv, NEW m \in inflight, inflight' = inflight \ {m},
         NEW code \in Codes, NEW body \in {Good, Garbled, Odd, Endless},
         Answer(m, code, body),
         NEW done \in {effects, effects \cup {m}}, effects' = done,
         code \in {200, 202} /\ op[m.call] # "lookup" => HasEffect(m.call)',
         done # effects => code \in {200, 202} \/ code >= 500,
         UNCHANGED <<op, pc, attempt, outcome, seen>>
  PROVE  IInv'
<1> DEFINE c == m.call
<1> USE DEF IInv
<1>1. /\ m \in Attempts /\ c \in Calls
      /\ [code |-> code, body |-> body] \in
           [code : Codes \cup {NoAnswer}, body : {Good, Garbled, Odd, Endless}]
  BY DEF TypeOK, Attempts
<1>2. TypeOK'
  BY <1>1 DEF TypeOK, Answer
<1>3. effects \subseteq effects' /\ effects' \subseteq effects \cup {m}
  OBVIOUS
<1>4. Undecided' /\ LateIsUnanswered'
  BY DEF Undecided, LateIsUnanswered
<1>5. Unsent' /\ Numbered'
  BY <1>3 DEF Unsent, Numbered
<1>6. ReplyIsAwaited'
  <2>1. Attempt(c, m.attempt) = m /\ code # NoAnswer
    BY <1>1 DEF Attempts, Attempt, Codes, NoAnswer
  <2> QED BY <1>1, <2>1 DEF TypeOK, ReplyIsAwaited, Answer, NoReply
<1>7. \A d \in Calls : HasEffect(d) => HasEffect(d)'
  BY <1>3 DEF HasEffect, EffectsOf, SameKey
<1>8. ReplyIsTrue'
  <2> SUFFICES ASSUME NEW d \in Calls, reply'[d].code \in {200, 202}, op[d] # "lookup"
               PROVE  HasEffect(d)'
    BY DEF ReplyIsTrue
  <2>1. CASE reply'[d] = reply[d]
    BY <1>7, <2>1 DEF ReplyIsTrue
  <2>2. CASE reply'[d] # reply[d]
    <3>1. d = m.call /\ reply'[d].code = code
      BY <1>1, <2>2 DEF TypeOK, Answer
    <3>2. code \in {200, 202} /\ op[m.call] # "lookup"
      BY <3>1
    <3>3. HasEffect(m.call)'
      BY <3>2
    <3>4. m.call' = m.call
      OBVIOUS
    <3> QED BY <3>1, <3>3, <3>4
  <2> QED BY <2>1, <2>2
<1>9. ResultHasEffect'
  BY <1>7 DEF ResultHasEffect, HasEffect
<1>10. \A d \in Calls \ {c} : EffectsOf(d)' = EffectsOf(d)
  BY <1>3 DEF EffectsOf
<1>11. \A d \in Calls \ {c} : reply'[d] = reply[d]
  BY DEF Answer, TypeOK
<1>12. CASE InDoubt(c)
  <2>1. InDoubt(c)' /\ \A d \in Calls : InDoubt(d)' = InDoubt(d)
    BY <1>12 DEF InDoubt
  <2>2. EffectIsKnown'
    BY <1>10, <1>11, <1>12, <2>1 DEF EffectIsKnown, Known
  <2>3. RepeatIsInDoubt'
    BY <1>10, <1>12, <2>1 DEF RepeatIsInDoubt
  <2> QED BY <1>2, <1>4, <1>5, <1>6, <1>8, <1>9, <2>2, <2>3
<1>13. CASE ~InDoubt(c)
  <2>1. pc[c] = "wait" /\ m.attempt = attempt[c]
    BY <1>1, <1>13 DEF LateIsUnanswered, InDoubt
  <2>2. reply[c].code = NoAnswer
    BY <2>1, UnservedIsUnanswered DEF NoReply
  <2>3. outcome[c].kind = "none"
    BY <1>1, <2>1, OutcomeKinds DEF Undecided
  <2>4. EffectsOf(c) = {}
    BY <1>1, <1>13, <2>2, <2>3 DEF EffectIsKnown, Known, NoAnswer
  <2>5. EffectsOf(c)' \subseteq {m} /\ (done = effects => EffectsOf(c)' = {})
    BY <1>3, <2>4 DEF EffectsOf
  <2>6. reply'[c].code = code
    BY <1>1, <2>1 DEF Answer, TypeOK
  <2>7. EffectIsKnown'
    <3> SUFFICES ASSUME NEW d \in Calls, EffectsOf(d)' # {}  PROVE Known(d)'
      BY DEF EffectIsKnown
    <3>1. CASE d = c
      BY <2>1, <2>5, <2>6, <3>1 DEF Known
    <3>2. CASE d # c
      BY <1>10, <1>11, <3>2 DEF EffectIsKnown, Known, InDoubt
    <3> QED BY <3>1, <3>2
  <2>8. RepeatIsInDoubt'
    BY <1>10, <2>5 DEF RepeatIsInDoubt, InDoubt
  <2> QED BY <1>2, <1>4, <1>5, <1>6, <1>8, <1>9, <2>7, <2>8
<1> QED BY <1>12, <1>13

\* The service turns an attempt away, acts on it, or answers it without acting.
LEMMA ServiceKeeps ==
  ASSUME IInv, NEW m \in inflight, Service(m)
  PROVE  IInv'
<1>0. /\ inflight' = inflight \ {m} /\ UNCHANGED <<op, pc, attempt, outcome, seen>>
      /\ {200, 404, 429, 503} \subseteq Codes
      /\ m.call \in Calls /\ m.call' = m.call
  BY DEF Service, Codes, IInv, TypeOK, Attempts
<1>1. CASE TurnAway(m)
  BY <1>0, <1>1, AnswerKeeps DEF TurnAway
<1>2. CASE Act(m)
  <2>1. m \in EffectsOf(m.call)'
    BY <1>2 DEF Act, EffectsOf
  <2>2. HasEffect(m.call)'
    BY <2>1 DEF HasEffect
  <2>3. PICK code \in {200, 503}, body \in {Good, Garbled, Odd} : Answer(m, code, body)
    BY <1>2 DEF Act
  <2>4. effects' = effects \cup {m} /\ (code \in {200, 202} \/ code >= 500)
    BY <1>2, <2>3 DEF Act
  <2> QED BY <1>0, <2>2, <2>3, <2>4, AnswerKeeps
<1>3. CASE Report(m)
  <2>1. op[m.call] # "lookup" => HasEffect(m.call)'
    BY <1>3, <1>0 DEF Report, Repeats, HasEffect, SameKey, Attempt
  <2> QED BY <1>0, <1>3, <2>1, AnswerKeeps DEF Report
<1> QED BY <1>1, <1>2, <1>3 DEF Service

----------------------------------------------------------------------------
(* The theorems. *)

\* Nothing changes: the invariant stays.
LEMMA StutterKeeps == IInv /\ UNCHANGED vars => IInv'
<1> SUFFICES ASSUME IInv, UNCHANGED vars  PROVE IInv'
  OBVIOUS
<1> USE DEF IInv, vars
<1>1. TypeOK'
  BY DEF TypeOK
<1>2. Undecided' /\ Unsent' /\ Numbered' /\ ReplyIsAwaited' /\ LateIsUnanswered'
  BY DEF Undecided, Unsent, Numbered, ReplyIsAwaited, LateIsUnanswered
<1>3. \A c \in Calls : EffectsOf(c)' = EffectsOf(c) /\ HasEffect(c)' = HasEffect(c)
  BY DEF EffectsOf, HasEffect, SameKey
<1>4. ReplyIsTrue' /\ ResultHasEffect'
  BY <1>3 DEF ReplyIsTrue, ResultHasEffect, HasEffect
<1>5. EffectIsKnown' /\ RepeatIsInDoubt'
  BY <1>3 DEF EffectIsKnown, Known, InDoubt, RepeatIsInDoubt
<1> QED BY <1>1, <1>2, <1>4, <1>5

\* The invariant is inductive.
THEOREM NextKeeps == IInv /\ [Next]_vars => IInv'
<1> SUFFICES ASSUME IInv, [Next]_vars  PROVE IInv'
  OBVIOUS
<1>1. CASE UNCHANGED vars
  BY <1>1, StutterKeeps
<1>2. ASSUME NEW c \in Calls, Step(c)  PROVE IInv'
  BY <1>2, BeginKeeps, AuthoriseKeeps, ReceiveKeeps, FaultKeeps DEF Step
<1>3. ASSUME NEW m \in inflight, Service(m)  PROVE IInv'
  BY <1>3, ServiceKeeps
<1> QED BY <1>1, <1>2, <1>3 DEF Next

\* IInv holds in every reachable state.
THEOREM Invariance == Spec => []IInv
  BY InitInvariant, NextKeeps, PTL DEF Spec

\* The variables keep their types, and no call is retried beyond maxRetries.
THEOREM TypeCorrect == Spec => []TypeOK
  BY Invariance, PTL DEF IInv

\* Only a call that lost track of an attempt takes effect twice.
THEOREM RepeatsAreInDoubt == Spec => []RepeatIsInDoubt
  BY Invariance, PTL DEF IInv

\* A result is of something done for the call, or under its key.
THEOREM ResultsHaveEffects == Spec => []ResultHasEffect
  BY Invariance, PTL DEF IInv

\* A refusal hides an effect only when an attempt was in doubt.
THEOREM RefusalsAreSafe == Spec => []RefusalMeansNoEffect
<1>1. IInv => RefusalMeansNoEffect
  <2> SUFFICES ASSUME IInv, NEW c \in Calls, outcome[c].kind = "refused", EffectsOf(c) # {}
               PROVE  InDoubt(c)
    BY DEF RefusalMeansNoEffect
  <2>1. pc[c] = "done"
    BY OutcomeKinds DEF IInv, Undecided
  <2> QED BY <2>1 DEF IInv, EffectIsKnown, Known
<1> QED BY <1>1, Invariance, PTL

----------------------------------------------------------------------------
(* MerchantApi implements RetriedRequest, under the mapping of Promise.     *)

\* A step of a call leaves the others and the service alone, and what it has
\* lost track of stays lost.
LEMMA StepIsLocal ==
  ASSUME IInv, NEW c \in Calls, Step(c)
  PROVE  /\ outcome[c] = NoOutcome
         /\ \A d \in Calls \ {c} : outcome'[d] = outcome[d] /\ seen'[d] = seen[d]
         /\ seen[c] \subseteq seen'[c]
         /\ UNCHANGED effects
<1>1. pc[c] # "done" /\ UNCHANGED effects
  BY DEF Step, Begin, Authorise, Receive, Fault
<1>2. outcome[c] = NoOutcome
  BY <1>1 DEF IInv, Undecided
<1>3. outcome' = outcome \/ \E o : End(c, o)
  BY DEF Step, Begin, Authorise, Receive, Fault, Resend
<1>4. \A d \in Calls \ {c} : outcome'[d] = outcome[d]
  BY <1>3 DEF End, IInv, TypeOK
<1>5. seen' = seen \/ \E code : seen' = [seen EXCEPT ![c] = @ \cup {code}]
  BY DEF Step, Begin, Authorise, Receive, Fault
<1>6. seen[c] \subseteq seen'[c] /\ \A d \in Calls \ {c} : seen'[d] = seen[d]
  BY <1>5 DEF IInv, TypeOK
<1> QED BY <1>1, <1>2, <1>4, <1>6

\* A step of a call is an answer, or the lack of one, and perhaps its end.
LEMMA StepProceeds ==
  ASSUME IInv, NEW c \in Calls, Step(c)
  PROVE  Promise!Proceed(c)
<1> DEFINE verdict == [d \in Calls |-> Verdict(outcome[d])]
           doubt == [d \in Calls |-> InDoubt(d)]
           done == [d \in Calls |-> {e.attempt : e \in EffectsOf(d)}]
           lost == InDoubt(c)'
           v == Verdict(outcome'[c])
<1>1. IInv'
  BY BeginKeeps, AuthoriseKeeps, ReceiveKeeps, FaultKeeps DEF Step
<1>2. verdict[c] = "open"
  BY StepIsLocal, OutcomeKinds DEF Verdict
<1>3. lost \in BOOLEAN /\ v \in Promise!Verdicts
  BY DEF InDoubt, Verdict, Promise!Verdicts
<1>4. (InDoubt(c) => lost) /\ \A d \in Calls \ {c} : InDoubt(d)' = InDoubt(d)
  BY StepIsLocal DEF InDoubt
<1>5. doubt' = [doubt EXCEPT ![c] = @ \/ lost]
  <2>1. (InDoubt(c) \/ lost) = lost
    BY <1>3, <1>4 DEF InDoubt
  <2>2. \A d \in Calls : InDoubt(d)' = IF d = c THEN lost ELSE InDoubt(d)
    BY <1>4
  <2> QED BY <2>1, <2>2
<1>6. verdict' = [verdict EXCEPT ![c] = v]
  BY StepIsLocal
<1>7. done' = done
  BY StepIsLocal DEF EffectsOf
<1>8. v = "refused" => done[c] = {} \/ doubt[c] \/ lost
  <2> SUFFICES ASSUME v = "refused", EffectsOf(c) # {}  PROVE lost
    OBVIOUS
  <2>1. outcome'[c].kind = "refused"
    BY DEF Verdict
  <2>2. pc'[c] = "done"
    BY <1>1, <2>1, OutcomeKinds DEF IInv, Undecided
  <2>3. EffectsOf(c)' # {}
    BY StepIsLocal DEF EffectsOf
  <2> QED BY <1>1, <2>1, <2>2, <2>3 DEF IInv, EffectIsKnown, Known
<1> HIDE DEF verdict, doubt, done, lost, v
<1>9. \E l \in BOOLEAN, w \in Promise!Verdicts :
        /\ doubt' = [doubt EXCEPT ![c] = @ \/ l]
        /\ w = "refused" => done[c] = {} \/ doubt[c] \/ l
        /\ verdict' = [verdict EXCEPT ![c] = w]
  BY <1>3, <1>5, <1>6, <1>8
<1> QED BY <1>2, <1>7, <1>9 DEF Promise!Proceed, verdict, doubt, done

\* The service acts for a call that waits, or that lost track.
LEMMA ServiceActs ==
  ASSUME IInv, NEW m \in inflight, Service(m), effects' # effects
  PROVE  m.call \in Calls /\ Promise!Act(m.call)
<1> DEFINE done == [d \in Calls |-> {e.attempt : e \in EffectsOf(d)}]
<1>1. PICK c \in Calls : m.call = c
  BY DEF IInv, TypeOK, Attempts
<1>2. effects' = effects \cup {m} /\ m \notin effects
  BY DEF Service, TurnAway, Act, Report
<1>3. UNCHANGED <<outcome, seen>>
  BY DEF Service
<1>4. m = Attempt(c, m.attempt) /\ m.attempt \in AttemptNumbers
  <2>1. m.attempt \in Nat /\ m = Attempt(c, m.attempt)
    BY <1>1 DEF IInv, TypeOK, Attempts, Attempt
  <2>2. MaxRetries[c] \in Nat /\ m.attempt <= MaxRetries[c]
    BY <1>1, ApiAssumption DEF IInv, Numbered
  <2> QED BY <1>1, <2>1, <2>2 DEF AttemptNumbers
<1>5. m.attempt \notin done[c]
  <2> SUFFICES ASSUME NEW e \in EffectsOf(c), e.attempt = m.attempt  PROVE FALSE
    BY DEF EffectsOf
  <2>1. e \in Attempts /\ m \in Attempts /\ e.call = m.call
    BY <1>1 DEF EffectsOf, IInv, TypeOK
  <2>2. e = m
    BY <2>1 DEF Attempts
  <2> QED BY <1>2, <2>2 DEF EffectsOf
<1>6. \A d \in Calls : EffectsOf(d)' = IF d = c THEN EffectsOf(d) \cup {m} ELSE EffectsOf(d)
  BY <1>1, <1>2 DEF EffectsOf
<1>7. done' = [done EXCEPT ![c] = @ \cup {m.attempt}]
  BY <1>6
<1>8. InDoubt(c) \/ (outcome[c] = NoOutcome /\ done[c] = {})
  <2> SUFFICES ASSUME ~InDoubt(c)  PROVE outcome[c] = NoOutcome /\ EffectsOf(c) = {}
    OBVIOUS
  <2>1. pc[c] = "wait" /\ m.attempt = attempt[c]
    BY <1>1 DEF IInv, LateIsUnanswered, InDoubt
  <2>2. reply[c].code = NoAnswer /\ outcome[c] = NoOutcome
    BY <1>1, <2>1, UnservedIsUnanswered DEF NoReply, IInv, Undecided
  <2> QED BY <2>2, OutcomeKinds DEF IInv, EffectIsKnown, Known, NoAnswer
<1>9. Promise!MayAct(c)
  BY <1>8, OutcomeKinds DEF Promise!MayAct, Verdict
<1>10. UNCHANGED <<[d \in Calls |-> Verdict(outcome[d])], [d \in Calls |-> InDoubt(d)]>>
  BY <1>3 DEF InDoubt
<1>11. Promise!Act(c)
  BY <1>4, <1>5, <1>7, <1>9, <1>10 DEF Promise!Act
<1> QED BY <1>1, <1>11

\* The methods of the client keep what a retried request promises.
THEOREM ImplementsPromise == Spec => KeepsPromise
<1>1. Init => Promise!Init
  BY OutcomeKinds DEF Init, Promise!Init, Verdict, InDoubt, EffectsOf
<1>2. IInv /\ [Next]_vars => [Promise!Next]_(Promise!promiseVars)
  <2> SUFFICES ASSUME IInv, [Next]_vars  PROVE Promise!Next \/ UNCHANGED Promise!promiseVars
    OBVIOUS
  <2>1. CASE UNCHANGED <<outcome, seen, effects>>
    BY <2>1 DEF Promise!promiseVars, InDoubt, EffectsOf
  <2>2. ASSUME NEW c \in Calls, Step(c)  PROVE Promise!Next
    BY <2>2, StepProceeds DEF Promise!Next
  <2>3. ASSUME NEW m \in inflight, Service(m), effects' # effects  PROVE Promise!Next
    BY <2>3, ServiceActs DEF Promise!Next
  <2>4. ASSUME NEW m \in inflight, Service(m)  PROVE UNCHANGED <<outcome, seen>>
    BY <2>4 DEF Service
  <2> QED BY <2>1, <2>2, <2>3, <2>4 DEF Next, vars
<1> QED BY <1>1, <1>2, Invariance, PTL DEF Spec, KeepsPromise, Promise!Spec
=============================================================================
