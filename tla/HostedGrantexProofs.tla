------------------------ MODULE HostedGrantexProofs ------------------------
(***************************************************************************)
(* Proofs about HostedGrantex, for any calls, budget and retries.          *)
(***************************************************************************)
EXTENDS HostedGrantex, TLAPS

(***************************************************************************)
(* The inductive invariant, in named parts.                                *)
(***************************************************************************)

\* A call that has not sent its request has moved nothing.
Unsent(c) ==
  /\ attempts[c] = 0 /\ underway[c] = 0 /\ drawn[c] = 0
  /\ answer[c] = Silence

NothingIsEarly ==
  \A c \in Calls :
    /\ pc[c] \in {"ready", "getting", "building", "calling"} => Unsent(c) /\ told[c] = 0
    /\ pc[c] # "done" => outcome[c] = "none"
    /\ pc[c] = "waiting" => attempts[c] > 0
    /\ outcome[c] = "raised" => Unsent(c) \/ answer[c] = TooLarge

\* A debit takes effect by attempts the service has processed.
DrawnByAttempts ==
  \A c \in Calls : underway[c] <= attempts[c] /\ drawn[c] <= attempts[c] - underway[c]

\* A success tells of a debit that took effect.
SuccessWasDrawn ==
  \A c \in Calls :
    op[c] = "debit" /\ (IsResult(answer[c]) \/ outcome[c] = "result") => drawn[c] > 0

\* A number that was answered, and what is there now, were there since the call
\* was sent.
NumbersWereThere ==
  \A c \in Calls :
    /\ attempts[c] > 0 => remaining <= most[c]
    /\ answer[c].kind = "number" => answer[c].number <= most[c]
    /\ told[c] <= most[c]

\* The first client is kept, and whoever builds began before it.
ClientIsKept ==
  /\ built # {} => client # NoClient
  /\ late # {} => built # {}
  /\ \A c \in Calls : pc[c] = "building" \/ c \in built => c \notin late
  /\ \A c \in Calls : pc[c] = "ready" => c \notin built

IInv ==
  /\ TypeOK
  /\ NothingIsEarly
  /\ DrawnByAttempts
  /\ SuccessWasDrawn
  /\ NumbersWereThere
  /\ ClientIsKept

----------------------------------------------------------------------------

\* The retries the package is given are a number.
LEMMA RetriesIsNat == EffectiveRetries \in Nat
  BY HostedAssumption DEF EffectiveRetries, Unset

\* So are the amounts.
LEMMA AmountIsNat ==
  ASSUME TypeOK, NEW c \in Calls
  PROVE  amount[c] \in Nat
<1>1. amount[c] \in Amounts \/ amount[c] = 0
  BY DEF TypeOK
<1>2. \A n \in Amounts : n \in Nat
  BY HostedAssumption
<1> QED BY <1>1, <1>2

\* The initial states.
LEMMA InitInvariant == Init => IInv
  BY HostedAssumption, RetriesIsNat
  DEF Init, IInv, TypeOK, NothingIsEarly, Unsent, DrawnByAttempts, SuccessWasDrawn, IsResult,
      NumbersWereThere, ClientIsKept, Silence

----------------------------------------------------------------------------
(* The SDK. *)

\* A method is called: it goes on, or is refused at once.
LEMMA BeginKeeps ==
  ASSUME IInv, NEW c \in Calls, Begin(c)
  PROVE  IInv'
<1> USE DEF Begin, IInv, clientVars, sentVars, serviceVars
<1>1. PICK method \in Operations, n \in Amounts, g \in BOOLEAN :
        /\ op' = [op EXCEPT ![c] = method]
        /\ amount' = [amount EXCEPT ![c] = IF method = "debit" THEN n ELSE 0]
        /\ given' = [given EXCEPT ![c] = g]
        /\ Goto(c, "getting") \/ End(c, "raised", 0)
  <2>1. PICK method \in Methods[c], n \in Amounts, hosted \in BOOLEAN, named \in BOOLEAN :
          /\ op' = [op EXCEPT ![c] = method]
          /\ amount' = [amount EXCEPT ![c] = IF method = "debit" THEN n ELSE 0]
          /\ given' = [given EXCEPT ![c] = named \/ method \in Lookups]
          /\ Goto(c, "getting") \/ End(c, "raised", 0)
    OBVIOUS
  <2>2. method \in Operations
    BY HostedAssumption
  <2>3. (named \/ method \in Lookups) \in BOOLEAN
    OBVIOUS
  <2> QED BY <2>1, <2>2, <2>3
<1>2. PICK l \in {late, late \cup {c}} : late' = l /\ (l # late => built # {})
  OBVIOUS
<1>3. UNCHANGED <<client, built, attempts, underway, answer, remaining, drawn, most>>
  OBVIOUS
<1>4. Unsent(c) /\ outcome[c] = "none" /\ c \notin built
  BY DEF NothingIsEarly, ClientIsKept
<1>5. CASE Goto(c, "getting")
  BY <1>1, <1>2, <1>3, <1>4, <1>5
  DEF Goto, TypeOK, NothingIsEarly, Unsent, DrawnByAttempts, SuccessWasDrawn, IsResult,
      NumbersWereThere, ClientIsKept, Silence
<1>6. CASE End(c, "raised", 0)
  BY <1>1, <1>2, <1>3, <1>4, <1>6
  DEF End, TypeOK, NothingIsEarly, Unsent, DrawnByAttempts, SuccessWasDrawn, IsResult,
      NumbersWereThere, ClientIsKept, Silence
<1> QED BY <1>1, <1>5, <1>6

\* A call gets the client, or goes to build it.
LEMMA GetClientKeeps ==
  ASSUME IInv, NEW c \in Calls, GetClient(c)
  PROVE  IInv'
<1> USE DEF GetClient, IInv, clientVars, sentVars, serviceVars, Goto
<1>1. TypeOK'
  BY DEF TypeOK
<1>2. NothingIsEarly' /\ DrawnByAttempts' /\ SuccessWasDrawn' /\ NumbersWereThere'
  BY DEF TypeOK, NothingIsEarly, Unsent, DrawnByAttempts, SuccessWasDrawn, NumbersWereThere
<1>3. ClientIsKept'
  BY DEF TypeOK, ClientIsKept
<1> QED BY <1>1, <1>2, <1>3

\* A client is built and kept.
LEMMA BuildKeeps ==
  ASSUME IInv, NEW c \in Calls, Build(c)
  PROVE  IInv'
<1> USE DEF Build, StoreClient, IInv, sentVars, serviceVars, Goto
<1>1. TypeOK'
  BY DEF TypeOK
<1>2. NothingIsEarly' /\ DrawnByAttempts' /\ SuccessWasDrawn' /\ NumbersWereThere'
  BY DEF TypeOK, NothingIsEarly, Unsent, DrawnByAttempts, SuccessWasDrawn, NumbersWereThere
<1>3. ClientIsKept'
  BY HostedAssumption DEF TypeOK, ClientIsKept
<1> QED BY <1>1, <1>2, <1>3

\* A call that ends with an exception: raised only before it sent anything.
LEMMA FailKeeps ==
  ASSUME IInv, NEW c \in Calls, pc[c] # "ready", pc[c] # "done",
         NEW o \in {"raised", "hosted_error"}, End(c, o, 0),
         o = "raised" => Unsent(c) \/ answer[c] = TooLarge,
         UNCHANGED <<op, amount, given, late, clientVars, sentVars, serviceVars>>
  PROVE  IInv'
<1> USE DEF End, IInv, clientVars, sentVars, serviceVars
<1>1. TypeOK'
  BY HostedAssumption DEF TypeOK
<1>2. NothingIsEarly'
  BY DEF TypeOK, NothingIsEarly, Unsent
<1>3. DrawnByAttempts' /\ SuccessWasDrawn' /\ NumbersWereThere'
  BY DEF TypeOK, DrawnByAttempts, SuccessWasDrawn, NumbersWereThere
<1>4. ClientIsKept'
  BY DEF TypeOK, ClientIsKept
<1> QED BY <1>1, <1>2, <1>3, <1>4

\* No client, or no parameters: nothing was sent.
LEMMA EarlyFailuresKeep ==
  ASSUME IInv, NEW c \in Calls, BuildFails(c) \/ RefuseParams(c)
  PROVE  IInv'
BY FailKeeps DEF BuildFails, RefuseParams, BuildError, CallError, IInv, NothingIsEarly

\* The first attempt goes out; the budget is looked at from now on.
LEMMA SendKeeps ==
  ASSUME IInv, NEW c \in Calls, Send(c)
  PROVE  IInv'
<1> USE DEF Send, IInv, clientVars, Goto
<1>1. Unsent(c) /\ outcome[c] = "none" /\ told[c] = 0
  BY DEF NothingIsEarly
<1>2. TypeOK'
  BY RetriesIsNat, <1>1 DEF TypeOK, Unsent
<1>3. NothingIsEarly'
  BY <1>1 DEF TypeOK, NothingIsEarly, Unsent
<1>4. DrawnByAttempts' /\ SuccessWasDrawn'
  BY <1>1 DEF TypeOK, DrawnByAttempts, SuccessWasDrawn, Unsent
<1>5. NumbersWereThere'
  <2>1. most' = [most EXCEPT ![c] = remaining] /\ remaining' = remaining /\ told' = told
        /\ answer' = answer /\ attempts' = [attempts EXCEPT ![c] = 1]
    OBVIOUS
  <2>2. answer[c].kind # "number" /\ remaining \in Nat
    BY <1>1, HostedAssumption DEF Unsent, Silence, TypeOK
  <2> HIDE DEF Send
  <2> QED BY <1>1, <2>1, <2>2 DEF TypeOK, NumbersWereThere
<1>6. ClientIsKept'
  BY DEF TypeOK, ClientIsKept
<1> QED BY <1>2, <1>3, <1>4, <1>5, <1>6

\* A result is returned, or the service's error as a HostedGrantexError.
LEMMA ReturnKeeps ==
  ASSUME IInv, NEW c \in Calls, Return(c)
  PROVE  IInv'
<1>1. CASE answer[c] = Problem /\ End(c, CallError, 0)
  BY <1>1, FailKeeps DEF Return, CallError
<1>3. CASE answer[c] = TooLarge /\ End(c, "raised", 0)
  BY <1>3, FailKeeps DEF Return
<1>2. CASE IsResult(answer[c]) /\ End(c, "result", NumberRead(answer[c]))
  <2> USE <1>2 DEF Return, End, IInv, clientVars, sentVars, serviceVars
  <2>1. NumberRead(answer[c]) \in 0..Budget /\ NumberRead(answer[c]) <= most[c]
    BY HostedAssumption DEF NumberRead, TypeOK, NumbersWereThere
  <2> HIDE DEF NumberRead
  <2>2. TypeOK'
    BY <2>1 DEF TypeOK
  <2>3. NothingIsEarly' /\ DrawnByAttempts'
    BY DEF TypeOK, NothingIsEarly, Unsent, DrawnByAttempts
  <2>4. SuccessWasDrawn'
    BY DEF TypeOK, SuccessWasDrawn
  <2>5. NumbersWereThere' /\ ClientIsKept'
    BY <2>1 DEF TypeOK, NumbersWereThere, ClientIsKept
  <2> QED BY <2>2, <2>3, <2>4, <2>5
<1> QED BY <1>1, <1>2, <1>3 DEF Return

----------------------------------------------------------------------------
(* The package and the service. *)

\* Another attempt, or the end of the call without an answer.
LEMMA TimeoutKeeps ==
  ASSUME IInv, NEW c \in Calls, Timeout(c)
  PROVE  IInv'
<1>1. CASE attempts[c] > EffectiveRetries
  BY <1>1, FailKeeps, RetriesIsNat
  DEF Timeout, CallError, clientVars, sentVars, serviceVars, IInv, TypeOK
<1>2. CASE attempts[c] <= EffectiveRetries
  <2> USE <1>2, RetriesIsNat DEF Timeout, SendAgain, IInv, clientVars, serviceVars
  <2>1. /\ attempts[c] \in Nat /\ underway[c] \in Nat
        /\ attempts' = [attempts EXCEPT ![c] = attempts[c] + 1]
        /\ underway' = [underway EXCEPT ![c] = underway[c] + 1]
        /\ UNCHANGED <<op, amount, given, late, pc, outcome, told, client, built, answer,
                       remaining, drawn, most>>
    BY DEF TypeOK
  <2>2. TypeOK'
    <3>1. attempts[c] + 1 \in 0..(EffectiveRetries + 1)
      BY <2>1
    <3>2. underway[c] + 1 \in 0..(EffectiveRetries + 1)
      BY <2>1 DEF DrawnByAttempts
    <3> QED BY <2>1, <3>1, <3>2 DEF TypeOK
  <2>3. NothingIsEarly' /\ DrawnByAttempts'
    BY <2>1 DEF TypeOK, NothingIsEarly, Unsent, DrawnByAttempts
  <2>4. attempts[c] > 0
    BY DEF NothingIsEarly
  <2>5. NumbersWereThere'
    BY <2>1, <2>4 DEF TypeOK, NumbersWereThere
  <2>6. SuccessWasDrawn' /\ ClientIsKept'
    BY <2>1 DEF TypeOK, SuccessWasDrawn, ClientIsKept
  <2> QED BY <2>2, <2>3, <2>5, <2>6
<1> QED BY <1>1, <1>2, RetriesIsNat DEF IInv, TypeOK

\* An answer reaches a call that waits for one, or changes nothing.
LEMMA ReplyIs ==
  ASSUME IInv, NEW c \in Calls, NEW S, Reply(c, S)
  PROVE  \E a \in S \cup {Silence, answer[c]} :
           answer' = [answer EXCEPT ![c] = a] /\ (a # answer[c] => pc[c] = "waiting")
<1>1. answer = [answer EXCEPT ![c] = answer[c]]
  BY DEF IInv, TypeOK
<1>2. CASE pc[c] = "waiting" /\ answer[c] = Silence
  <2>1. PICK a \in S \cup {Silence} : answer' = [answer EXCEPT ![c] = a]
    BY <1>2 DEF Reply
  <2> QED BY <1>2, <2>1
<1>3. CASE ~(pc[c] = "waiting" /\ answer[c] = Silence)
  <2>1. answer' = answer
    BY <1>3 DEF Reply
  <2> WITNESS answer[c] \in S \cup {Silence, answer[c]}
  <2> QED BY <1>1, <2>1
<1> QED BY <1>2, <1>3

AnswerType == [kind : {"none", "error", "incomplete", "too_large", "number"}, number : 0..Budget]

\* A service step, told by what it moves: the budget and the most it held, what a
\* call drew, and the answer `a` the call may get.
Moves(c, a) ==
  /\ a \in AnswerType
  /\ answer' = [answer EXCEPT ![c] = a]
  /\ a # answer[c] => pc[c] = "waiting"
  /\ a.kind = "number" => a.number <= most'[c]
  /\ op[c] = "debit" /\ IsResult(a) => drawn'[c] > 0
  /\ remaining' \in 0..Budget /\ most' \in [Calls -> 0..Budget]
  /\ \A d \in Calls : most[d] <= most'[d] /\ (attempts[d] > 0 => remaining' <= most'[d])
  /\ drawn' = drawn \/ drawn' = [drawn EXCEPT ![c] = drawn[c] + 1]

\* An allocation raises the budget to its full size, and what it tells is that.
LEMMA AllocateMoves ==
  ASSUME IInv, NEW c \in Calls, Allocate(c)
  PROVE  \E a : Moves(c, a)
<1> USE DEF IInv
<1>1. remaining' = Budget /\ drawn' = drawn /\ op[c] # "debit"
      /\ most' = [d \in Calls |-> IF most[d] < Budget THEN Budget ELSE most[d]]
  BY DEF Allocate
<1>2. Budget \in Nat /\ \A d \in Calls : most[d] \in 0..Budget
  BY HostedAssumption DEF TypeOK
<1>3. most' = [d \in Calls |-> Budget]
  <2>1. ASSUME NEW d \in Calls  PROVE most'[d] = Budget
    <3>1. most[d] < Budget \/ most[d] = Budget
      BY <1>2
    <3>2. most'[d] = (IF most[d] < Budget THEN Budget ELSE most[d])
      BY <1>1
    <3> QED BY <1>2, <3>1, <3>2
  <2>2. most' = [d \in Calls |-> most'[d]]
    BY <1>1
  <2> QED BY <2>1, <2>2
<1>4. PICK a \in {Answered(Budget), Incomplete, TooLarge, Problem} \cup {Silence, answer[c]} :
        answer' = [answer EXCEPT ![c] = a] /\ (a # answer[c] => pc[c] = "waiting")
  BY ReplyIs DEF Allocate
<1>5. a \in AnswerType
  BY <1>2, <1>4 DEF TypeOK, AnswerType, Answered, Incomplete, TooLarge, Problem, Silence
<1>6. a.kind = "number" => a.number <= most'[c]
  BY <1>2, <1>3, <1>5 DEF AnswerType
<1>7. remaining' \in 0..Budget /\ most' \in [Calls -> 0..Budget]
  BY <1>1, <1>2, <1>3
<1>8. \A d \in Calls : most[d] <= most'[d] /\ (attempts[d] > 0 => remaining' <= most'[d])
  BY <1>1, <1>2, <1>3
<1>9. Moves(c, a)
  BY <1>1, <1>4, <1>5, <1>6, <1>7, <1>8 DEF Moves
<1> QED BY <1>9

\* A debit lowers the budget, and what it tells was there since the call was sent.
LEMMA DebitMoves ==
  ASSUME IInv, NEW c \in Calls, Debit(c), attempts[c] > 0
  PROVE  \E a : Moves(c, a)
<1> USE DEF IInv
<1>1. remaining' = remaining - amount[c] /\ remaining >= amount[c] /\ most' = most
      /\ drawn' = [drawn EXCEPT ![c] = drawn[c] + 1]
  BY DEF Debit
<1>2. amount[c] \in Nat /\ Budget \in Nat /\ remaining \in 0..Budget
      /\ \A d \in Calls : most[d] \in 0..Budget
  <2>1. Budget \in Nat /\ amount[c] \in Nat
    BY HostedAssumption, AmountIsNat
  <2>2. remaining \in 0..Budget /\ \A d \in Calls : most[d] \in 0..Budget
    BY DEF TypeOK
  <2> QED BY <2>1, <2>2
<1>3. remaining' \in 0..Budget /\ remaining' <= remaining
  BY <1>1, <1>2
<1>4. drawn'[c] > 0
  BY <1>1, RetriesIsNat DEF TypeOK
<1>5. PICK a \in {Answered(remaining'), Incomplete, TooLarge, Problem} \cup {Silence, answer[c]} :
        answer' = [answer EXCEPT ![c] = a] /\ (a # answer[c] => pc[c] = "waiting")
  BY ReplyIs DEF Debit
<1>6. a \in AnswerType
  BY <1>2, <1>3, <1>5 DEF TypeOK, AnswerType, Answered, Incomplete, TooLarge, Problem, Silence
<1>7. \A d \in Calls : most[d] <= most'[d] /\ (attempts[d] > 0 => remaining' <= most'[d])
  BY <1>1, <1>2, <1>3 DEF NumbersWereThere
<1>8. a.kind = "number" => a.number <= most'[c]
  <2>1. CASE a = answer[c]
    BY <1>1, <2>1 DEF NumbersWereThere
  <2>2. CASE a = Answered(remaining')
    BY <1>7, <2>2 DEF Answered
  <2>3. CASE a \in {Incomplete, TooLarge, Problem, Silence}
    BY <2>3 DEF Incomplete, TooLarge, Problem, Silence
  <2> QED BY <1>5, <2>1, <2>2, <2>3
<1>9. most' \in [Calls -> 0..Budget]
  BY <1>1 DEF TypeOK
<1>10. Moves(c, a)
  BY <1>1, <1>3, <1>4, <1>5, <1>6, <1>7, <1>8, <1>9 DEF Moves
<1> QED BY <1>10

\* A look and a refusal leave the budget alone; no debit is answered by a look.
LEMMA OtherMoves ==
  ASSUME IInv, NEW c \in Calls, Look(c) \/ Refuse(c), attempts[c] > 0
  PROVE  \E a : Moves(c, a)
<1> USE DEF IInv
<1>1. remaining' = remaining /\ drawn' = drawn /\ most' = most
  BY DEF Look, Refuse, serviceVars
<1>2. Budget \in Nat /\ remaining \in 0..Budget /\ \A d \in Calls : most[d] \in 0..Budget
  BY HostedAssumption DEF TypeOK
<1>3. PICK a \in {Answered(remaining), Incomplete, TooLarge, Problem, Silence, answer[c]} :
        /\ answer' = [answer EXCEPT ![c] = a] /\ (a # answer[c] => pc[c] = "waiting")
        /\ op[c] = "debit" => a \in {Problem, Silence, answer[c]}
  <2>1. CASE Look(c)
    <3>1. op[c] # "debit"
      BY <2>1 DEF Look
    <3>2. PICK S \in {{Answered(remaining), Incomplete, TooLarge}, {Incomplete, TooLarge}, {Incomplete}} :
            Reply(c, S)
      BY <2>1 DEF Look
    <3>3. PICK a \in S \cup {Silence, answer[c]} :
            answer' = [answer EXCEPT ![c] = a] /\ (a # answer[c] => pc[c] = "waiting")
      BY <3>2, ReplyIs
    <3>4. a \in {Answered(remaining), Incomplete, TooLarge, Problem, Silence, answer[c]}
      BY <3>2, <3>3
    <3> QED BY <3>1, <3>3, <3>4
  <2>2. CASE Refuse(c)
    <3>1. PICK a \in {Problem} \cup {Silence, answer[c]} :
            answer' = [answer EXCEPT ![c] = a] /\ (a # answer[c] => pc[c] = "waiting")
      BY <2>2, ReplyIs DEF Refuse
    <3> QED BY <3>1
  <2> QED BY <2>1, <2>2
<1>4. a \in AnswerType
  BY <1>2, <1>3 DEF TypeOK, AnswerType, Answered, Incomplete, TooLarge, Problem, Silence
<1>5. \A d \in Calls : most[d] <= most'[d] /\ (attempts[d] > 0 => remaining' <= most'[d])
  BY <1>1, <1>2 DEF NumbersWereThere
<1>6. a.kind = "number" => a.number <= most'[c]
  <2>1. CASE a = answer[c]
    BY <1>1, <2>1 DEF NumbersWereThere
  <2>2. CASE a = Answered(remaining)
    BY <1>1, <1>5, <2>2 DEF Answered
  <2>3. CASE a \in {Incomplete, TooLarge, Problem, Silence}
    BY <2>3 DEF Incomplete, TooLarge, Problem, Silence
  <2> QED BY <1>3, <2>1, <2>2, <2>3
<1>7. op[c] = "debit" /\ IsResult(a) => drawn'[c] > 0
  <2>1. ~IsResult(Problem) /\ ~IsResult(Silence)
    BY DEF IsResult, Problem, Silence
  <2>2. op[c] = "debit" /\ IsResult(answer[c]) => drawn'[c] > 0
    BY <1>1 DEF SuccessWasDrawn
  <2> QED BY <1>3, <2>1, <2>2
<1>8. remaining' \in 0..Budget /\ most' \in [Calls -> 0..Budget]
  BY <1>1 DEF TypeOK
<1>9. Moves(c, a)
  BY <1>1, <1>3, <1>4, <1>5, <1>6, <1>7, <1>8 DEF Moves
<1> QED BY <1>9

\* The service processes an attempt.
LEMMA ServeKeeps ==
  ASSUME IInv, NEW c \in Calls, Serve(c)
  PROVE  IInv'
<1> USE DEF IInv
<1>1. /\ underway[c] \in Nat /\ attempts[c] \in Nat /\ drawn[c] \in Nat
      /\ underway[c] > 0 /\ attempts[c] > 0 /\ underway[c] <= attempts[c]
      /\ underway' = [underway EXCEPT ![c] = underway[c] - 1]
  BY RetriesIsNat DEF Serve, TypeOK, DrawnByAttempts
<1>2. UNCHANGED <<op, amount, given, pc, outcome, told, late, client, built, attempts>>
  BY DEF Serve, callVars, clientVars
<1>3. PICK a : Moves(c, a)
  BY <1>1, AllocateMoves, DebitMoves, OtherMoves DEF Serve
<1>4. \A d \in Calls : /\ attempts[d] \in Nat /\ underway[d] \in Nat /\ drawn[d] \in Nat
                       /\ attempts[d] <= EffectiveRetries + 1 /\ underway[d] <= attempts[d]
                       /\ drawn[d] <= attempts[d] - underway[d]
  BY RetriesIsNat DEF TypeOK, DrawnByAttempts
<1>6. \A d \in Calls : underway'[d] = (IF d = c THEN underway[c] - 1 ELSE underway[d])
  BY <1>1 DEF TypeOK
<1>7. \A d \in Calls : drawn'[d] = drawn[d] \/ (d = c /\ drawn'[d] = drawn[c] + 1)
  BY <1>3 DEF Moves, TypeOK
<1>8. DrawnByAttempts'
  <2> SUFFICES ASSUME NEW d \in Calls  PROVE underway'[d] <= attempts'[d] /\ drawn'[d] <= attempts'[d] - underway'[d]
    BY DEF DrawnByAttempts
  <2>1. CASE d = c
    BY <1>1, <1>2, <1>4, <1>6, <1>7, <2>1, RetriesIsNat
  <2>2. CASE d # c
    BY <1>2, <1>4, <1>6, <1>7, <2>2
  <2> QED BY <2>1, <2>2
<1>9. drawn' \in [Calls -> 0..(EffectiveRetries + 1)]
  <2>1. drawn[c] + 1 \in 0..(EffectiveRetries + 1)
    BY <1>1, <1>4, RetriesIsNat
  <2> QED BY <1>3, <2>1 DEF Moves, TypeOK
<1>10. answer' \in [Calls -> AnswerType]
  BY <1>3 DEF Moves, TypeOK, AnswerType
<1>11. underway' \in [Calls -> 0..(EffectiveRetries + 1)]
  <2>1. underway[c] - 1 \in 0..(EffectiveRetries + 1)
    BY <1>1, <1>4, RetriesIsNat
  <2> QED BY <1>1, <2>1 DEF TypeOK
<1>12. TypeOK'
  <2>1. remaining' \in 0..Budget /\ most' \in [Calls -> 0..Budget]
    BY <1>3 DEF Moves
  <2> QED BY <1>2, <1>9, <1>10, <1>11, <2>1 DEF TypeOK, AnswerType
<1>13. \A d \in Calls : answer'[d] = (IF d = c THEN a ELSE answer[d])
  BY <1>3 DEF Moves, TypeOK
<1>14. NothingIsEarly'
  <2> SUFFICES ASSUME NEW d \in Calls
               PROVE  /\ pc[d] \in {"ready", "getting", "building", "calling"} => Unsent(d)'
                      /\ outcome[d] = "raised" => Unsent(d)' \/ answer'[d] = TooLarge
                      /\ pc[d] = "waiting" => attempts[d] > 0
    BY <1>2 DEF NothingIsEarly
  <2>1. CASE d = c
    <3>1. ~Unsent(c)
      BY <1>1 DEF Unsent
    <3>2. outcome[c] = "raised" => pc[c] = "done" /\ answer[c] = TooLarge
      BY <3>1 DEF NothingIsEarly, TypeOK
    <3>3. pc[c] = "done" => answer'[c] = answer[c]
      BY <1>3, <1>13 DEF Moves
    <3> QED BY <1>1, <2>1, <3>1, <3>2, <3>3 DEF NothingIsEarly
  <2>2. CASE d # c
    <3>1. underway'[d] = underway[d] /\ drawn'[d] = drawn[d] /\ answer'[d] = answer[d]
          /\ attempts'[d] = attempts[d]
      BY <1>2, <1>6, <1>7, <1>13, <2>2
    <3> QED BY <3>1 DEF NothingIsEarly, Unsent
  <2> QED BY <2>1, <2>2
<1>15. SuccessWasDrawn'
  <2> SUFFICES ASSUME NEW d \in Calls, op[d] = "debit", IsResult(answer'[d]) \/ outcome[d] = "result"
               PROVE  drawn'[d] > 0
    BY <1>2 DEF SuccessWasDrawn, IsResult
  <2>1. IsResult(answer[d]) \/ outcome[d] = "result" => drawn[d] > 0
    BY DEF SuccessWasDrawn
  <2>2. drawn[d] > 0 => drawn'[d] > 0
    BY <1>4, <1>7, RetriesIsNat
  <2>3. d = c /\ IsResult(a) => drawn'[d] > 0
    BY <1>3 DEF Moves
  <2> QED BY <1>13, <2>1, <2>2, <2>3
<1>16. NumbersWereThere'
  <2> SUFFICES ASSUME NEW d \in Calls
               PROVE  /\ attempts[d] > 0 => remaining' <= most'[d]
                      /\ answer'[d].kind = "number" => answer'[d].number <= most'[d]
                      /\ told[d] <= most'[d]
    BY <1>2 DEF NumbersWereThere
  <2>1. most[d] \in Nat /\ most'[d] \in Nat /\ most[d] <= most'[d] /\ told[d] \in Nat
        /\ (attempts[d] > 0 => remaining' <= most'[d]) /\ answer[d].number \in Nat
    BY <1>3, HostedAssumption DEF Moves, TypeOK
  <2>2. told[d] <= most[d] /\ (answer[d].kind = "number" => answer[d].number <= most[d])
    BY DEF NumbersWereThere
  <2>3. d = c /\ a.kind = "number" => a.number <= most'[d]
    BY <1>3 DEF Moves
  <2> QED BY <1>13, <2>1, <2>2, <2>3
<1>17. ClientIsKept'
  BY <1>2 DEF ClientIsKept
<1> QED BY <1>8, <1>12, <1>14, <1>15, <1>16, <1>17

\* Every step keeps the invariant.
LEMMA NextKeeps == IInv /\ [Next]_vars => IInv'
<1>1. ASSUME IInv, UNCHANGED vars  PROVE IInv'
  BY <1>1 DEF vars, callVars, clientVars, sentVars, serviceVars, IInv, TypeOK, NothingIsEarly,
              Unsent, DrawnByAttempts, SuccessWasDrawn, NumbersWereThere, ClientIsKept
<1> QED BY <1>1, BeginKeeps, GetClientKeeps, BuildKeeps, EarlyFailuresKeep, SendKeeps, ReturnKeeps,
           TimeoutKeeps, ServeKeeps DEF Next, Step

\* The invariant holds in every state.
LEMMA Invariance == Spec => []IInv
  BY InitInvariant, NextKeeps, PTL DEF Spec

----------------------------------------------------------------------------
(* The theorems. *)

\* In every state the variables are in their ranges; no call is sent more often
\* than its retries allow, and no debit drawn more often.
THEOREM TypeCorrect == Spec => []TypeOK
<1>1. IInv => TypeOK
  BY DEF IInv
<1> QED BY <1>1, Invariance, PTL

\* Whoever gets another exception than HostedGrantexError has sent nothing, or was
\* answered with a number that cannot be held.
THEOREM RaisedIsSafe == Spec => []RaisedMeansUnsent
<1>1. IInv => RaisedMeansUnsent
  BY DEF IInv, NothingIsEarly, Unsent, RaisedMeansUnsent
<1> QED BY <1>1, Invariance, PTL

\* No result promises more than there was since the call was sent.
THEOREM NoResultFlatters == Spec => []ResultsDoNotFlatter
<1>1. IInv => ResultsDoNotFlatter
  BY DEF IInv, NumbersWereThere, ResultsDoNotFlatter
<1> QED BY <1>1, Invariance, PTL

\* Once there is a client, the calls that begin share it.
THEOREM OneClientIsKept == Spec => []ClientIsShared
<1>1. ASSUME IInv  PROVE ClientIsShared
  <2>1. built \subseteq Calls
    BY <1>1 DEF IInv, TypeOK
  <2>2. \A c \in Calls : c \in built => c \notin late
    BY <1>1 DEF IInv, ClientIsKept
  <2>3. \A c : ~(c \in built \cap late)
    BY <2>1, <2>2
  <2> QED BY <2>3 DEF ClientIsShared
<1> QED BY <1>1, Invariance, PTL

----------------------------------------------------------------------------
(* The client keeps the contract of the budget debits. *)

\* What a step shows of the debits when no call is sent, ends or is a new debit.
LEMMA SameAccount ==
  ASSUME UNCHANGED <<op, amount, attempts, outcome, remaining, drawn>>
  PROVE  UNCHANGED Account!budgetVars
BY DEF Account!budgetVars, PriceView, ToldView

\* A call that ends is told so, a success only when its debit was drawn.
LEMMA EndReports ==
  ASSUME IInv, NEW c \in Calls, outcome[c] = "none",
         NEW o \in {"raised", "hosted_error", "result"}, outcome' = [outcome EXCEPT ![c] = o],
         op[c] = "debit" /\ o = "result" => drawn[c] > 0,
         UNCHANGED <<op, amount, attempts, remaining, drawn>>
  PROVE  [Account!Next]_(Account!budgetVars)
<1>1. UNCHANGED <<remaining, PriceView, drawn>>
  BY DEF PriceView
<1>2. \A d \in Calls : outcome'[d] = IF d = c THEN o ELSE outcome[d]
  BY DEF IInv, TypeOK
<1>3. CASE op[c] # "debit"
  <2>1. ToldView' = ToldView
    BY <1>2, <1>3 DEF ToldView
  <2> QED BY <1>1, <2>1 DEF Account!budgetVars
<1>4. CASE op[c] = "debit"
  <2>1. PICK t \in {"returned", "failed"} : t = IF o = "result" THEN "returned" ELSE "failed"
    OBVIOUS
  <2>2. ToldView[c] = "open" /\ ToldView' = [ToldView EXCEPT ![c] = t]
    BY <1>2, <1>4, <2>1 DEF ToldView
  <2>3. t = "returned" => drawn[c] > 0
    BY <1>4, <2>1
  <2>4. Account!Report(c)
    BY <1>1, <2>1, <2>2, <2>3 DEF Account!Report
  <2> QED BY <2>4 DEF Account!Next
<1> QED BY <1>3, <1>4

\* A method that is called asks for nothing yet; one that is refused is told so.
LEMMA BeginShows ==
  ASSUME IInv, NEW c \in Calls, Begin(c)
  PROVE  [Account!Next]_(Account!budgetVars)
<1>1. /\ UNCHANGED <<attempts, remaining, drawn>>
      /\ \A d \in Calls \ {c} : op'[d] = op[d] /\ amount'[d] = amount[d]
  BY DEF Begin, sentVars, serviceVars, IInv, TypeOK
<1>2. attempts[c] = 0 /\ outcome[c] = "none"
  BY DEF Begin, IInv, NothingIsEarly, Unsent
<1>3. PriceView' = PriceView
  BY <1>1, <1>2 DEF PriceView
<1>4. PICK o \in {"none", "raised"} : \A d \in Calls :
        outcome'[d] = IF d = c THEN o ELSE outcome[d]
  BY <1>2 DEF Begin, Goto, End, IInv, TypeOK
<1>5. CASE o = "raised" /\ op'[c] = "debit"
  <2>1. ToldView[c] = "open" /\ ToldView' = [ToldView EXCEPT ![c] = "failed"]
    BY <1>1, <1>2, <1>4, <1>5 DEF ToldView
  <2>2. Account!Report(c)
    BY <1>1, <1>3, <2>1 DEF Account!Report
  <2> QED BY <2>2 DEF Account!Next
<1>6. CASE ~(o = "raised" /\ op'[c] = "debit")
  <2>1. ToldView' = ToldView
    BY <1>1, <1>2, <1>4, <1>6 DEF ToldView
  <2> QED BY <1>1, <1>3, <2>1 DEF Account!budgetVars
<1> QED BY <1>5, <1>6

\* A debit that is sent asks for its amount.
LEMMA SendAsks ==
  ASSUME IInv, NEW c \in Calls, Send(c)
  PROVE  [Account!Next]_(Account!budgetVars)
<1>1. UNCHANGED <<op, amount, outcome, remaining, drawn>> /\ ToldView' = ToldView
  BY DEF Send, Goto, ToldView
<1>2. \A d \in Calls : attempts'[d] = IF d = c THEN 1 ELSE attempts[d]
  BY DEF Send, IInv, TypeOK
<1>3. attempts[c] = 0 /\ outcome[c] = "none"
  BY DEF Send, IInv, NothingIsEarly, Unsent
<1>4. CASE op[c] # "debit"
  <2>1. PriceView' = PriceView
    BY <1>1, <1>2, <1>4 DEF PriceView
  <2> QED BY <1>1, <2>1 DEF Account!budgetVars
<1>5. CASE op[c] = "debit"
  <2>1. amount[c] \in Nat
    BY AmountIsNat DEF IInv
  <2>2. PriceView[c] = -1 /\ PriceView' = [PriceView EXCEPT ![c] = amount[c]]
    <3>1. PriceView[c] = -1
      BY <1>3 DEF PriceView
    <3>2. attempts'[c] > 0 /\ \A d \in Calls \ {c} : attempts'[d] = attempts[d]
      BY <1>2
    <3>3. PriceView' = [PriceView EXCEPT ![c] = amount[c]]
      BY <1>1, <1>5, <3>2 DEF PriceView
    <3> QED BY <3>1, <3>3
  <2>3. ToldView[c] = "open" /\ PriceView'[c] = amount[c]
    BY <1>3, <2>2 DEF ToldView, PriceView
  <2>4. Account!Ask(c, PriceView'[c])
    BY <1>1, <2>2, <2>3 DEF Account!Ask, Account!NotAsked
  <2> QED BY <2>1, <2>3, <2>4 DEF Account!Next
<1> QED BY <1>4, <1>5

\* A call that ends: with the answer of the service, with a timeout, or unsent.
LEMMA EndsShow ==
  ASSUME IInv, NEW c \in Calls, BuildFails(c) \/ RefuseParams(c) \/ Return(c)
  PROVE  [Account!Next]_(Account!budgetVars)
<1>1. UNCHANGED <<op, amount, attempts, remaining, drawn>> /\ outcome[c] = "none"
  BY DEF BuildFails, RefuseParams, Return, sentVars, serviceVars, IInv, NothingIsEarly
<1>2. PICK o \in {"raised", "hosted_error", "result"} :
        outcome' = [outcome EXCEPT ![c] = o] /\ (o = "result" => IsResult(answer[c]))
  BY DEF BuildFails, RefuseParams, Return, BuildError, CallError, End
<1>3. op[c] = "debit" /\ o = "result" => drawn[c] > 0
  BY <1>2 DEF IInv, SuccessWasDrawn
<1> QED BY <1>1, <1>2, <1>3, EndReports

\* An attempt that is sent again asks for nothing new.
LEMMA TimeoutShows ==
  ASSUME IInv, NEW c \in Calls, Timeout(c)
  PROVE  [Account!Next]_(Account!budgetVars)
<1>1. UNCHANGED <<op, amount, remaining, drawn>> /\ outcome[c] = "none" /\ attempts[c] > 0
  BY DEF Timeout, serviceVars, IInv, NothingIsEarly
<1>2. CASE End(c, CallError, 0) /\ UNCHANGED attempts
  BY <1>1, <1>2, EndReports DEF End, CallError
<1>3. CASE SendAgain(c) /\ UNCHANGED outcome
  <2>1. \A d \in Calls : attempts'[d] = IF d = c THEN attempts[c] + 1 ELSE attempts[d]
    BY <1>3 DEF SendAgain, IInv, TypeOK
  <2>2. attempts[c] + 1 > 0
    BY <1>1, RetriesIsNat DEF IInv, TypeOK
  <2>3. PriceView' = PriceView
    BY <1>1, <2>1, <2>2 DEF PriceView
  <2>4. ToldView' = ToldView
    BY <1>1, <1>3 DEF ToldView
  <2> QED BY <1>1, <2>3, <2>4 DEF Account!budgetVars
<1> QED BY <1>2, <1>3 DEF Timeout

\* The service draws what was asked, at most once for each attempt, and gives a
\* budget anew when there is none.
LEMMA ServeShows ==
  ASSUME IInv, NEW c \in Calls, Serve(c)
  PROVE  [Account!Next]_(Account!budgetVars)
<1>1. UNCHANGED <<PriceView, ToldView>> /\ underway[c] > 0
  BY DEF Serve, callVars, PriceView, ToldView
<1>2. CASE Allocate(c)
  <2>1. Account!Refill
    BY <1>1, <1>2, HostedAssumption DEF Allocate, Account!Refill
  <2> QED BY <2>1 DEF Account!Next
<1>3. CASE Debit(c)
  <2>1. /\ attempts[c] \in Nat /\ underway[c] \in Nat /\ drawn[c] \in Nat
        /\ attempts[c] <= EffectiveRetries + 1 /\ drawn[c] <= attempts[c] - underway[c]
    BY RetriesIsNat DEF IInv, TypeOK, DrawnByAttempts
  <2>2. attempts[c] > 0 /\ drawn[c] < EffectiveRetries + 1
    BY <1>1, <2>1, RetriesIsNat
  <2>3. amount[c] \in Nat
    BY AmountIsNat DEF IInv
  <2>4. PriceView[c] = amount[c] /\ amount[c] # -1
    BY <1>3, <2>2, <2>3 DEF Debit, PriceView
  <2>5. Account!Draw(c)
    BY <1>1, <1>3, <2>2, <2>4 DEF Debit, Account!Draw, Account!NotAsked
  <2> QED BY <2>5 DEF Account!Next
<1>4. CASE Look(c) \/ Refuse(c)
  <2>1. UNCHANGED <<remaining, drawn>>
    BY <1>4 DEF Look, Refuse, serviceVars
  <2> QED BY <1>1, <2>1 DEF Account!budgetVars
<1> QED BY <1>2, <1>3, <1>4 DEF Serve

\* Whatever gets lost, comes late or is sent again, the budget debits keep their
\* contract: drawn for the amount asked, never beyond what is left or what was sent,
\* and a caller that was told of a success has been drawn on.
THEOREM ImplementsBudgetContract == Spec => KeepsBudgetContract
<1>1. Init => Account!Init
  BY HostedAssumption DEF Init, Account!Init, Account!NotAsked, PriceView, ToldView
<1>2. IInv /\ [Next]_vars => [Account!Next]_(Account!budgetVars)
  <2> SUFFICES ASSUME IInv, [Next]_vars  PROVE [Account!Next]_(Account!budgetVars)
    OBVIOUS
  <2>1. ASSUME NEW c \in Calls, GetClient(c) \/ Build(c)
        PROVE  [Account!Next]_(Account!budgetVars)
    BY <2>1, SameAccount DEF GetClient, Build, Goto, sentVars, serviceVars
  <2>2. CASE UNCHANGED vars
    BY <2>2, SameAccount DEF vars, callVars, sentVars, serviceVars
  <2> QED BY <2>1, <2>2, BeginShows, SendAsks, EndsShow, TimeoutShows, ServeShows DEF Next, Step
<1> QED BY <1>1, <1>2, Invariance, PTL DEF Spec, KeepsBudgetContract, Account!Spec
=============================================================================
