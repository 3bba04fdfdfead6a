------------------------ MODULE CaptureEffortProofs ------------------------
(***************************************************************************)
(* Proofs about CaptureEffort, for any number of retries, any initial      *)
(* delay and any Retry-After.                                              *)
(***************************************************************************)
EXTENDS CaptureEffort, TLAPS

(***************************************************************************)
(* The inductive invariant, in named parts.                                *)
(***************************************************************************)

\* Before the first poll, and in each, there are two requests at most.
RequestsOfPolls ==
  /\ phase = "token" => requests <= 2 * polls
  /\ phase = "exchange" => requests <= 2 * polls + 1
  /\ phase \in {"debit", "pausing", "done"} => requests <= 2 * polls + 2
  /\ phase = "pausing" => polls < retries

\* The requests before the one in progress made retries + 1 attempts at most.
AttemptsOfRequests ==
  /\ InRequest => requests > 0 /\ sent <= (requests - 1) * (retries + 1) + attempt + 1
  /\ ~InRequest => sent <= requests * (retries + 1)

\* A backoff was for half of what the next one is for.
BackoffIsOfBase == 8 * backoff <= 5 * base + 2

IInv ==
  /\ TypeOK
  /\ RequestsOfPolls
  /\ AttemptsOfRequests
  /\ BackoffIsOfBase

----------------------------------------------------------------------------
(* Arithmetic. *)

\* Multiplying by a natural number keeps the order.
LEMMA TimesKeepsOrder ==
  ASSUME NEW a \in Nat, NEW b \in Nat, NEW c \in Nat, a <= b
  PROVE  a * c <= b * c
<1>1. PICK d \in Nat : b = a + d
  <2> WITNESS b - a \in Nat
  <2> QED OBVIOUS
<1>2. b * c = a * c + d * c
  BY <1>1
<1>3. d * c \in Nat
  OBVIOUS
<1> QED BY <1>2, <1>3

\* One more of something.
LEMMA TimesOneMore ==
  ASSUME NEW a \in Int, NEW c \in Int
  PROVE  (a + 1) * c = a * c + c
OBVIOUS

\* A jittered delay is never nothing, a quarter longer than its base at most, and no
\* shorter than any jittered delay of half the base.
LEMMA JitterIsBounded ==
  ASSUME NEW b \in Nat \ {0}, NEW d \in Jittered(b)
  PROVE  d \in Nat /\ d > 0 /\ 4 * d <= 5 * b + 1 /\ 4 * d + 2 >= 3 * b
BY DEF Jittered

----------------------------------------------------------------------------
(* The steps. *)

LEMMA InitInvariant == Init => IInv
  BY EffortAssumption
  DEF Init, IInv, TypeOK, RequestsOfPolls, AttemptsOfRequests, BackoffIsOfBase, InRequest

\* What the type invariant says of the numbers.
LEMMA Numbers ==
  ASSUME TypeOK
  PROVE  /\ retries \in Nat /\ attempt \in Nat /\ polls \in Nat /\ base \in Nat /\ base > 0
         /\ backoff \in Nat /\ interval \in Nat /\ requests \in Nat /\ sent \in Nat
         /\ slept \in Nat /\ attempt <= retries /\ polls <= retries
         /\ Initial \in Nat /\ Initial > 0 /\ LongestRetryAfter \in Nat
BY EffortAssumption DEF TypeOK

\* A request that begins pays for the attempts of the one before.
LEMMA RequestKeeps ==
  ASSUME IInv, GetToken \/ TokenCame
  PROVE  IInv'
<1> USE DEF IInv
<1>1. PICK p \in {"exchange", "debit"} :
        /\ Request(p)
        /\ p = "exchange" => phase = "token"
        /\ phase \in {"token", "exchange"}
        /\ UNCHANGED <<retries, polls, interval, slept>>
  BY DEF GetToken, TokenCame, pollVars
<1>2. /\ phase' = p /\ attempt' = 0 /\ base' = Initial /\ backoff' = 0
      /\ requests' = requests + 1 /\ sent' = sent + 1
  BY <1>1 DEF Request, FirstDelay
<1>3. TypeOK'
  BY <1>1, <1>2, Numbers, EffortAssumption DEF TypeOK
<1>4. RequestsOfPolls'
  BY <1>1, <1>2, Numbers DEF RequestsOfPolls
<1>5. sent <= requests * (retries + 1)
  <2>1. CASE phase = "token"
    BY <2>1 DEF AttemptsOfRequests, InRequest
  <2>2. CASE phase = "exchange"
    <3>1. requests > 0 /\ sent <= (requests - 1) * (retries + 1) + attempt + 1
      BY <2>2 DEF AttemptsOfRequests, InRequest
    <3>2. requests * (retries + 1) = (requests - 1) * (retries + 1) + (retries + 1)
      BY Numbers, TimesOneMore
    <3> QED BY <3>1, <3>2, Numbers
  <2> QED BY <1>1, <2>1, <2>2
<1>6. AttemptsOfRequests'
  <2>1. requests' - 1 = requests /\ requests' > 0
    BY <1>2, Numbers
  <2>2. sent' <= (requests' - 1) * (retries' + 1) + attempt' + 1
    BY <1>1, <1>2, <1>5, <2>1, Numbers
  <2> QED BY <1>2, <2>1, <2>2 DEF AttemptsOfRequests, InRequest
<1>7. BackoffIsOfBase'
  BY <1>2, Numbers DEF BackoffIsOfBase
<1> QED BY <1>3, <1>4, <1>6, <1>7

\* Another attempt of the request in progress.
LEMMA RetryKeeps ==
  ASSUME IInv, Retry
  PROVE  IInv'
<1> USE DEF IInv
<1>1. PICK d \in Nat : /\ slept' = slept + d /\ backoff' \in {0, d}
                       /\ backoff' # 0 => 4 * d <= 5 * base + 1
  <2>1. ASSUME NEW d \in Jittered(base)  PROVE d \in Nat /\ 4 * d <= 5 * base + 1
    BY <2>1, Numbers, JitterIsBounded
  <2>2. CASE \E d \in Jittered(base) : slept' = slept + d /\ backoff' = d
    BY <2>1, <2>2
  <2>3. CASE \E d \in 0..LongestRetryAfter : slept' = slept + d /\ backoff' = 0
    BY <2>3, Numbers
  <2> QED BY <2>2, <2>3 DEF Retry
<1>2. /\ attempt' = attempt + 1 /\ base' = 2 * base /\ sent' = sent + 1
      /\ UNCHANGED <<retries, phase, requests, polls, interval>>
      /\ InRequest /\ attempt < retries
  BY DEF Retry, pollVars, MayRetry
<1>3. TypeOK'
  BY <1>1, <1>2, Numbers DEF TypeOK
<1>4. RequestsOfPolls' /\ AttemptsOfRequests'
  <2>1. RequestsOfPolls'
    BY <1>2 DEF RequestsOfPolls
  <2>2. requests > 0 /\ sent <= (requests - 1) * (retries + 1) + attempt + 1
    BY <1>2 DEF AttemptsOfRequests
  <2>3. (requests - 1) * (retries + 1) \in Int
    BY Numbers
  <2>4. sent' <= (requests' - 1) * (retries' + 1) + attempt' + 1
    BY <1>2, <2>2, <2>3, Numbers
  <2> QED BY <1>2, <2>1, <2>2, <2>4 DEF AttemptsOfRequests, InRequest
<1>5. BackoffIsOfBase'
  BY <1>1, <1>2, Numbers DEF BackoffIsOfBase
<1> QED BY <1>3, <1>4, <1>5

\* The steps that send nothing.
LEMMA OthersKeep ==
  ASSUME IInv, Accepted \/ StillPending \/ Pause \/ End
  PROVE  IInv'
<1> USE DEF IInv
<1>1. UNCHANGED <<retries, attempt, base, backoff, requests, sent>>
  BY DEF Accepted, StillPending, Pause, End, requestVars
<1>2. /\ polls' = polls \/ (phase = "pausing" /\ polls' = polls + 1)
      /\ slept' = slept \/ slept' = slept + interval
      /\ interval' = interval \/ interval' \in {Initial} \cup 0..LongestRetryAfter
  BY DEF Accepted, StillPending, Pause, End, pollVars
<1>3. /\ ~InRequest' /\ phase' \in {"token", "pausing", "done"}
      /\ phase' = "token" => polls' = polls + 1 /\ phase = "pausing"
      /\ phase' # "token" => polls' = polls /\ phase \in {"exchange", "debit"}
      /\ phase' = "pausing" => polls < retries /\ phase = "debit"
  BY DEF Accepted, StillPending, Pause, End, InRequest, WaitOrGiveUp, PollsLeft, pollVars
<1>4. TypeOK'
  BY <1>1, <1>2, <1>3, Numbers DEF TypeOK, RequestsOfPolls
<1>5. RequestsOfPolls'
  BY <1>1, <1>3, Numbers DEF RequestsOfPolls
<1>6. sent <= requests * (retries + 1)
  <2>1. CASE InRequest
    <3>1. requests > 0 /\ sent <= (requests - 1) * (retries + 1) + attempt + 1
      BY <2>1 DEF AttemptsOfRequests
    <3>2. requests * (retries + 1) = (requests - 1) * (retries + 1) + (retries + 1)
      BY Numbers, TimesOneMore
    <3> QED BY <3>1, <3>2, Numbers
  <2>2. CASE ~InRequest
    BY <2>2 DEF AttemptsOfRequests
  <2> QED BY <2>1, <2>2
<1>7. AttemptsOfRequests' /\ BackoffIsOfBase'
  BY <1>1, <1>3, <1>6 DEF AttemptsOfRequests, BackoffIsOfBase
<1> QED BY <1>4, <1>5, <1>7

\* Every step keeps the invariant.
LEMMA NextKeeps == IInv /\ [Next]_vars => IInv'
<1>1. ASSUME IInv, UNCHANGED vars  PROVE IInv'
  BY <1>1 DEF vars, requestVars, pollVars, IInv, TypeOK, RequestsOfPolls, AttemptsOfRequests,
              BackoffIsOfBase, InRequest
<1> QED BY <1>1, RequestKeeps, RetryKeeps, OthersKeep DEF Next

LEMMA Invariance == Spec => []IInv
  BY InitInvariant, NextKeeps, PTL DEF Spec

----------------------------------------------------------------------------
(* The theorems. *)

\* In every state the variables are in their ranges: no request is tried, and no
\* debit polled, more often than maxRetries says.
THEOREM TypeCorrect == Spec => []TypeOK
<1>1. IInv => TypeOK
  BY DEF IInv
<1> QED BY <1>1, Invariance, PTL

\* A capture makes no more than two requests for itself and two for each poll, with
\* their retries.
THEOREM EffortIsBounded == Spec => []AttemptsAreBounded
<1>1. ASSUME IInv  PROVE AttemptsAreBounded
  <2> USE <1>1 DEF IInv
  <2>1. requests <= 2 * (retries + 1)
    BY Numbers DEF RequestsOfPolls, TypeOK
  <2>2. requests * (retries + 1) <= 2 * (retries + 1) * (retries + 1)
    BY <2>1, Numbers, TimesKeepsOrder
  <2>3. sent <= requests * (retries + 1)
    <3>1. CASE InRequest
      <4>1. requests > 0 /\ sent <= (requests - 1) * (retries + 1) + attempt + 1
        BY <3>1 DEF AttemptsOfRequests
      <4>2. requests * (retries + 1) = (requests - 1) * (retries + 1) + (retries + 1)
        BY Numbers, TimesOneMore
      <4> QED BY <4>1, <4>2, Numbers
    <3>2. CASE ~InRequest
      BY <3>2 DEF AttemptsOfRequests
    <3> QED BY <3>1, <3>2
  <2>4. requests * (retries + 1) \in Int /\ 2 * (retries + 1) * (retries + 1) \in Int
    BY Numbers
  <2> QED BY <2>2, <2>3, <2>4, Numbers DEF AttemptsAreBounded
<1> QED BY <1>1, Invariance, PTL

\* The delays of a request grow, whatever the jitter and the rounding make of them.
THEOREM DelaysGrow == Spec => BackoffGrows
<1>1. ASSUME IInv, Next, attempt' = attempt + 1, backoff' # 0
      PROVE  backoff' >= backoff
  <2> USE <1>1 DEF IInv
  <2>1. Retry
    BY Numbers DEF Next, GetToken, TokenCame, Accepted, StillPending, Pause, End, Request,
                   requestVars
  <2>2. backoff' \in Jittered(base)
    BY <2>1 DEF Retry
  <2>3. backoff' \in Nat /\ 4 * backoff' + 2 >= 3 * base
    BY <2>2, Numbers, JitterIsBounded
  <2> QED BY <2>3, Numbers DEF BackoffIsOfBase
<1>2. IInv /\ [Next]_vars => [attempt' = attempt + 1 /\ backoff' # 0 => backoff' >= backoff]_vars
  BY <1>1
<1> QED BY <1>2, Invariance, PTL DEF Spec, BackoffGrows

----------------------------------------------------------------------------
(***************************************************************************)
(* The time asleep.  The provers do not know what an exponent is, so the   *)
(* theorem has its definition, for 2, as a hypothesis.                     *)
(***************************************************************************)

PowersDouble == \A n \in Nat : 2 ^ n \in Nat \ {0} /\ 2 ^ (n + 1) = 2 * 2 ^ n

\* The delay has still to double once for each retry that is left.
BaseIsPower == base * 2 ^ (retries - attempt) = Initial * 2 ^ retries

Paused == 4 * (polls * LongestPause)

\* The delays of a request add up to less than the delay it is at.
SleepOfRequests ==
  /\ InRequest => 4 * slept <= (requests - 1) * RequestSleep(retries)
                               + 5 * (base - Initial)
                               + attempt * (1 + 4 * LongestRetryAfter) + Paused
  /\ ~InRequest => 4 * slept <= requests * RequestSleep(retries) + Paused

SInv ==
  /\ PowersDouble
  /\ IInv
  /\ BaseIsPower
  /\ SleepOfRequests

\* A request that retries as often as it may has slept what RequestSleep says.
LEMMA RequestSleepCovers ==
  ASSUME SInv
  PROVE  /\ RequestSleep(retries) \in Nat
         /\ 5 * (base - Initial) + attempt * (1 + 4 * LongestRetryAfter) <= RequestSleep(retries)
<1> DEFINE told == 1 + 4 * LongestRetryAfter
           power == 2 ^ retries
           left == 2 ^ (retries - attempt)
<1>1. /\ retries \in Nat /\ attempt \in Nat /\ attempt <= retries
      /\ base \in Nat /\ Initial \in Nat /\ Initial > 0 /\ told \in Nat
  BY Numbers DEF SInv, IInv
<1>2. power \in Nat /\ power >= 1 /\ left \in Nat /\ left >= 1
  <2>1. retries - attempt \in Nat
    BY <1>1
  <2> QED BY <1>1, <2>1 DEF SInv, PowersDouble
<1>3. base * left = Initial * power
  BY DEF SInv, BaseIsPower
<1>4. attempt * told <= retries * told /\ attempt * told \in Nat /\ retries * told \in Nat
  BY <1>1, TimesKeepsOrder
<1>5. base <= Initial * power /\ Initial * power \in Nat
  <2>1. 1 * base <= left * base
    BY <1>1, <1>2, TimesKeepsOrder
  <2>2. left * base = base * left /\ base * left \in Nat
    BY <1>1, <1>2
  <2> QED BY <1>1, <1>3, <2>1, <2>2
<1>6. RequestSleep(retries) = 5 * (Initial * power) - 5 * Initial + retries * told
  <2>1. RequestSleep(retries) = 5 * Initial * (power - 1) + retries * told
    BY DEF RequestSleep
  <2>2. 5 * Initial * (power - 1) = 5 * (Initial * power) - 5 * Initial
    BY <1>1, <1>2
  <2> QED BY <2>1, <2>2
<1>7. Initial <= Initial * power
  <2>1. 1 * Initial <= power * Initial
    BY <1>1, <1>2, TimesKeepsOrder
  <2>2. power * Initial = Initial * power
    BY <1>1, <1>2
  <2> QED BY <1>1, <2>1, <2>2
<1> HIDE DEF told, power
<1>8. 5 * (base - Initial) + attempt * told <= RequestSleep(retries) /\ RequestSleep(retries) \in Nat
  BY <1>1, <1>4, <1>5, <1>6, <1>7
<1> QED BY <1>8 DEF told

\* So what is slept between two requests is covered by the requests made.
LEMMA SleepIsCovered ==
  ASSUME SInv
  PROVE  4 * slept <= requests * RequestSleep(retries) + Paused
<1> DEFINE asleep == RequestSleep(retries)
           told == attempt * (1 + 4 * LongestRetryAfter)
<1>1. asleep \in Nat /\ 5 * (base - Initial) + told <= asleep
  BY RequestSleepCovers
<1>2. CASE InRequest
  <2>1. 4 * slept <= (requests - 1) * asleep + 5 * (base - Initial) + told + Paused
    BY <1>2 DEF SInv, SleepOfRequests
  <2>2. requests * asleep = (requests - 1) * asleep + asleep
    BY <1>1, Numbers, TimesOneMore DEF SInv, IInv
  <2>3. /\ Paused \in Int /\ told \in Int /\ base \in Int /\ Initial \in Int /\ slept \in Int
        /\ (requests - 1) * asleep \in Int
    BY <1>1, Numbers DEF SInv, IInv, Paused, LongestPause
  <2>4. 4 * slept <= requests * asleep + Paused
    <3> HIDE DEF asleep, told
    <3> QED BY <1>1, <2>1, <2>2, <2>3
  <2> QED BY <2>4
<1>3. CASE ~InRequest
  BY <1>3 DEF SInv, SleepOfRequests
<1> QED BY <1>2, <1>3

LEMMA SleepInit == PowersDouble /\ Init => SInv
<1>1. ASSUME PowersDouble, Init  PROVE SInv
  <2>1. IInv
    BY <1>1, InitInvariant
  <2>2. BaseIsPower
    BY <1>1, <2>1, Numbers DEF Init, BaseIsPower, IInv
  <2>3. SleepOfRequests
    <3>1. /\ slept = 0 /\ requests = 0 /\ polls = 0 /\ ~InRequest
      BY <1>1 DEF Init, InRequest
    <3>2. LongestPause \in Nat
      BY EffortAssumption DEF LongestPause
    <3>3. retries \in Nat /\ 2 ^ retries \in Nat
      BY <1>1, <2>1, Numbers DEF IInv, PowersDouble
    <3>4. RequestSleep(retries) \in Int
      BY <3>3, EffortAssumption DEF RequestSleep
    <3> QED BY <3>1, <3>2, <3>4 DEF SleepOfRequests, Paused
  <2> QED BY <1>1, <2>1, <2>2, <2>3 DEF SInv
<1> QED BY <1>1

\* A request that begins has slept nothing of its own.
LEMMA SleepRequestKeeps ==
  ASSUME SInv, GetToken \/ TokenCame
  PROVE  BaseIsPower' /\ SleepOfRequests'
<1>1. /\ InRequest' /\ attempt' = 0 /\ base' = Initial /\ requests' = requests + 1
      /\ UNCHANGED <<retries, polls, slept>>
  BY DEF GetToken, TokenCame, Request, FirstDelay, InRequest, pollVars
<1>2. /\ retries \in Nat /\ requests \in Nat /\ Initial \in Nat /\ LongestRetryAfter \in Nat
  BY Numbers DEF SInv, IInv
<1>3. BaseIsPower'
  BY <1>1, <1>2 DEF BaseIsPower
<1>4. 4 * slept <= requests * RequestSleep(retries) + Paused
  BY SleepIsCovered
<1>5. SleepOfRequests'
  <2>1. requests' - 1 = requests /\ 5 * (base' - Initial) = 0
        /\ attempt' * (1 + 4 * LongestRetryAfter) = 0
    BY <1>1, <1>2
  <2>2. Paused' = Paused /\ RequestSleep(retries)' = RequestSleep(retries)
    BY <1>1 DEF Paused, RequestSleep
  <2>3. requests * RequestSleep(retries) \in Int /\ Paused \in Int
    BY <1>2, RequestSleepCovers, Numbers DEF SInv, IInv, Paused, LongestPause
  <2> QED BY <1>1, <1>4, <2>1, <2>2, <2>3 DEF SleepOfRequests
<1> QED BY <1>3, <1>5

\* A retry sleeps a quarter more than its delay and a rounding, or what it is told.
LEMMA SleepRetryKeeps ==
  ASSUME SInv, Retry
  PROVE  BaseIsPower' /\ SleepOfRequests'
<1>1. /\ attempt' = attempt + 1 /\ base' = 2 * base /\ InRequest /\ InRequest' /\ attempt < retries
      /\ UNCHANGED <<retries, polls, requests>>
  BY DEF Retry, MayRetry, InRequest, pollVars
<1>2. /\ retries \in Nat /\ attempt \in Nat /\ base \in Nat /\ base > 0 /\ slept \in Nat
      /\ requests \in Nat /\ Initial \in Nat /\ LongestRetryAfter \in Nat
  BY Numbers DEF SInv, IInv
<1>3. BaseIsPower'
  <2>1. retries - attempt' \in Nat /\ (retries - attempt') + 1 = retries - attempt
    BY <1>1, <1>2
  <2>2. /\ 2 ^ (retries - attempt) = 2 * 2 ^ (retries - attempt')
        /\ 2 ^ (retries - attempt') \in Nat
    BY <2>1 DEF SInv, PowersDouble
  <2>3. base' * 2 ^ (retries - attempt') = base * 2 ^ (retries - attempt)
    BY <1>1, <1>2, <2>2
  <2> QED BY <1>1, <2>3 DEF SInv, BaseIsPower
<1>4. PICK d \in Nat : slept' = slept + d /\ 4 * d <= 5 * base + 1 + 4 * LongestRetryAfter
  <2>1. ASSUME NEW d \in Jittered(base)  PROVE d \in Nat /\ 4 * d <= 5 * base + 1
    BY <1>2, <2>1, JitterIsBounded
  <2>2. CASE \E d \in Jittered(base) : slept' = slept + d /\ backoff' = d
    BY <1>2, <2>1, <2>2
  <2>3. CASE \E d \in 0..LongestRetryAfter : slept' = slept + d /\ backoff' = 0
    BY <1>2, <2>3
  <2> QED BY <2>2, <2>3 DEF Retry
<1>5. SleepOfRequests'
  <2> DEFINE told == 1 + 4 * LongestRetryAfter
             before == (requests - 1) * RequestSleep(retries)
  <2>1. 4 * slept <= before + 5 * (base - Initial) + attempt * told + Paused
    BY <1>1 DEF SInv, SleepOfRequests
  <2>2. attempt' * told = attempt * told + told /\ attempt * told \in Int /\ told \in Int
    BY <1>1, <1>2, TimesOneMore
  <2>3. Paused' = Paused /\ before' = before
    BY <1>1 DEF Paused, RequestSleep
  <2>4. before \in Int /\ Paused \in Int
    BY <1>2, RequestSleepCovers, Numbers DEF SInv, IInv, Paused, LongestPause
  <2>5. 4 * d <= 5 * base + told
    BY <1>2, <1>4
  <2>6. 4 * slept' = 4 * slept + 4 * d /\ 5 * (base' - Initial) = 5 * (base - Initial) + 5 * base
    BY <1>1, <1>2, <1>4
  <2>7. 4 * slept' <= before + 5 * (base' - Initial) + attempt' * told + Paused
    <3> HIDE DEF told, before
    <3> QED BY <1>2, <2>1, <2>2, <2>4, <2>5, <2>6
  <2> QED BY <1>1, <2>3, <2>7 DEF SleepOfRequests
<1> QED BY <1>3, <1>5

\* Only a pause sleeps otherwise, for its interval.
LEMMA SleepOthersKeep ==
  ASSUME SInv, Accepted \/ StillPending \/ Pause \/ End
  PROVE  BaseIsPower' /\ SleepOfRequests'
<1>1. ~InRequest' /\ UNCHANGED <<retries, attempt, base, requests>>
  BY DEF Accepted, StillPending, Pause, End, InRequest, WaitOrGiveUp, requestVars
<1>2. \/ slept' = slept /\ polls' = polls
      \/ slept' = slept + interval /\ polls' = polls + 1
  BY DEF Accepted, StillPending, Pause, End, pollVars
<1>3. BaseIsPower'
  BY <1>1 DEF SInv, BaseIsPower
<1>4. 4 * slept <= requests * RequestSleep(retries) + Paused
  BY SleepIsCovered
<1>5. /\ slept \in Nat /\ polls \in Nat /\ requests \in Nat /\ interval \in Nat
      /\ LongestPause \in Nat /\ interval <= LongestPause
  BY EffortAssumption DEF SInv, IInv, TypeOK, LongestPause
<1>6. 4 * slept' <= requests * RequestSleep(retries) + Paused'
  <2>1. requests * RequestSleep(retries) \in Int
    BY <1>5, RequestSleepCovers
  <2>2. CASE slept' = slept /\ polls' = polls
    BY <1>4, <2>2 DEF Paused
  <2>3. CASE slept' = slept + interval /\ polls' = polls + 1
    <3>1. polls' * LongestPause = polls * LongestPause + LongestPause
          /\ polls * LongestPause \in Int
      BY <1>5, <2>3, TimesOneMore
    <3>2. Paused' = 4 * (polls' * LongestPause)
      BY DEF Paused, LongestPause
    <3> QED BY <1>4, <1>5, <2>1, <2>3, <3>1, <3>2 DEF Paused
  <2> QED BY <1>2, <2>2, <2>3
<1>7. SleepOfRequests'
  BY <1>1, <1>6 DEF SleepOfRequests, RequestSleep
<1> QED BY <1>3, <1>7

LEMMA SleepNextKeeps == SInv /\ [Next]_vars => SInv'
<1>1. ASSUME SInv, UNCHANGED vars  PROVE BaseIsPower' /\ SleepOfRequests'
  BY <1>1 DEF vars, requestVars, pollVars, SInv, BaseIsPower, SleepOfRequests, Paused,
              RequestSleep, InRequest
<1>2. ASSUME SInv, [Next]_vars  PROVE BaseIsPower' /\ SleepOfRequests'
  BY <1>1, <1>2, SleepRequestKeeps, SleepRetryKeeps, SleepOthersKeep DEF Next
<1>3. SInv /\ [Next]_vars => IInv' /\ PowersDouble'
  BY NextKeeps DEF SInv, PowersDouble
<1> QED BY <1>2, <1>3 DEF SInv

\* A capture sleeps no longer than its requests at their longest, two for itself and
\* two for each poll, and the pauses between its polls.
THEOREM SleepBounded == PowersDouble => (Spec => []SleepIsBounded)
<1>1. ASSUME SInv  PROVE SleepIsBounded
  <2> DEFINE asleep == RequestSleep(retries)
  <2>1. /\ retries \in Nat /\ requests \in Nat /\ polls \in Nat /\ polls <= retries
        /\ slept \in Nat /\ asleep \in Nat
    BY <1>1, Numbers, RequestSleepCovers DEF SInv, IInv
  <2>2. requests <= 2 * (retries + 1)
    BY <1>1, Numbers DEF SInv, IInv, RequestsOfPolls, TypeOK
  <2>3. requests * asleep <= 2 * (retries + 1) * asleep
    BY <2>1, <2>2, TimesKeepsOrder
  <2>4. LongestPause \in Nat
    BY EffortAssumption DEF LongestPause
  <2>5. polls * LongestPause <= retries * LongestPause
    BY <2>1, <2>4, TimesKeepsOrder
  <2>6. 4 * slept <= requests * asleep + 4 * (polls * LongestPause)
    BY <1>1, SleepIsCovered DEF Paused
  <2>7. 4 * retries * LongestPause = 4 * (retries * LongestPause)
    BY <2>1, <2>4
  <2>8. /\ requests * asleep \in Int /\ 2 * (retries + 1) * asleep \in Int
        /\ polls * LongestPause \in Int /\ retries * LongestPause \in Int
    BY <2>1, <2>4
  <2> HIDE DEF asleep
  <2>9. 4 * slept <= 2 * (retries + 1) * asleep + 4 * retries * LongestPause
    BY <2>1, <2>3, <2>5, <2>6, <2>7, <2>8
  <2> QED BY <2>9 DEF SleepIsBounded, asleep
<1> QED BY <1>1, SleepInit, SleepNextKeeps, PTL DEF Spec
=============================================================================
