--------------------------- MODULE CaptureEffort ---------------------------
(***************************************************************************)
(* What one capture() costs at most: the HTTP attempts it makes and the    *)
(* time it sleeps on the thread that called it, which under FastAPI is the *)
(* event loop.  A capture is up to two requests, for a token and for the   *)
(* debit, and so is each poll; each request is tried again after a pause   *)
(* that doubles, is jittered, or is what the service asks for.  What the   *)
(* requests do is in CaptureClient; here they only succeed, fail or wait.  *)
(***************************************************************************)
EXTENDS Integers

CONSTANTS
  Settings,            \* what maxRetries may be; None counts as 3
  Initial,             \* initialRetryDelayMs, or 500 where it is not given
  LongestRetryAfter    \* the longest wait a service asks for; the SDK sets no limit

ASSUME EffortAssumption ==
  /\ Settings \subseteq Nat
  /\ Initial \in Nat \ {0}
  /\ LongestRetryAfter \in Nat

VARIABLES
  retries,     \* maxRetries of the client
  phase,       \* token, exchange, debit, pausing, done
  attempt,     \* of the request in progress
  base,        \* initial * 2 ** attempt
  backoff,     \* how long it last backed off, 0 if it did as it was told
  polls,       \* polls begun
  interval,    \* the pause before a poll
  requests,    \* history: requests made
  sent,        \* history: HTTP attempts made
  slept        \* history: milliseconds slept

requestVars == <<attempt, base, backoff, requests, sent>>
pollVars == <<polls, interval>>
vars == <<retries, phase, requestVars, pollVars, slept>>

Init ==
  /\ retries \in Settings
  /\ phase = "token"
  /\ attempt = 0 /\ base = Initial /\ backoff = 0
  /\ polls = 0 /\ interval = 0
  /\ requests = 0 /\ sent = 0 /\ slept = 0

\* Half of the delay instead of a quarter of it.
Jittered_Half(b) == {d \in 0..(2 * b) : 4 * d - 2 < 6 * b /\ 4 * d + 2 > 2 * b}

\* What round() makes of a delay b and a jitter from -b/4, included, to b/4,
\* excluded; halves go to the even neighbour.
Jittered(b) ==
  {d \in 0..(2 * b) :
     /\ 4 * d - 2 < 5 * b
     /\ 4 * d + 2 > 3 * b \/ (4 * d + 2 = 3 * b /\ d % 2 = 0)}

----------------------------------------------------------------------------
(* request_with_retry. *)

\* The exponent begun at one.
FirstDelay_Doubled == 2 * Initial

FirstDelay == Initial

\* A request begins with its first attempt.
Request(p) ==
  /\ phase' = p
  /\ attempt' = 0 /\ base' = FirstDelay /\ backoff' = 0
  /\ requests' = requests + 1 /\ sent' = sent + 1

InRequest == phase \in {"exchange", "debit"}

MayRetry_OneMore == attempt <= retries

MayRetry == attempt < retries

\* A 429, a 5xx or no answer, and a pause before the next attempt: jittered, or as
\* long as the Retry-After says, which may come to nothing.
Retry ==
  /\ InRequest /\ MayRetry
  /\ \/ \E d \in Jittered(base) : slept' = slept + d /\ backoff' = d
     \/ \E d \in 0..LongestRetryAfter : slept' = slept + d /\ backoff' = 0
  /\ attempt' = attempt + 1 /\ base' = 2 * base
  /\ sent' = sent + 1
  /\ UNCHANGED <<retries, phase, requests, pollVars>>

----------------------------------------------------------------------------
(* capture and its polls. *)

\* get_access_token answers from the cache, or exchanges a token first.
GetToken ==
  /\ phase = "token"
  /\ Request("debit") \/ Request("exchange")
  /\ UNCHANGED <<retries, pollVars, slept>>

TokenCame ==
  /\ phase = "exchange"
  /\ Request("debit")
  /\ UNCHANGED <<retries, pollVars, slept>>

\* One poll too many.
PollsLeft_Inclusive == polls <= retries

PollsLeft == polls < retries

WaitOrGiveUp == phase' = IF PollsLeft THEN "pausing" ELSE "done"

\* The POST is answered 202: the Retry-After, if there is one, is the pause before
\* each poll.  It may be 0.
Accepted ==
  /\ phase = "debit" /\ polls = 0
  /\ interval' \in {Initial} \cup 0..LongestRetryAfter
  /\ WaitOrGiveUp
  /\ UNCHANGED <<retries, requestVars, polls, slept>>

\* A poll reads a pending status.
StillPending ==
  /\ phase = "debit" /\ polls > 0
  /\ WaitOrGiveUp
  /\ UNCHANGED <<retries, requestVars, pollVars, slept>>

Pause ==
  /\ phase = "pausing"
  /\ phase' = "token"
  /\ polls' = polls + 1
  /\ slept' = slept + interval
  /\ UNCHANGED <<retries, requestVars, interval>>

\* A final status, an error, or no answer to the last attempt: capture() returns or
\* raises, and a poll that fails is the last.
End ==
  /\ InRequest
  /\ phase' = "done"
  /\ UNCHANGED <<retries, requestVars, pollVars, slept>>

Next == GetToken \/ TokenCame \/ Retry \/ Accepted \/ StillPending \/ Pause \/ End

Spec == Init /\ [][Next]_vars

----------------------------------------------------------------------------
(* Properties. *)

TypeOK ==
  /\ retries \in Settings
  /\ phase \in {"token", "exchange", "debit", "pausing", "done"}
  /\ attempt \in 0..retries /\ polls \in 0..retries
  /\ base \in Nat \ {0} /\ backoff \in Nat
  /\ interval \in {Initial} \cup 0..LongestRetryAfter
  /\ requests \in Nat /\ sent \in Nat /\ slept \in Nat

\* Retries of requests, of polls and of token exchanges multiply, but no further: 8
\* attempts with one retry, 18 with the two of the environments, 32 with the default.
AttemptsAreBounded == sent <= 2 * (retries + 1) * (retries + 1)

\* However the jitter and the rounding fall, a request backs off no shorter than
\* the time before.
BackoffGrows ==
  [][attempt' = attempt + 1 /\ backoff' # 0 => backoff' >= backoff]_vars

\* What a request sleeps at most, in quarters of a millisecond: its delays add up to
\* less than the next one would be, each jittered by a quarter and rounded, or is
\* told to wait.
RequestSleep(r) == 5 * Initial * (2 ^ r - 1) + r * (1 + 4 * LongestRetryAfter)

LongestPause == IF Initial < LongestRetryAfter THEN LongestRetryAfter ELSE Initial

\* A capture does not hold its thread asleep for longer than its retries and polls
\* and the services' own Retry-After add up to.
SleepIsBounded ==
  4 * slept <= 2 * (retries + 1) * RequestSleep(retries) + 4 * retries * LongestPause
=============================================================================
