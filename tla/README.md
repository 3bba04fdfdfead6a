# Pine Labs P3P server SDK: a verification project

TLA+ modules that model the Python SDK in `src/pinelabs_p3p_server`, the TLC
configurations that check them, and proofs for TLAPS. Paths below are relative
to `src/pinelabs_p3p_server/` unless they say otherwise.

The SDK puts a price on a server's resources. A request without payment is
answered 402 with a signed challenge; a request that brings a credential made
from such a challenge is charged through Pine Labs' debit service, and served
when the debit is done. Optionally a Grantex grant token must authorise the
payment, and a hosted Grantex budget is drawn on.

## Inventory

| Component | State | Operations | Interacts with |
|---|---|---|---|
| Capture client, `server/capture_client.py` | nothing between calls but its auth manager | `capture`, `get_debit_status` | auth manager, HTTP retry layer, debit service |
| HTTP retry layer, `utils/fetch_helpers.py` | none | `request_with_retry` | every HTTP client of the SDK |
| Auth manager, `server/auth_manager.py` | one bearer token with its expiry, a lock | `get_access_token`, `invalidate` | token service; one manager per client object |
| Challenge generator and credential verifier, `server/challenge_generator.py`, `server/credential_verifier.py` | none: the challenge id is an HMAC over what it says | `generate`, `verify` | the paying client holds the challenges |
| Payment middleware, `server/middleware/generic.py` | none between requests | `decide_payment` | all of the above, Grantex |
| Adapters, `flask_mw.py`, `fastapi_mw.py` | none | one `decide_payment` per request, then the view | middleware, the application |
| Grant verification, `grantex.py` | none | `verify`, scope matching | the `grantex` package or a verifier of the application |
| Hosted Grantex client, `grantex_hosted.py` | the lazily built client of the package | authorization, exchange, budget allocation, debit, balance, listing | the `grantex` package; the middleware makes one for each look and each debit |
| Receipt builder, `server/receipt_builder.py` | none | `build_receipt_header` | middleware |
| API client, `server/api_client.py` | its auth manager | pre-authorization, mandate, order, refund, balance, revoke | HTTP retry layer |
| Configuration, `config/`, `utils/validation.py` | the caller's config object, written to by the defaults | validation, environment defaults | everything |
| Facade, `server/pine_labs_online_p3p.py` | the clients | `create`; each method delegates to one client | everything |

What is hard here is what happens between the SDK and the services:

- an answer to a debit is lost or late, and the retry meets the debit it retries;
- an answer cannot be read after the service has acted;
- a merchant's `merchantOrderReference` is the idempotency key, and several
  requests may share it;
- a debit is answered 202 and settles while the SDK polls, or after it gave up;
- threads share a token that expires, with answers that take their time;
- a budget is looked at in one request, and drawn on in another after the money
  has moved, by a call that may fail or be repeated;
- a credential is used late, used twice, changed, or shown for another price;
- the config is one object that threads share and that `create` writes to;
- threads share a client of the hosted service that the first of them builds.

What makes each component correct:

- capture: what it reports is true of the caller's own debit; it ends; a refusal
  does not hide a debit; a debit that was answered 202 is not sent again;
- auth: cached tokens are alive, one exchange at a time, the lock is let go;
- API client: a refund or revocation is done once, or the caller can know that it
  may have been done twice; a refusal means that nothing was done;
- challenge and verifier: only unchanged, unexpired challenges of this server pass;
- retries: what one capture costs, in requests and in sleep, has an end that
  `maxRetries` sets, and a request backs off longer each time;
- middleware: money moves only with consent, the resource only after the money,
  the budget only after the money and by the grant, who paid is served, and every
  request is answered;
- configuration: what the application chose is kept, the rest is the environment's;
- hosted client: a result tells of something done and promises nothing that was not
  there; which exception is raised says whether anything was sent.

`PROJECT.json` lists the hazards by source line, with the properties that speak
of each.

## Modules

| Module | Models | State and actions |
|---|---|---|
| `DebitTerms` | the words all share: debit statuses, HTTP codes, ways a capture ends | none |
| `DebitContract` | what a capture promises, abstractly | `ledger`, `outcome`; `Book`, `SettleDebit`, `Report` |
| `RetriedRequest` | what a client that retries promises of one request, abstractly | `verdict`, `doubt`, `done`; `Act`, `Undo`, `Proceed` |
| `BudgetContract` | what a hosted budget and its `debit_budget` promise, abstractly | `remaining`, `price`, `drawn`, `told`; `Ask`, `Draw`, `Report`, `Refill` |
| `PaidAccess` | what the gate promises of one paid request, abstractly | `debit`, `access`, `drawn`; `Ask`, `Debit`, `Settle`, `Open`, `Draw` |
| `CaptureClient` | `capture`, `_poll_debit_status`, `get_debit_status`, `request_with_retry`, against an external debit service | below |
| `CaptureEffort` | what a `capture` costs: its attempts, back-off, pauses and polls | below |
| `MerchantApi` | `ApiClient` and its option checks, over `request_with_retry`, against an external service | below |
| `AuthManager` | `AuthManager` against an external token service and a clock | below |
| `Challenge` | `generate` and `verify` as pure operators | none |
| `Grantex` | grant and scope checks, caps | none |
| `PaymentGate` | `decide_payment` over `DebitContract`, `BudgetContract`, `Challenge` and `Grantex` | below |
| `ServerConfig` | `create`, `validate_config`, the environment defaults, what the clients read | below |
| `HostedGrantex` | `HostedGrantexClient` and the facade's methods for it, against the external package and service | below |
| `...Proofs` | proofs about `CaptureClient`, `CaptureEffort`, `MerchantApi`, `AuthManager`, `PaymentGate`, `ServerConfig`, `HostedGrantex`; `DecisionProofs` about `Challenge` and `Grantex` | |
| `MC...` | instances for TLC | |

**CaptureClient.** `pc` is where a call is in `capture` (ready, waiting for a
token, waiting for the POST, sleeping between polls, at an interval too long to
sleep, waiting for a GET, done);
`attempt` is the loop variable of `request_with_retry`, `polls` that of
`_poll_debit_status`; `reply` is the answer on its way to the attempt a call
waits for; `inflight` the POSTs the service has not dealt with, which outlive the
attempt that sent them; `ledger` the service's debits by idempotency key; `seen`
is a history variable. `Receive` and `Fault` are one turn of the retry loop each,
with an answer and without. `Service` takes any POST in flight at any time and
turns it away, rejects it as a duplicate, accepts it or declines it; the
answer may be a 5xx though the debit was made, and may be unreadable (`Garbled`),
carry a `Retry-After` the SDK cannot turn into a number (`Endless`), or one it can
but `time.sleep` cannot take (`Overlong`). A GET
and its answer are one step: it changes nothing at the service, and a debit
that settles after the read is one the next poll or nobody sees.

Each call carries its own `MaxRetries`, since calls of differently configured
clients meet on one key. Seen abstractly a call is also a `RetriedRequest`: its
verdict, whether it lost track of an attempt, and the debits it has had.

**CaptureEffort.** One capture, seen by the clock of the thread that called it.
`attempt` and `base` are the loop variable of `request_with_retry` and the delay it
stands for; `Jittered` is what `round` can make of a delay and its jitter, so that
every outcome of `random` is taken. `polls` and `interval` are those of
`_poll_debit_status`. `sent` and `slept` count over the whole call: the POST, its
polls, and the token exchanges that any of them may need first. Whether a request
succeeds, fails or waits is free here; what it then means is in `CaptureClient`.

**AuthManager.** `lock` and `state` are the fields of each manager, `pc` and `op`
are where each thread is; a token carries the time it dies at the service, which
the client cannot know, next to the `expires_at` the client computes.

**PaymentGate.** `request` is what a payer has sent: the route it asks for (a
config and a charge), the header, the grant. A payer that is turned away may come
again, with another credential and for another route or price, until one of its
requests is captured; the challenges it was sent stay with it (`issued`). `stage`
marks the places where `decide_payment` waits for somebody else: the grant check,
the capture, the budget debit. Between them other requests run. The capture is
`DebitContract!Report`: any outcome the contract allows. `CaptureClient` implements
that contract, which is checked by TLC and proved. The hosted budget is
`BudgetContract`: a debit that is asked for takes effect at any time, also after the
call gave up on it, and up to `BudgetTries` times. `HostedGrantex` implements that
one. `decision` is the action of the
`PaymentDecision`, or `raised` when an exception leaves `decide_payment`. The views
`DebitView` and `AccessView` map it to `PaidAccess`. A charge that is not positive
raises when a challenge is to be made for it, and is never captured.

**MerchantApi.** Each call of an `ApiClient` method is one request: its options are
checked (`Begin`), a token is fetched (`Authorise`), and `Receive` and `Fault` are
turns of the retry loop as in `CaptureClient`. What differs is what the service can
know a repeat by: the Idempotency-Key of a pre-authorization. A refund's
Request-ID is the same in every attempt, and so is the X-Request-Id that
`request_with_retry` gives every request, which is all a revocation has; but nothing
in the SDK says the service heeds them, and the model's does not. `effects` is the set
of attempts that changed something. A body is `Good` (a parser takes it),
`Garbled` (not JSON, or an object no parser takes) or `Odd` (JSON that is no object:
it breaks the error path too).

**ServerConfig.** `settings` is the caller's config object, the three fields that
`with_p3p_environment_defaults` writes; `config` remembers what the application put
there. A thread calls `create` or builds the `CaptureClient` of `decide_payment`;
`at` is the field it is at. One field is written (`Fill`) or read (`Read`) per step,
because nothing locks the object; a single assignment `x = x or default` is one
step, since every writer computes the same value from the same environment.
`Effective` is what `request_with_retry` makes of a client's setting when it sends.

**HostedGrantex.** `pc` follows a call through `_get_client` (found or to be built,
unlocked), the parameters, the wait for the package, and the normalisation of what
came back. The package's retries (`attempts`) and the attempts it has given up but
the service still acts on (`underway`) are external. `remaining` is the budget at
the service. `most` is a history variable: the most the budget held since a call was
sent. An answer may lack its number (`Incomplete`) or hold one that `float` and
`int` cannot (`TooLarge`), which raises outside `_call_hosted`. An answer to an
attempt that was given up may still be taken for the call's: the package is not in
the repository, and this allows more than it can do.

## Runs

| Run | Question | Instance |
|---|---|---|
| `capture_races` | do calls that race for one key implement both contracts, tell the truth, and end? | 2 calls, 1 key, `maxRetries` 2 and 1 |
| `capture_repost` | is a debit answered 202 ever sent again? (it is) | 1 call, `maxRetries` 1 |
| `capture_poll` | can polling an accepted debit raise? (it can) | 1 call, `maxRetries` 1 |
| `capture_effort` | how many attempts and how much sleep is one capture, and do its delays grow? | `maxRetries` 0 to 3, delay 3, Retry-After up to 4 |
| `auth_shared` | cache, exchange and lock of one manager | 2 threads, lifetimes 1 and 5, buffer 3, latency up to 2, clock to 7 |
| `gate` | consent, the order of debit, budget and service, and an answer to everybody | 2 payers that come again, 1 key, a plain, an enforcing and a free route, budget 5 for charges of 2, repeated debits, clock to 1 |
| `gate_failed` | is only a paid request served? (no) | 2 payers, plain route |
| `gate_quote` | is the price that is debited the one that was quoted? (no) | 2 payers, routes of two prices |
| `api_calls` | every method: when is it done twice, what does its caller see, and does it end? | 2 calls, 1 key, 7 sets of options, `maxRetries` 2 and 0 |
| `server_config` | what do clients work with while defaults are written? | 3 threads, 6 settings for each environment, key and enforcement |
| `config_defaults` | do the environment's defaults reach every client? (no) | 1 thread, nothing set |
| `hosted_grantex` | what do results and exceptions of the hosted methods mean? | 2 calls of six methods, `maxRetries` 1, budget unallocated or full |

Why the bounds are enough. Calls of `CaptureClient` and of `ApiClient` meet only at
an idempotency key, so two calls are what a race needs; a third finds the key taken
as the second does. One retry shows a late attempt next to its successor, the
environments' two a late one next to two; the proofs have any number, none included.
`capture_effort` has every setting from none, where nothing is polled, to the
default of three; a delay of 3 is jittered to 2, 3 or 4 and is the least at which a
quarter of it, rounded, makes a difference, and the waits asked for may be shorter or
longer than it. `NewDebit` gives an
accepted debit one pending status, and a final one: the SDK treats all pending
statuses alike. The lifetimes lie on both sides of the refresh buffer, and the clock
runs past two lifetimes. A challenge lives for one tick, so that it can expire between the
answer and the credential. The gate's budget pays for two charges but not for one
that is drawn twice and another; its free route is the charge `generate` rejects. The settings of `server_config` have for each field
None, a value and a zero; of three threads two can write while one reads. Two hosted
calls race for the client and for the budget; a third adds another of the same. The
clock's bound and the number of times a budget debit takes effect (`BudgetTries`)
are the only bounds that stand for something unbounded; what is proved has no bound
but these.

`CHECK_DEADLOCK FALSE` stands where the system stops: calls and requests end. The
auth manager's threads go on forever, and there deadlock is checked.

**Fairness.** `CaptureClient`, `MerchantApi`, `PaymentGate` and `HostedGrantex` assume weak fairness
of a call's own steps once it has begun: each request carries a timeout, so an attempt is
answered or faults; each sleep ends. Nothing is assumed of the services. For
`PaymentGate`, that a capture ends is `EveryCallEnds` of `CaptureClient`.
`AuthManager` assumes it of the thread that holds the lock, for the same reason,
and nothing about who gets the lock next. The grantex package is given a timeout
(`hosted.timeoutMs` or 30 s), so a wait for it ends. `ServerConfig` and
`CaptureEffort` state none.

**What the runs show.** Between any two calls on a key, in any order of losses,
late deliveries and settlements, a reported debit is the caller's own and a final
status is the ledger's (`KeepsContract`, `ReportsOwnDebit`). A refusal with an HTTP
status hides no live debit of the call, unless an attempt went unanswered or was
answered 5xx (`RefusalMeansNoDebit`): it is the caller's only excuse for paying
again, and these two are the only signs against it. In the gate no debit is made
but for an unchanged, unexpired challenge of this server and within the grant's
cap, and nothing is served or drawn from a budget before the request's own debit has
settled, whoever shares its key (`GivesPaidAccess`). The budget is drawn on for the
amount debited and on the grant that was shown (`DrawIsGranted`), and who is known to
have paid, or whose budget was drawn on, is not turned away (`PaidIsHonoured`).
A capture with `maxRetries` r makes at most 2 (r + 1)^2 HTTP attempts, 32 by default
(`AttemptsAreBounded`), and sleeps no longer than its retries and polls add up to
(`SleepIsBounded`): by default, and without a Retry-After, a little over 36 seconds,
which under FastAPI the event loop sleeps too. A Retry-After has no limit in the SDK
and multiplies. Whatever the jitter, a delay is never shorter than the one before
(`BackoffGrows`). A token from the cache lives on for what the latency leaves of the
refresh buffer, which is the time a request has for its retries (`CacheIsLive`).
A refund or a revocation can take effect once for each attempt, and does so only in
calls that saw an attempt go unanswered or be answered 5xx (`RepeatIsInDoubt`): a
429, a 4xx or a success, readable or not, never leads to a second one. The same two
signs are the only ones with which a refusal can hide an effect. Both clients keep
the one abstract promise `RetriedRequest` (`KeepsPromise`).

An application's choices survive any number of threads that write defaults
(`ExplicitSettingsKept`), the clients of an instance never see a field unfilled
(`InstancesUseEnvironmentDefaults`), and no default timeout is longer than the
minute by which tokens are renewed early (`LatencyWithinBuffer`), which is what
`AuthManager` assumes. Both speak of the configured timeout: httpx applies it to each
phase of a request, so an answer that trickles in may take longer in all.

The hosted client keeps `BudgetContract`: its debits are for the amount asked, at most
one for each attempt and within what is left, and one that returns has taken effect
(`KeepsBudgetContract`). No result tells of more than the
budget held since the call was sent; an exception other than
`HostedGrantexError` means that nothing was sent, or that the answer held a number
out of range.

## Findings

1. `capture_repost`. `server/capture_client.py:106` and the README say that a
   debit answered 202 is never sent again with its key. It is when the 202 is
   lost or late: `request_with_retry` sends the POST again, and the 422 of the
   resubmit reaches the payer as a refusal while the debit lives.
2. `capture_poll`. `server/capture_client.py:134` says that polling never raises
   and leaves the caller with the pending debit. The sleep before a poll is outside
   its `try`: a `Retry-After` of 1e300, say, raises there, and the caller gets
   neither the pending result nor a key that was generated for the call.
3. `gate_failed`. `decide_payment` serves every debit that is not pending, a
   FAILED one included, with a receipt that says success.
4. `gate_quote`. The challenge says what the resource costs and signs it; the debit
   is of the amount the route charges when the credential arrives, and nothing
   compares the two. A challenge of a cheaper route, or of yesterday's price, pays
   for another.
5. `config_defaults`. The README's table of environment defaults holds for the
   clients of an instance. `decide_payment` builds its client from the config as it
   is: unless `create` was called with the same object, requests go out with the
   defaults of `request_with_retry`.

## Proofs

For any number of calls, keys, threads, managers, payers, routes, grants and
configs, any `maxRetries`, buffer, budget and lifetimes. The assumptions are
`CaptureAssumption` (each call has a key,
`MaxRetries` is a natural number, a debit does not begin FAILED: a declined one
is `Decline`), `ApiAssumption`, `ConfigAssumption` and `HostedAssumption` (types),
`EffortAssumption` (naturals; a positive delay, which `x or 500` sees to),
`GateAssumption` (types; a challenge of another server is not genuine under any
route's secret) and `AuthAssumption` (naturals; a free lock is held by no thread; no
answer takes longer than the refresh buffer, 60 s, which the SDK's defaults
for the request timeout keep).

`CaptureClientProofs`. What is reported at the end of a call rests on what was
known before it, so the properties are not inductive alone. `IInv` adds, in named
parts: a call that has not ended has no outcome (`Undecided`); one that has not
sent anything has no debit (`Unsent`); an answer is only on its way to the attempt
waited for, which is then no longer in flight (`ReplyIsAwaited`), and a success
answer speaks of the caller's own debit (`ReplyIsTrue`); who polls owns a debit
(`Followed`); a POST that is still in flight though nobody waits for it is counted
among the unanswered (`LateIsUnanswered`); and a live debit of a call is known to
it or in doubt (`LiveDebitIsKnown`). The last two carry `RefusalMeansNoDebit`: a
debit can be booked by a late attempt only, and then the call has seen an attempt
go unanswered. There is one lemma per action, `NextKeeps` joins them, and from
`IInv` follow `TypeOK`, `ReportsOwnDebit`, `RefusalMeansNoDebit`, the action
property `NoRepostAfter202`, and the refinement: `ImplementsContract` shows every
step of the client to be a step of `DebitContract` or to change neither ledger nor
outcomes. `ImplementsPromise` does the same for `RetriedRequest`, where what a call
did is the set of debits it owns, live or failed: a call whose doubt has not begun
has at most one attempt that can act, which is what `LateIsUnanswered` says.

`CaptureEffortProofs`. Attempts are counted by request: those before the one in
progress made `maxRetries + 1` at most, and there are two requests for the capture
and two for each poll begun. Delays are compared in quarters: a jittered delay is at
most 5/4 of its base and at least 3/4 of it, and the base doubles, so a delay of the
shortest kind outdoes the longest before it. The time asleep needs the sum of the
delays: it is less than 5/4 of the base reached (`SleepOfRequests`), and the base has
still to double once for each retry left (`BaseIsPower`), which bounds it without a
sum. The provers take `2 ^ n` for a number and know nothing more of it, so
`SleepBounded` has the hypothesis `PowersDouble`: that powers of two are positive
naturals, each the double of the one before.

`DecisionProofs`. Of the two decisions that are pure operators. A wildcard scope is
compared part by part, from which covering is transitive and a grant derived from
another allows no more than it (`DerivedGrantAllowsNoMore`). A credential that passes
says what the challenge with its id said (`VerifiedIsUnchanged`), and a challenge that
comes back as it was sent passes exactly while it lives, wherever secret, realm and a
method are the same (`ChallengeHoldsElsewhere`): the server needs no memory of it.

`MerchantApiProofs`. The same argument without polls: attempts in flight other than
the one waited for are late, late attempts are in doubt, a call without doubt has
had at most one effect and that by its last attempt. From this come
`RepeatIsInDoubt`, `RefusalMeansNoEffect`, `ResultHasEffect` and the refinement.

`PaymentGateProofs`. `IInv` says that a request whose capture has not begun owns no
debit and no draw, that one that has begun keeps the request it began with and
consented to, and that a request past the capture owns a debit that has settled.
Settled debits stay settled. `ImplementsPaidAccess` maps each action to a step of
`PaidAccess` or to a stutter; the lemmas about `DebitContract` say what its three
actions do to the view of the ledger. A second invariant on top of it, `HInv`, follows
what the capture told the server: it is told something once, a budget is asked for
only after a settled debit, and from then on no step decides against the payer.

`ServerConfigProofs`. Each field of the shared object is what the application put
there or what the defaults make of it, never anything else; the fields a thread of
`create` has passed are filled; and filling twice is filling once. So a client's
field is one of two values, with one effect where the application chose.

`HostedGrantexProofs`. `ImplementsBudgetContract` maps the steps of a `debit_budget` to
those of `BudgetContract` and all others to stutters. A call draws at most by the attempts that were processed; an
answer that is a success was preceded by a draw of the same call; every number on
its way or told is at most `most`, which never falls; who builds a client began
before there was one.

`AuthManagerProofs`. `IInv` says that who is inside the lock holds it, that nobody else does, that
an exchange runs only while the stored token is expiring, that answers are timely,
and that a stored expiry is at most the latency later than the token's death.
`CacheIsLive` follows, with what the buffer has left as margin; mutual exclusion is
`OneExchange`, and `FreshTokenIsKept` its consequence for steps.

Only model-checked: the liveness properties `EveryCallEnds`, `LockIsReleased`,
`SettledIsServed` and `EveryRequestIsDecided` (fairness and ENABLED are beyond the
prover), and the findings. What no step may undo on the way to them is proved:
`LockIsNotLeftBehind` for the lock, `PaidIsHonoured` for the payer who paid,
`AttemptsAreBounded` for the number of turns a call can take.

## Not modelled

- The plain data types and re-exports: see `PROJECT.json`. Of the facade, the
  methods that only pass their arguments on.
- An application that changes its config after the start. One that changes `env`
  keeps the defaults of the environment it had: they look like its own choices.
- The contents of hosted Grantex results other than the number of a budget: which
  key of an answer a string is read from.
- What the API client's parsers put in which field, and the redirect URL it adds:
  only whether they take an answer.
- The API client's order and customer fields in a request. Its option checks are
  modelled; one of them, `utils/validation.py:93`, asks for a phone number in every
  balance lookup, though line 92 asks for it only without an authorizationId.
- Logging; wording of errors. Of time: how long an attempt waits for its answer, which
  its timeout bounds, and the wait for the auth manager's lock.
- The allocation of budgets under the gate, whose budget is there from the start.
- HMAC, base64 and JSON: a challenge id is the tuple of what it was computed
  over, and a credential decodes or does not.
- A config.verifier that calls a token valid without returning a grant: then
  agent, scopes, cap and budget are all skipped.
- Debit statuses the SDK does not know. The model takes the SDK's list of pending
  statuses for complete; one that is missing would be served as paid.
- The application: the view after the decision, and the event loop under FastAPI.

## Plan

Done, in this order: `DebitTerms` and `DebitContract`; `CaptureClient` with its
runs and proofs; `AuthManager` with its; `Challenge`, `Grantex`, `PaymentGate`;
`MerchantApi`; `RetriedRequest` and its two implementations; payers that come again,
prices that change and `PaidAccess`; the proofs about the gate and the API client;
`ServerConfig` and `HostedGrantex` with theirs; `BudgetContract` between the gate and
the hosted client; `CaptureEffort`; the proofs about both and about the pure
decisions.

Left:

1. The two looks at one budget, before the challenge and after the capture, as one
   promise about payers who share a grant.
2. `ServerConfig` under the gate, so that a route's clients have the retries their
   config was given.
3. A measure that every step of a call lowers: the part of `EveryCallEnds` that can
   be proved.
