----------------------------- MODULE DebitTerms -----------------------------
(***************************************************************************)
(* The vocabulary of a debit, shared by the modules that talk about one:   *)
(* the statuses Pine Labs gives a debit, the HTTP codes the SDK tells      *)
(* apart, and the ways `CaptureClient.capture` can end.  No state here.    *)
(***************************************************************************)
EXTENDS Naturals

(***************************************************************************)
(* Debit statuses.  PENDING_DEBIT_STATUSES is a literal list in the SDK:   *)
(* every status outside it is taken for terminal.                          *)
(***************************************************************************)
PendingDebitStatuses == {"PENDING", "CREATED", "OMS_PAYMENT_SUBMITTED", "PROCESSING"}

IsPendingDebitStatus(s) == s \in PendingDebitStatuses

FinalStatuses == {"PROCESSED", "FAILED"}     \* what a debit can settle to

DebitStatuses == PendingDebitStatuses \cup FinalStatuses

\* Three ways an answer defeats the SDK: a body it cannot turn into a result or
\* an error (not JSON, or a field that collides with one the SDK adds), a
\* Retry-After header such as "inf" that int() cannot hold, and one such as
\* "1e300" that int() holds and time.sleep() does not.
Garbled == "GARBLED"
Endless == "ENDLESS"
Overlong == "OVERLONG"

(***************************************************************************)
(* HTTP codes, as numbers because the SDK compares them; 0 is no answer    *)
(* at all (httpx.TimeoutException or httpx.HTTPError).                     *)
(***************************************************************************)
NoAnswer == 0
Codes == {200, 202, 401, 404, 422, 429, 503}

ErrorCodes == {code \in Codes : code >= 400}

IsRetriableStatus(code) == code = 429 \/ code >= 500

(***************************************************************************)
(* How a capture ends.                                                     *)
(*   result   a CaptureResult read from a 200, with the status it carries; *)
(*   pending  the CaptureResult of a 202, marked pending = True;           *)
(*   refused  P3PCaptureError that carries the HTTP status of the answer;  *)
(*   raised   any other exception: nothing is known about the debit.       *)
(***************************************************************************)
Outcome(kind, code, status) == [kind |-> kind, code |-> code, status |-> status]

NoOutcome      == Outcome("none", NoAnswer, Garbled)
Result(s)      == Outcome("result", 200, s)
PendingResult  == Outcome("pending", 202, "PENDING")
Refused(code)  == Outcome("refused", code, Garbled)
Raised         == Outcome("raised", NoAnswer, Garbled)

Outcomes == {NoOutcome, PendingResult, Raised}
              \cup {Result(s) : s \in DebitStatuses}
              \cup {Refused(code) : code \in ErrorCodes}
=============================================================================
