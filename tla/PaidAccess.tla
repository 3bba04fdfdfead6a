----------------------------- MODULE PaidAccess -----------------------------
(***************************************************************************)
(* What a payment gate promises about each request for a paid resource:    *)
(* no debit before the payer asked for one, no draw on the grant's budget  *)
(* and no access before that debit settled, and nothing taken back.        *)
(***************************************************************************)
CONSTANT Requests

VARIABLES
  debit,    \* the debit of a request: none, pending, settled
  access,   \* closed, asked for with a credential, open
  drawn     \* requests for which the budget was drawn on

accessVars == <<debit, access, drawn>>

Init ==
  /\ debit = [r \in Requests |-> "none"]
  /\ access = [r \in Requests |-> "closed"]
  /\ drawn = {}

\* A credential that passes is presented.
Ask(r) ==
  /\ access[r] = "closed"
  /\ access' = [access EXCEPT ![r] = "asked"]
  /\ UNCHANGED <<debit, drawn>>

Debit(r) ==
  /\ access[r] # "closed" /\ debit[r] = "none"
  /\ \E d \in {"pending", "settled"} : debit' = [debit EXCEPT ![r] = d]
  /\ UNCHANGED <<access, drawn>>

Settle(r) ==
  /\ debit[r] = "pending"
  /\ debit' = [debit EXCEPT ![r] = "settled"]
  /\ UNCHANGED <<access, drawn>>

\* The settled debit is counted against the budget, perhaps when the payer has
\* long been answered.
Draw(r) ==
  /\ access[r] # "closed" /\ debit[r] = "settled"
  /\ drawn' = drawn \cup {r}
  /\ UNCHANGED <<debit, access>>

Open(r) ==
  /\ access[r] = "asked" /\ debit[r] = "settled"
  /\ access' = [access EXCEPT ![r] = "open"]
  /\ UNCHANGED <<debit, drawn>>

Next == \E r \in Requests : Ask(r) \/ Debit(r) \/ Settle(r) \/ Draw(r) \/ Open(r)

Spec == Init /\ [][Next]_accessVars
=============================================================================
