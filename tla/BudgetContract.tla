--------------------------- MODULE BudgetContract ---------------------------
(***************************************************************************)
(* What a debit of a grant's hosted budget promises its caller, whatever   *)
(* the grantex package and the network do.                                 *)
(*                                                                         *)
(* A debit that was asked for may be drawn more than once, since it carries *)
(* no key by which the service could know a repeat, and may be drawn after *)
(* the caller was told that it failed.  It is never drawn for more than    *)
(* was asked, nor when less is left; and a caller that was told it         *)
(* succeeded has been drawn on.                                            *)
(***************************************************************************)
EXTENDS Integers

CONSTANTS
  Calls,
  Tries        \* how often the package sends a debit at most

VARIABLES
  remaining,   \* the budget
  price,       \* what a call asked to be debited, NotAsked if it has not
  drawn,       \* how often its debit was drawn
  told         \* open, returned, failed

budgetVars == <<remaining, price, drawn, told>>

NotAsked == -1

Init ==
  /\ remaining \in Nat
  /\ price = [c \in Calls |-> NotAsked]
  /\ drawn = [c \in Calls |-> 0]
  /\ told = [c \in Calls |-> "open"]

Ask(c, amount) ==
  /\ price[c] = NotAsked /\ told[c] = "open"
  /\ price' = [price EXCEPT ![c] = amount]
  /\ UNCHANGED <<remaining, drawn, told>>

Draw(c) ==
  /\ price[c] # NotAsked /\ drawn[c] < Tries
  /\ remaining >= price[c]
  /\ remaining' = remaining - price[c]
  /\ drawn' = [drawn EXCEPT ![c] = @ + 1]
  /\ UNCHANGED <<price, told>>

Report(c) ==
  /\ told[c] = "open"
  /\ \E t \in {"returned", "failed"} :
       /\ t = "returned" => drawn[c] > 0
       /\ told' = [told EXCEPT ![c] = t]
  /\ UNCHANGED <<remaining, price, drawn>>

\* A budget that is used up is given anew.
Refill ==
  /\ remaining = 0
  /\ remaining' \in Nat
  /\ UNCHANGED <<price, drawn, told>>

Next ==
  \/ \E c \in Calls : Draw(c) \/ Report(c)
  \/ \E c \in Calls : price'[c] \in Nat /\ Ask(c, price'[c])
  \/ Refill

Spec == Init /\ [][Next]_budgetVars
=============================================================================
