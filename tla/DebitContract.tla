--------------------------- MODULE DebitContract ----------------------------
(***************************************************************************)
(* What a capture promises its caller, whatever happens on the network.    *)
(*                                                                         *)
(* The ledger is Pine Labs' record of debits, one entry per idempotency    *)
(* key, and each entry is booked once, by one call.  A call ends with one  *)
(* outcome, and an outcome that speaks of a debit speaks of the call's own *)
(* debit: a terminal status is the ledger's, and a debit reported pending  *)
(* is one the ledger holds, so the caller can look it up by its key.       *)
(* The contract says nothing of the calls that end refused or raised.      *)
(***************************************************************************)
EXTENDS DebitTerms

CONSTANTS Calls, Keys, KeyOf, NoCall

VARIABLES ledger, outcome

contractVars == <<ledger, outcome>>

Unbooked == [status |-> "NONE", owner |-> NoCall]

Entry(c) == ledger[KeyOf[c]]

Truthful(c, o) ==
  /\ o.kind \in {"result", "pending"} => Entry(c).owner = c
  /\ o.kind = "result" /\ ~IsPendingDebitStatus(o.status)
       => Entry(c).status = o.status

Init ==
  /\ ledger = [k \in Keys |-> Unbooked]
  /\ outcome = [c \in Calls |-> NoOutcome]

Book(c) ==
  /\ Entry(c) = Unbooked
  /\ \E s \in DebitStatuses :
       ledger' = [ledger EXCEPT ![KeyOf[c]] = [status |-> s, owner |-> c]]
  /\ UNCHANGED outcome

SettleDebit(k) ==
  /\ IsPendingDebitStatus(ledger[k].status)
  /\ \E s \in FinalStatuses : ledger' = [ledger EXCEPT ![k].status = s]
  /\ UNCHANGED outcome

Report(c) ==
  /\ outcome[c] = NoOutcome
  /\ \E o \in Outcomes : Truthful(c, o) /\ outcome' = [outcome EXCEPT ![c] = o]
  /\ UNCHANGED ledger

Next ==
  \/ \E c \in Calls : Book(c) \/ Report(c)
  \/ \E k \in Keys : SettleDebit(k)

Spec == Init /\ [][Next]_contractVars
=============================================================================
