--------------------------- MODULE RetriedRequest ---------------------------
(***************************************************************************)
(* What a client that retries may promise about a request that changes     *)
(* something at a service it cannot see.                                   *)
(*                                                                         *)
(* A call takes effect once; again, or after it has ended, only if it lost *)
(* track of an attempt before.  It may end refused with an effect behind   *)
(* it only if it lost track.  So a caller that was refused, and whose call *)
(* never lost track, may safely ask again.                                 *)
(***************************************************************************)
CONSTANTS
  Calls,
  Marks      \* by what the service tells the effects of one call apart

VARIABLES
  verdict,   \* what the caller was told, "open" while it waits
  doubt,     \* whether the call lost track of an attempt
  done       \* the effects the call has had at the service

promiseVars == <<verdict, doubt, done>>

Verdicts == {"open", "returned", "refused", "unknown"}

Init ==
  /\ verdict = [c \in Calls |-> "open"]
  /\ doubt = [c \in Calls |-> FALSE]
  /\ done = [c \in Calls |-> {}]

MayAct(c) == doubt[c] \/ (verdict[c] = "open" /\ done[c] = {})

Act(c) ==
  /\ MayAct(c)
  /\ \E x \in Marks \ done[c] : done' = [done EXCEPT ![c] = @ \cup {x}]
  /\ UNCHANGED <<verdict, doubt>>

\* What was begun comes to nothing, as a debit that fails in the end.
Undo(c) ==
  /\ done' = [done EXCEPT ![c] = {}]
  /\ UNCHANGED <<verdict, doubt>>

\* An answer, or none, and perhaps the end of the call.
Proceed(c) ==
  /\ verdict[c] = "open"
  /\ \E lost \in BOOLEAN, v \in Verdicts :
       /\ doubt' = [doubt EXCEPT ![c] = @ \/ lost]
       /\ v = "refused" => done[c] = {} \/ doubt[c] \/ lost
       /\ verdict' = [verdict EXCEPT ![c] = v]
  /\ UNCHANGED done

Next == \E c \in Calls : Act(c) \/ Undo(c) \/ Proceed(c)

Spec == Init /\ [][Next]_promiseVars
=============================================================================
