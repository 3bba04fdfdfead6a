---------------------------- MODULE AuthManager ----------------------------
(***************************************************************************)
(* `AuthManager`: the bearer token that CaptureClient and ApiClient put on *)
(* their requests.  A manager keeps one token with its expiry, and a lock  *)
(* that is held through the exchange that replaces it, so threads that     *)
(* find the token expiring wait for one exchange.  The expiry is an        *)
(* estimate: `expires_in` is added to the clock when the answer arrives,   *)
(* later than the moment the service counts from.                          *)
(***************************************************************************)
EXTENDS Integers

CONSTANTS
  Threads,      \* threads that call the manager they were given
  Managers,     \* one per CaptureClient or ApiClient
  ManagerOf,    \* the manager a thread calls
  Free,         \* the lock's holder when nobody holds it
  Buffer,       \* REFRESH_BUFFER_MS
  Lifetimes,    \* how long the service lets a token live
  MaxLatency,   \* an answer arrives within this time or the request times out; httpx
                \* applies requestTimeoutMs to each phase of a request, so this takes
                \* the phases of an answer to fit into one timeout
  MaxTime       \* bound: the clock stops here

ASSUME AuthAssumption ==
  /\ ManagerOf \in [Threads -> Managers]
  /\ Free \notin Threads
  /\ Buffer \in Nat
  /\ Lifetimes \subseteq Nat
  /\ MaxLatency \in 0..Buffer
  /\ MaxTime \in Nat

VARIABLES
  now,      \* the clock, the same for the client and the service
  lock,     \* manager -> the thread that holds its lock
  state,    \* manager -> its token: expires_at, and when it dies at the service
  pc,       \* idle, waiting (for the lock), holding, exchanging
  op,       \* the method a thread is in: get or invalidate
  answer    \* the token the service issued to the thread's pending exchange

vars == <<now, lock, state, pc, op, answer>>

Mgr(t) == ManagerOf[t]
NoToken == [dies |-> 0, expires_at |-> 0]
Tokens == [dies : Nat, expires_at : Nat]
NoAnswer == [at |-> 0, life |-> 0, issued |-> FALSE]
Answers == [at : Nat, life : Nat, issued : BOOLEAN]

Init ==
  /\ now = 0
  /\ lock = [m \in Managers |-> Free]
  /\ state = [m \in Managers |-> NoToken]
  /\ pc = [t \in Threads |-> "idle"]
  /\ op = [t \in Threads |-> "get"]
  /\ answer = [t \in Threads |-> NoAnswer]

\* The buffer forgotten: good for as long as the client believes it lives.
IsExpiringSoon_NoBuffer(m) == now >= state[m].expires_at

\* _is_expiring_soon; NoToken expires at 0, so no token counts as expiring.
IsExpiringSoon(m) == now >= state[m].expires_at - Buffer

Call(t) ==
  /\ pc[t] = "idle"
  /\ pc' = [pc EXCEPT ![t] = "waiting"]
  /\ \E o \in {"get", "invalidate"} : op' = [op EXCEPT ![t] = o]
  /\ UNCHANGED <<now, lock, state, answer>>

\* threading.Lock: whoever finds it free; no order among those who wait.
Acquire(t) ==
  /\ pc[t] = "waiting" /\ lock[Mgr(t)] = Free
  /\ lock' = [lock EXCEPT ![Mgr(t)] = t]
  /\ pc' = [pc EXCEPT ![t] = "holding"]
  /\ UNCHANGED <<now, state, op, answer>>

\* Leaving `with self._lock`, by return or by exception.
Release(t) ==
  /\ lock' = [lock EXCEPT ![Mgr(t)] = Free]
  /\ pc' = [pc EXCEPT ![t] = "idle"]
  /\ answer' = [answer EXCEPT ![t] = NoAnswer]

ReturnCached(t) ==
  /\ pc[t] = "holding" /\ op[t] = "get"
  /\ ~IsExpiringSoon(Mgr(t))
  /\ Release(t)
  /\ UNCHANGED <<now, state, op>>

Invalidate(t) ==
  /\ pc[t] = "holding" /\ op[t] = "invalidate"
  /\ state' = [state EXCEPT ![Mgr(t)] = NoToken]
  /\ Release(t)
  /\ UNCHANGED <<now, op>>

\* The lock let go for the time of the exchange.
StartExchange_Unlocked(t) ==
  /\ pc[t] = "holding" /\ op[t] = "get"
  /\ IsExpiringSoon(Mgr(t))
  /\ pc' = [pc EXCEPT ![t] = "exchanging"]
  /\ lock' = [lock EXCEPT ![Mgr(t)] = Free]
  /\ UNCHANGED <<now, state, op, answer>>

\* _exchange_token is entered with the lock held.
StartExchange(t) ==
  /\ pc[t] = "holding" /\ op[t] = "get"
  /\ IsExpiringSoon(Mgr(t))
  /\ pc' = [pc EXCEPT ![t] = "exchanging"]
  /\ UNCHANGED <<now, lock, state, op, answer>>

\* The service issues a token (external).  The request may be a retry: the
\* token of an earlier attempt is lost with its answer.
Issue(t) ==
  /\ pc[t] = "exchanging"
  /\ \E life \in Lifetimes :
       answer' = [answer EXCEPT ![t] = [at |-> now, life |-> life, issued |-> TRUE]]
  /\ UNCHANGED <<now, lock, state, pc, op>>

\* The answer arrives.  expires_at is the service's own when the answer carries
\* one the SDK can parse, and otherwise counted from the arrival.
FinishExchange(t) ==
  LET a == answer[t]
      dies == a.at + a.life IN
  /\ pc[t] = "exchanging" /\ a.issued
  /\ \E e \in {dies, now + a.life} :
       state' = [state EXCEPT ![Mgr(t)] = [dies |-> dies, expires_at |-> e]]
  /\ Release(t)
  /\ UNCHANGED <<now, op>>

\* An exception that leaves the lock held.
FailExchange_KeepsLock(t) ==
  /\ pc[t] = "exchanging"
  /\ pc' = [pc EXCEPT ![t] = "idle"]
  /\ answer' = [answer EXCEPT ![t] = NoAnswer]
  /\ UNCHANGED <<now, lock, state, op>>

\* An error status, no answer after the last retry, or an answer without the
\* fields a token needs: get_access_token raises and the old state stays.
FailExchange(t) ==
  /\ pc[t] = "exchanging"
  /\ Release(t)
  /\ UNCHANGED <<now, state, op>>

\* Time passes, but no answer stays on its way longer than MaxLatency.
Tick ==
  /\ now < MaxTime
  /\ \A t \in Threads : answer[t].issued => now < answer[t].at + MaxLatency
  /\ now' = now + 1
  /\ UNCHANGED <<lock, state, pc, op, answer>>

Holder(t) ==
  \/ ReturnCached(t) \/ Invalidate(t) \/ StartExchange(t)
  \/ FinishExchange(t) \/ FailExchange(t)

Next ==
  \/ \E t \in Threads : Call(t) \/ Acquire(t) \/ Issue(t) \/ Holder(t)
  \/ Tick

(***************************************************************************)
(* A thread inside the lock goes on: every request has a timeout and a     *)
(* bounded number of retries.  Nothing is assumed of who gets the lock.    *)
(***************************************************************************)
Fairness == \A t \in Threads : WF_vars(Holder(t))

Spec == Init /\ [][Next]_vars /\ Fairness

----------------------------------------------------------------------------
(* Properties. *)

TypeOK ==
  /\ now \in 0..MaxTime
  /\ lock \in [Managers -> Threads \cup {Free}]
  /\ state \in [Managers -> Tokens]
  /\ pc \in [Threads -> {"idle", "waiting", "holding", "exchanging"}]
  /\ op \in [Threads -> {"get", "invalidate"}]
  /\ answer \in [Threads -> Answers]

\* What the refresh buffer leaves to a caller once it has made up for the answer's
\* way: the time a request has for its retries, whose token is read but once.
Margin == Buffer - MaxLatency

\* A token a manager would serve from its cache is alive at the service, and stays so
\* for the margin, though its expiry was counted from the arrival of the answer.
CacheIsLive == \A m \in Managers : ~IsExpiringSoon(m) => now + Margin < state[m].dies

\* Threads that find the token expiring cause one exchange, not one each.
OneExchange ==
  \A t, u \in Threads :
    pc[t] = "exchanging" /\ pc[u] = "exchanging" /\ Mgr(t) = Mgr(u) => t = u

\* A token that is still good is dropped only by invalidate(), never replaced
\* by an exchange decided on before it was stored.
FreshTokenIsKept ==
  [][\A m \in Managers :
       ~IsExpiringSoon(m) => state'[m] \in {state[m], NoToken}]_vars

\* Nobody holds a manager's lock but a thread that is in one of its methods: no
\* exception and no early return leaves it behind.
LockIsNotLeftBehind ==
  \A m \in Managers : lock[m] # Free =>
    pc[lock[m]] \in {"holding", "exchanging"} /\ Mgr(lock[m]) = m

\* The lock is let go on every way out, exceptions included: a manager is never
\* stuck behind a thread that failed.
LockIsReleased ==
  \A t \in Threads : lock[Mgr(t)] = t ~> lock[Mgr(t)] # t
=============================================================================
