------------------------- MODULE AuthManagerProofs -------------------------
(***************************************************************************)
(* Proofs about AuthManager, for any threads, managers, lifetimes and any  *)
(* latency up to the refresh buffer.                                       *)
(***************************************************************************)
EXTENDS AuthManager, TLAPS

\* A thread past the lock holds it.
InsideHolds == \A t \in Threads : pc[t] \in {"holding", "exchanging"} => lock[Mgr(t)] = t

\* The reason for an exchange outlasts it: the token only gets older.
ExchangeIsNeeded == \A t \in Threads : pc[t] = "exchanging" => IsExpiringSoon(Mgr(t))

\* An answer on its way is at most MaxLatency old.
AnswersAreTimely ==
  \A t \in Threads : answer[t].issued => now <= answer[t].at + MaxLatency

\* The client's estimate is late by at most the latency of the answer.
EstimateIsClose == \A m \in Managers : state[m].expires_at <= state[m].dies + MaxLatency

IInv ==
  /\ TypeOK
  /\ LockIsNotLeftBehind
  /\ InsideHolds
  /\ ExchangeIsNeeded
  /\ AnswersAreTimely
  /\ EstimateIsClose

\* The invariant holds before any call.
LEMMA InitInvariant == Init => IInv
  BY AuthAssumption
  DEF Init, IInv, TypeOK, InsideHolds, ExchangeIsNeeded, AnswersAreTimely, EstimateIsClose,
      LockIsNotLeftBehind, NoToken, Tokens, NoAnswer, Answers

\* Leaving the lock keeps every part but the state's.
LEMMA ReleaseKeeps ==
  ASSUME IInv, NEW t \in Threads, Release(t), pc[t] \in {"holding", "exchanging"},
         UNCHANGED <<now, op>>,
         state' \in [Managers -> Tokens],
         \A m \in Managers : m # Mgr(t) => state'[m] = state[m],
         state'[Mgr(t)].expires_at <= state'[Mgr(t)].dies + MaxLatency
  PROVE  IInv'
<1> USE AuthAssumption DEF Release, Mgr, IInv
<1>1. TypeOK'
  BY DEF TypeOK, NoAnswer, Answers
<1>2. InsideHolds'
  BY DEF TypeOK, InsideHolds
<1>3. ExchangeIsNeeded'
  <2> SUFFICES ASSUME NEW u \in Threads, pc'[u] = "exchanging"
               PROVE  IsExpiringSoon(Mgr(u))'
    BY DEF ExchangeIsNeeded
  <2>1. pc[u] = "exchanging" /\ u # t
    BY DEF TypeOK
  <2>2. Mgr(u) # Mgr(t)
    BY <2>1 DEF InsideHolds
  <2> QED BY <2>1, <2>2 DEF TypeOK, ExchangeIsNeeded, IsExpiringSoon
<1>4. AnswersAreTimely'
  BY DEF TypeOK, AnswersAreTimely, NoAnswer
<1>5. EstimateIsClose'
  BY DEF TypeOK, EstimateIsClose
<1>6. LockIsNotLeftBehind'
  BY DEF TypeOK, LockIsNotLeftBehind
<1> QED BY <1>1, <1>2, <1>3, <1>4, <1>5, <1>6

\* A step that leaves clock, tokens and answers alone.
LEMMA QuietKeeps ==
  ASSUME IInv, NEW t \in Threads, Call(t) \/ Acquire(t) \/ StartExchange(t)
  PROVE  IInv'
<1> USE AuthAssumption DEF Call, Acquire, StartExchange, Mgr, IInv
<1>1. TypeOK'
  BY DEF TypeOK
<1>2. InsideHolds' /\ ExchangeIsNeeded'
  BY DEF TypeOK, InsideHolds, ExchangeIsNeeded, IsExpiringSoon
<1>3. AnswersAreTimely' /\ EstimateIsClose'
  BY DEF AnswersAreTimely, EstimateIsClose
<1>4. LockIsNotLeftBehind'
  BY DEF TypeOK, LockIsNotLeftBehind
<1> QED BY <1>1, <1>2, <1>3, <1>4

\* A token is issued now, so its answer is timely.
LEMMA IssueKeeps ==
  ASSUME IInv, NEW t \in Threads, Issue(t)
  PROVE  IInv'
<1> USE AuthAssumption DEF Issue, IInv
<1>1. TypeOK'
  BY DEF TypeOK, Answers
<1>2. InsideHolds' /\ ExchangeIsNeeded' /\ EstimateIsClose' /\ LockIsNotLeftBehind'
  BY DEF InsideHolds, ExchangeIsNeeded, EstimateIsClose, IsExpiringSoon, LockIsNotLeftBehind, Mgr
<1>3. AnswersAreTimely'
  BY DEF TypeOK, AnswersAreTimely
<1> QED BY <1>1, <1>2, <1>3

\* The token stored expires at most MaxLatency after it dies.
LEMMA FinishKeeps ==
  ASSUME IInv, NEW t \in Threads, FinishExchange(t)
  PROVE  IInv'
<1> USE AuthAssumption DEF IInv
<1> DEFINE a == answer[t]
<1>1. a \in Answers /\ now \in Nat /\ now <= a.at + MaxLatency /\ Mgr(t) \in Managers
  BY DEF FinishExchange, TypeOK, AnswersAreTimely, Mgr
<1>2. PICK e \in {a.at + a.life, now + a.life} :
        state' = [state EXCEPT ![Mgr(t)] = [dies |-> a.at + a.life, expires_at |-> e]]
  BY DEF FinishExchange
<1>3. e \in Nat /\ a.at + a.life \in Nat /\ e <= a.at + a.life + MaxLatency
  BY <1>1, <1>2 DEF Answers
<1>4. /\ state' \in [Managers -> Tokens]
      /\ \A m \in Managers : m # Mgr(t) => state'[m] = state[m]
      /\ state'[Mgr(t)].expires_at <= state'[Mgr(t)].dies + MaxLatency
  BY <1>1, <1>2, <1>3 DEF TypeOK, Tokens
<1> QED BY <1>4, ReleaseKeeps DEF FinishExchange

\* A thread leaves the lock without a new token.
LEMMA LeaveKeeps ==
  ASSUME IInv, NEW t \in Threads, ReturnCached(t) \/ Invalidate(t) \/ FailExchange(t)
  PROVE  IInv'
<1>1. /\ state' \in [Managers -> Tokens]
      /\ \A m \in Managers : m # Mgr(t) => state'[m] = state[m]
      /\ state'[Mgr(t)].expires_at <= state'[Mgr(t)].dies + MaxLatency
  BY AuthAssumption
  DEF ReturnCached, Invalidate, FailExchange, IInv, TypeOK, EstimateIsClose, NoToken, Tokens, Mgr
<1> QED BY <1>1, ReleaseKeeps DEF ReturnCached, Invalidate, FailExchange

\* Time passes: answers stay timely, and an expiring token stays expiring.
LEMMA TickKeeps ==
  ASSUME IInv, Tick
  PROVE  IInv'
<1> USE AuthAssumption DEF Tick, IInv
<1>1. TypeOK'
  BY DEF TypeOK
<1>2. InsideHolds' /\ EstimateIsClose' /\ LockIsNotLeftBehind'
  BY DEF InsideHolds, EstimateIsClose, LockIsNotLeftBehind, Mgr
<1>3. ExchangeIsNeeded'
  BY DEF TypeOK, Tokens, ExchangeIsNeeded, IsExpiringSoon, Mgr
<1>4. AnswersAreTimely'
  BY DEF TypeOK, Answers, AnswersAreTimely
<1> QED BY <1>1, <1>2, <1>3, <1>4

\* Every step of a thread, the service or the clock keeps the invariant.
THEOREM NextKeeps == IInv /\ [Next]_vars => IInv'
<1> SUFFICES ASSUME IInv, [Next]_vars  PROVE IInv'
  OBVIOUS
<1>1. CASE UNCHANGED vars
  BY <1>1 DEF vars, IInv, TypeOK, InsideHolds, ExchangeIsNeeded, AnswersAreTimely,
              EstimateIsClose, IsExpiringSoon, LockIsNotLeftBehind, Mgr
<1>2. CASE Next
  BY <1>2, QuietKeeps, IssueKeeps, FinishKeeps, LeaveKeeps, TickKeeps DEF Next, Holder
<1> QED BY <1>1, <1>2

\* IInv holds in every reachable state.
THEOREM Invariance == Spec => []IInv
  BY InitInvariant, NextKeeps, PTL DEF Spec

\* The variables keep their types.
THEOREM TypeCorrect == Spec => []TypeOK
  BY Invariance, PTL DEF IInv

\* A token from the cache lives on for what the latency leaves of the refresh buffer,
\* as long as answers take no longer than that.
THEOREM CachedTokensAreLive == Spec => []CacheIsLive
<1>1. IInv => CacheIsLive
  BY AuthAssumption DEF IInv, TypeOK, Tokens, EstimateIsClose, CacheIsLive, IsExpiringSoon,
                           Margin
<1> QED BY <1>1, Invariance, PTL

\* One manager runs one exchange at a time, whatever the number of threads.
THEOREM ExchangesExclude == Spec => []OneExchange
<1>1. IInv => OneExchange
  BY DEF IInv, InsideHolds, OneExchange
<1> QED BY <1>1, Invariance, PTL

\* Every way out of the lock lets it go, for any number of threads and managers.
THEOREM LocksAreReturned == Spec => []LockIsNotLeftBehind
  BY Invariance, PTL DEF IInv

\* An exchange never replaces a token that is still good.
THEOREM FreshTokensStay == Spec => FreshTokenIsKept
<1> DEFINE Keeps == \A m \in Managers : ~IsExpiringSoon(m) => state'[m] \in {state[m], NoToken}
<1>1. IInv /\ [Next]_vars => [Keeps]_vars
  <2> SUFFICES ASSUME IInv, Next, NEW m \in Managers, ~IsExpiringSoon(m)
               PROVE  state'[m] \in {state[m], NoToken}
    BY DEF vars
  <2>1. ASSUME NEW t \in Threads, Invalidate(t)  PROVE state'[m] \in {state[m], NoToken}
    BY <2>1 DEF Invalidate, IInv, TypeOK
  <2>2. ASSUME NEW t \in Threads, FinishExchange(t)  PROVE state'[m] \in {state[m], NoToken}
    BY <2>2 DEF FinishExchange, IInv, TypeOK, ExchangeIsNeeded
  <2> QED BY <2>1, <2>2 DEF Next, Holder, Call, Acquire, Issue, ReturnCached, StartExchange,
                            FailExchange, Tick
<1> QED BY <1>1, Invariance, PTL DEF Spec, FreshTokenIsKept
=============================================================================
