SPECIFICATION Spec
CONSTANTS
  t1 = t1
  t2 = t2
  m1 = m1
  Threads = {t1, t2}
  Managers = {m1}
  ManagerOf <- SharedClient
  Free = Free
  Buffer = 3
  Lifetimes = {1, 5}
  MaxLatency = 2
  MaxTime = 7
INVARIANTS CacheIsLive OneExchange LockIsNotLeftBehind
PROPERTIES FreshTokenIsKept LockIsReleased
