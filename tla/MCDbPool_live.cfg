SPECIFICATION FairSpec
CONSTANTS
  Threads = {t1, t2, t3, t4}
  Conns = {c1, c2, c3}
  NoThread = NoThread
  NoConn = NoConn
  EarlyCalls = FALSE
  InitFails = FALSE
INVARIANT PoolBacksPermits
PROPERTY SomebodyServed
