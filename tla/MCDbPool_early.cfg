SPECIFICATION Spec
CONSTANTS
  Threads = {t1, t2, t3, t4}
  Conns = {c1, c2, c3}
  NoThread = NoThread
  NoConn = NoConn
  EarlyCalls = TRUE
  InitFails = TRUE
SYMMETRY Symmetry
INVARIANT TypeOK
INVARIANT NoSharing
PROPERTY LostWhenEmpty
CHECK_DEADLOCK FALSE
