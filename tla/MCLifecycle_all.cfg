SPECIFICATION FairSpec
CONSTANTS
  Workers = {w1, w2}
  Threads = {t1, t2}
  maxClientCount = 2
  Skipped = 0
  Ttl = 3
  dbConnectionCount = 2
  MaxConns = 2
  MaxPackets = 2
  MaxErrors = 1
INVARIANT TypeOK
INVARIANT NoPacketBeforeHandlers
PROPERTY UnsetWhileStarting
PROPERTY NoNewWorkAfterJoin
PROPERTY StopEnds
PROPERTY ListedWhileServing
CHECK_DEADLOCK FALSE
