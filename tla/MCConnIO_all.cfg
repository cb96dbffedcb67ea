SPECIFICATION FairSpec
CONSTANTS
  Workers = {w1, w2}
  Pushers = {p1, p2}
  SizeMod = 65536
  MaxSock = 3
  MaxMsgs = 3
INVARIANT TypeOK
INVARIANT Accounted
PROPERTY OneLife
PROPERTY WaitingLeave
CHECK_DEADLOCK FALSE
