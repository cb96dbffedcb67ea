SPECIFICATION FairSpec
CONSTANTS
  Bytes <- MCBytes
  Junk <- MCJunk
  bufferSize = 5
  Threads = {t1, t2}
  Lengths = {2, 3}
  MaxRecv = 4
  MaxPackets = 3
  MaxConns = 2
INVARIANT TypeOK
INVARIANT ReadsBacked
PROPERTY HandledAsSent
PROPERTY IsByteQueue
PROPERTY ArrivedIsHandled
CHECK_DEADLOCK FALSE
