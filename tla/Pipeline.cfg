CONSTANTS
  m1 = m1
  m2 = m2
  w1 = w1
  w2 = w2
  r1 = r1
  Msg = {m1, m2}
  Vip = {m2}
  Request = {r1}
  Worker = {w1, w2}
  QueueMax = 1
  MaxProcessed = 2
  MaxRetries = 2
  MaxConn = 2
  MaxCopies = 2
  MaxWire = 1
SPECIFICATION FairSpec
 
PROPERTIES KeepsPromise WaitsEnd
CHECK_DEADLOCK FALSE
