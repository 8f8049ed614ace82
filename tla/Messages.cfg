CONSTANTS
  Adapter = {a1, a2}
  Callback = {f1, f2}
  KernelMsg = {m1, m2}
  MaxSwitch = 1
  SelfWanted = {a1}
  MaxElements = 2
  MaxSegments = 2
  File = {f1, f2}
  MAX_RETRIES = 3
  MaxRecord = 3
  Listener = {l1}
  MaxClock = 3
  MaxWaits = 2
  c1 = c1
  c2 = c2
  k1 = k1
  l1 = l1
  m1 = m1
  m2 = m2
  m3 = m3
  p1 = p1
  p2 = p2
  a1 = a1
  a2 = a2
  f1 = f1
  f2 = f2
  r1 = r1
  r2 = r2
  r3 = r3
  me = me
  None = None
  Call = {c1, c2}
  Key = {k1}
  Timeout = 2
  MaxTime = 3
  MaxChange = 2
  Msg = {m1, m2}
  Chat = {p1, p2}
  OwnChat = me
  MaxNodes = 3
  MaxParts = 2
  Recall = {r1, r2, r3}
  MaxTold = 2
  Window = 2
  Caller = {r1, r2, r3}
  MaxRetries = 2
  DisableTime = 2
  HealthInterval = 2
  MaxHealthFailures = 3
  Member = {m1, me}
  Self = me
  Task = {f1, f2}
  MaxFailure = 1
  MsgId = {m1, m2, m3}
  Peer = {p1, p2}
  Short = {0, 1, 2, 3, 4, 5}
  Hash <- MessageHash
  MaxSize = 2
  MaxCreated = 5
  NodeLists <- UploadLists
  MaxDepth = 3
SPECIFICATION Spec
INVARIANTS NTEventSafe MessageIdsSafe MsgReceiveSafe EventsSafe RecallSafe   ForwardUploadSafe CleanTaskSafe  ResourceSafe
PROPERTIES MessagesGoThrough
CHECK_DEADLOCK FALSE
