CONSTANTS
  Call = {r1, r2}
  MaxWrite = 1
  Classes = 3
  Name = {"n1"}
  Setting = {"a", "b"}
  Asker = {c1}
  Request = {r1, r2}
  c1 = c1
  c2 = c2
  r1 = r1
  r2 = r2
  t1 = t1
  t2 = t2
  v1 = v1
  v2 = v2
  None = None
  Client = {c1, c2}
  MaxSocket = 5
  MaxLoss = 2
  MaxReload = 1
  MaxChange = 2
  Chunks = 2
  MaxReconnect = 1
  Url = {"a", "b", "bad"}
  BadUrl = {"bad"}
  Interval = {0, 3}
  Kind = {"ws", "http", "sse"}
  HeartInterval = {0, 1, 2}
  Port = {1, 2}
  Host = {1, 2}
  HttpBeat = 5
  Term = {t1, t2}
  Viewer = {v1, v2}
  Windows = FALSE
  MaxOutput = 2
SPECIFICATION Spec
INVARIANTS WsClientSafe  OneBotConfigSafe  RpcSafe 
 
CHECK_DEADLOCK FALSE
