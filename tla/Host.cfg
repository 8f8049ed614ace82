CONSTANTS
  Op = {o1, o2}
  MaxStart = 4
  Chunks = 2
  FileSize = {1, 2}
  MemoryLimit = 1
  Job = {j1, j2}
  MaxStream = 2
  KillAfter = 2
  MaxCrashes = 3
  MaxHang = 1
  MaxWorker = 4
  Pause = 3
  Prepare = 5
  Restart = {r1, r2}
  Window = 10
  Download = {c2}
  Lookup = {c1}
  Mirror = {x, y}
  Original = gh
  TTL = 2
  TagsTTL = 1
  TestTime = 1
  r1 = r1
  r2 = r2
  c1 = c1
  c2 = c2
  o1 = o1
  o2 = o2
  s1 = s1
  j1 = j1
  j2 = j2
  x = x
  y = y
  gh = gh
  None = None
  StreamId = {s1}
  MaxConnect = 2
  MaxLogin = 1
  MaxTime = 3
  Attempt = {c1, c2}
SPECIFICATION Spec
INVARIANTS SupervisorSafe LoginSafe   MirrorSafe
PROPERTIES HostComesUp
CHECK_DEADLOCK FALSE
