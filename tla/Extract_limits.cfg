CONSTANTS
  t1 = t1
  t2 = t2
  c1 = c1
  c2 = c2
  Task = {t1, t2}
  Chat = {c1, c2}
  Feature = {"sauth", "163"}
  Cost <- MCCost
  Funds = 3
  RateLimit = 2
  RateWindow = 2
  Kept = 2
  Cooldown = 2
  Slots = 1
  MaxRetries = 2
  MaxTime = 2
SPECIFICATION Spec
INVARIANTS OneHandlerPerKey 
SYMMETRY Symmetry
CHECK_DEADLOCK FALSE
