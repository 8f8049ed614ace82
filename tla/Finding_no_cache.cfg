CONSTANTS
  m1 = m1
  me = me
  t1 = t1
  t2 = t2
  None = None
  Member = {m1, me}
  Self = me
  Task = {t1, t2}
  MaxChange = 2
  MaxFailure = 1
SPECIFICATION GroupCacheSpec
INVARIANTS NoCacheIsCurrent
CHECK_DEADLOCK FALSE
