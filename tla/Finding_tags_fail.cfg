CONSTANTS
  x = x
  y = y
  gh = gh
  c1 = c1
  c2 = c2
  None = None
  Mirror = {x, y}
  Original = gh
  Lookup = {c1}
  Download = {c2}
  TTL = 2
  TagsTTL = 1
  TestTime = 1
  MaxTime = 3
SPECIFICATION MirrorFairSpec
INVARIANTS FailsOnlyWhenAllFail
