CONSTANTS
  s1 = s1
  s2 = s2
  u1 = u1
  q1 = q1
  q2 = q2
  g1 = g1
  g2 = g2
  NoOne = NoOne
  Scenario = {s1, s2}
  Union = {u1}
  QQ = {q1}
  Group = {g1}
  UnionOf <- MCUnionOf
  Member <- MCMember
  SignInPoints = 50
  RewardPoints = 25
  DailyLimit = 1
  RewardedCap = 1
  Costs = {50}
  MaxDay = 2
SPECIFICATION Spec
 
PROPERTIES MergesConservePoints
CONSTRAINT EarlyDays
CHECK_DEADLOCK FALSE
