CONSTANTS
  CacheMax = 1
  MaxLosses = 2
  MaxSessions = 2
  MaxWebhook = 2
  Counts = {0, 1, 2}
  QQGroup = {g1}
  Limits <- MCLimits
  MaxDrops = 1
  MaxLotteries = 2
  MaxTime = 2
  Minutes = {0, 1}
  User = {u1, u2}
  Worker = {w1}
  Msg = {m1, m2}
  m1 = m1
  m2 = m2
  w1 = w1
  g1 = g1
  u1 = u1
  u2 = u2
  s1 = s1
  q1 = q1
  t1 = t1
  t2 = t2
  c1 = c1
  c2 = c2
  Ready = Ready
  Loop = Loop
  Nothing = Nothing
  Torn = Torn
  Group = {g1}
  Scenario = {s1}
  Union = {u1}
  QQ = {q1}
  NoOne = NoOne
  UnionOf <- MCUnionOf
  Member <- MCMember
  SignInPoints = 2
  RewardPoints = 1
  DailyLimit = 1
  RewardedCap = 1
  Costs = {3}
  MaxDay = 1
  MaxCrash = 1
SPECIFICATION BotsSpec
INVARIANTS GatewaySafe LotterySafe StorageSafe
PROPERTIES BotsGoOn WinnersAreKept
CHECK_DEADLOCK FALSE
