CONSTANTS
  c1 = c1
  c2 = c2
  Caller = {c1, c2}
  MaxRetries = 2
  DisableTime = 2
  HealthInterval = 2
  MaxHealthFailures = 3
  MaxTime = 3
SPECIFICATION ResourceSpec
PROPERTIES UsedAgainWhenHealthy
