SPECIFICATION Spec
CONSTANTS
  k1 = k1
  k2 = k2
  c1 = c1
  c2 = c2
  w1 = w1
  w2 = w2
  Nobody = Nobody
  Keys <- OneKey
  Callers <- TwoCallers
  Workers <- TwoWorkers
  Cooperative <- OneKey
  MaxAttempts = 2
  MaxStage = 1
  MaxCalls = 2
  MaxCancels = 0
  MaxRetries = 1
  MaxStalls = 0
  MaxEvictions = 0
  MaxRestarts = 0
INVARIANT RetryRepeatsTheWork
CHECK_DEADLOCK FALSE
