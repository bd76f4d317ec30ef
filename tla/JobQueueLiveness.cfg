SPECIFICATION FairSpec
CONSTANTS
  k1 = k1
  k2 = k2
  c1 = c1
  c2 = c2
  w1 = w1
  w2 = w2
  Nobody = Nobody
  Keys <- OneKey
  Callers <- TwoCallers
  Workers <- OneWorker
  Cooperative <- OneKey
  MaxAttempts = 2
  MaxStage = 0
  MaxCalls = 3
  MaxCancels = 1
  MaxRetries = 1
  MaxStalls = 0
  MaxEvictions = 0
  MaxRestarts = 0
PROPERTIES OwedWorkSettles ImplementsSlot
CHECK_DEADLOCK FALSE
