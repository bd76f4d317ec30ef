SPECIFICATION Spec
CONSTANTS
  d1 = d1
  c1 = c1
  c2 = c2
  w1 = w1
  w2 = w2
  a1 = a1
  Nobody = Nobody
  Detections <- OneDetection
  Cases <- OneCase
  Containers <- OneCase
  Workers <- TwoWorkers
  Analysts <- OneAnalyst
  MaxRank = 2
  MaxAttempts = 2
  MaxPrecomputes = 0
  MaxRequests = 3
  MaxCancels = 0
  MaxCrashes = 0
  MaxStalls = 0
  MaxTrouble = 1
  MaxReweights = 0
PROPERTY ScoresCurrentOrigin
CHECK_DEADLOCK FALSE
