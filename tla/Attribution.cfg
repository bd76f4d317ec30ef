SPECIFICATION FairSpec
CONSTANTS
  d1 = d1
  c1 = c1
  c2 = c2
  w1 = w1
  w2 = w2
  a1 = a1
  Nobody = Nobody
  Detections <- OneDetection
  Cases <- TwoCases
  Containers <- OneCase
  Workers <- TwoWorkers
  Analysts <- OneAnalyst
  MaxRank = 2
  MaxAttempts = 1
  MaxPrecomputes = 1
  MaxRequests = 1
  MaxCancels = 1
  MaxCrashes = 1
  MaxStalls = 1
  MaxTrouble = 1
  MaxReweights = 1
CONSTRAINT OneAtMost
INVARIANTS TypeOK SingleOrigin SingleRanking RanksDistinct SeparationIsOfThisOrder
PROPERTIES PromiseSettles KeepsQueuePromise
CHECK_DEADLOCK FALSE
