SPECIFICATION Spec
CONSTANTS
  r1 = r1
  r2 = r2
  s1 = s1
  s2 = s2
  s3 = s3
  Replicas <- TwoReplicas
  Searches <- ThreeSearches
  Requests = 2
  Retries = 0
  Threshold = 1
  Cost = 1
  Limit = 1
  MaxSearches = 4
  MaxWindow = 1
  MaxOutages = 1
  MaxRestarts = 0
SYMMETRY Symmetry
INVARIANTS TypeOK QuotaRespected
PROPERTY RefusalJustified
CHECK_DEADLOCK FALSE
