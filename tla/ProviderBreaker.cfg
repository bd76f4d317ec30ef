SPECIFICATION FairSpec
CONSTANTS
  r1 = r1
  r2 = r2
  s1 = s1
  s2 = s2
  s3 = s3
  Replicas <- OneReplica
  Searches <- ThreeSearches
  Requests = 1
  Retries = 1
  Threshold = 2
  Cost = 0
  Limit = 1
  MaxSearches = 6
  MaxWindow = 0
  MaxOutages = 1
  MaxRestarts = 1
INVARIANTS ProbeMarkIsCurrent ProbeMarkHasOwner OpensAfterFailures
PROPERTY SearchSettles
CHECK_DEADLOCK FALSE
