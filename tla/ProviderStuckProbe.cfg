SPECIFICATION Spec
CONSTANTS
  r1 = r1
  r2 = r2
  s1 = s1
  s2 = s2
  s3 = s3
  Replicas <- OneReplica
  Searches <- TwoSearches
  Requests = 1
  Retries = 0
  Threshold = 1
  Cost = 1
  Limit = 1
  MaxSearches = 3
  MaxWindow = 0
  MaxOutages = 1
  MaxRestarts = 0

INVARIANT ProbeMarkHasOwner
CHECK_DEADLOCK FALSE
