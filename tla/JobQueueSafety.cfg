SPECIFICATION Spec
CONSTANTS
  k1 = k1
  k2 = k2
  c1 = c1
  c2 = c2
  w1 = w1
  w2 = w2
  Nobody = Nobody
  Keys <- OneKey
  Callers <- TwoCallers
  Workers <- TwoWorkers
  Cooperative <- OneKey
  MaxAttempts = 2
  MaxStage = 1
  MaxCalls = 3
  MaxCancels = 1
  MaxRetries = 1
  MaxStalls = 2
  MaxEvictions = 1
  MaxRestarts = 1
CONSTRAINT FewFaults
SYMMETRY Symmetry
INVARIANTS TypeOK NoOrphanJob FlaggedRunDoesNothing LockHolder AttemptsBounded
CHECK_DEADLOCK FALSE
