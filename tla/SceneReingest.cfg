SPECIFICATION Spec
CONSTANTS
  w1 = w1
  w2 = w2
  a1 = a1
  a2 = a2
  o1 = o1
  Nobody = Nobody
  Model = Model
  NoOutline = NoOutline
  Outlines <- TwoOutlines
  Workers <- TwoWorkers
  Analysts <- TwoAnalysts
  Scenes <- TwoScenes
  MinScore = 1
  MaxPerScene = 1
  MaxUses = 2
  MaxRequests = 1
  MaxFailures = 1
  MaxStalls = 0
  MaxReviews = 0
  MaxTrouble = 1
INVARIANTS NoDuplicates
CHECK_DEADLOCK FALSE
