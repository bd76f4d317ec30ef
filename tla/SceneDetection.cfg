SPECIFICATION Spec
CONSTANTS
  w1 = w1
  w2 = w2
  a1 = a1
  a2 = a2
  o1 = o1
  Nobody = Nobody
  Model = Model
  NoOutline = NoOutline
  Outlines <- TwoOutlines
  Workers <- TwoWorkers
  Analysts <- TwoAnalysts
  Scenes <- TwoScenes
  MinScore = 1
  MaxPerScene = 1
  MaxUses = 2
  MaxRequests = 2
  MaxFailures = 1
  MaxStalls = 1
  MaxReviews = 2
  MaxTrouble = 2
SYMMETRY Symmetry
INVARIANTS TypeOK Version0IsModelOutput VersionsShowWhatWasSaved JudgementIsRecorded PrecomputeIsRecorded RerunSupersedes
CHECK_DEADLOCK FALSE
