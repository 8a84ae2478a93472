SPECIFICATION Spec
CONSTANTS
  LastDate = 1
  LastSnapshot = 2
  None = None
  Executors = {"local"}
  FeatureRetries = 1
  Manual = TRUE
  CallsFail = FALSE
  TrainingRetries = 0
  Asked <- Nobody
INVARIANT ComparesSameSplits
CHECK_DEADLOCK FALSE
