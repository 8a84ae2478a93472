SPECIFICATION Spec
CONSTANTS
  LastDate = 1
  LastSnapshot = 1
  None = None
  Executors = {"kubernetes"}
  FeatureRetries = 1
  Manual = FALSE
  CallsFail = TRUE
  TrainingRetries = 1
  Asked <- Outside
INVARIANT DeploysOwnWork
PROPERTY RunsEnd
CHECK_DEADLOCK FALSE
