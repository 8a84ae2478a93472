SPECIFICATION Spec
CONSTANTS
  LastDate = 2
  LastSnapshot = 2
  None = None
  Executors = {"local"}
  FeatureRetries = 1
  Manual = FALSE
  CallsFail = TRUE
  TrainingRetries = 0
  Asked <- Nobody
INVARIANTS
  TypeOK
  TrainsOnValidated
  DeploysOwnWork
  ComparesSameSplits
CHECK_DEADLOCK FALSE
