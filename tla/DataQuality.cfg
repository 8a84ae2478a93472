SPECIFICATION Spec
CONSTANTS
  Hour = 2
  Fresh = 4
  LastTick = 10
INVARIANTS
  TypeOK
  NoIssueWithoutAlert
  StaleBucketSaid
  SilentStreamSaid
CHECK_DEADLOCK FALSE
