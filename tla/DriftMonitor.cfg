SPECIFICATION Spec
CONSTANTS
  Reports <- FewOrShift
  LastExecution = 2
  LastWeek = 1
  Retries = 1
INVARIANTS
  TypeOK
  SummaryIsTrue
PROPERTIES
  DriftIsActedOn
  EveryWeekIsSummarised
CHECK_DEADLOCK FALSE
