SPECIFICATION Spec
CONSTANTS
  Versions <- TwoVersions
  None = None
  Operators = {o1}
  Retries = 0
  MaxChecks = 1
PROPERTY RolledBackNotPromoted
CHECK_DEADLOCK FALSE
