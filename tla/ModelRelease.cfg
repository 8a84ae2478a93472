SPECIFICATION Spec
CONSTANTS
  Versions <- TwoVersions
  None = None
  Operators = {o1}
  Retries = 1
  MaxChecks = 2
INVARIANTS
  TypeOK
  OnlyVettedLive
  NoForgottenCanary
  ProductionAvailable
  PromotionComplete
PROPERTIES
  ImplementsLifecycle
  ScriptsEnd
CHECK_DEADLOCK FALSE
