SPECIFICATION Spec
CONSTANTS
  Events = {e1, e2}
  Webhook = {e2}
  Redelivered = {e1}
  Skews = {1}
  Attempts = 2
  Day = 2
  StartHour = 1
  LastBirth = 1
  LastTick = 3
INVARIANTS
  TypeOK
  PublishedIsKept
  CuratedOnce
  LateArrivalsCaught
PROPERTIES
  ImplementsDelivery
CHECK_DEADLOCK FALSE
