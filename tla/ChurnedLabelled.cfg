SPECIFICATION Spec
CONSTANTS
  Customers = {c1, c2}
  None = None
  Day = 2
  Week = 1
  Quarter = 2
  Lookback = 1
  LastTick = 4
  MaxEvents = 2
SYMMETRY CustomerSymmetry
INVARIANT ChurnedLabelled
CHECK_DEADLOCK FALSE
