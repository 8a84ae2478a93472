SPECIFICATION Spec
CONSTANTS
  Pods = {p1, p2}
  Calls = {c1, c2}
  full = full
  partial = partial
  Rows <- TwoRows
  Requests <- Asked
  Versions = {v1, v2}
  None = None
  Incomplete = {partial}
  MaxBatch = 2
  TTL = 2
INVARIANTS
  TypeOK
  AnswersTheRow
  WithdrawnModelExpires
SYMMETRY Interchangeable
