SPECIFICATION Spec
CONSTANTS
  i1 = i1
  i2 = i2
  Ids = {i1}
  NoId = NoId
  MaxPaths = 1
  c1 = c1
  c2 = c2
  c3 = c3
  Calls = {c1, c2, c3}
  Lines <- ContendedLines
  MaxAdmitted = 2
  MaxConcurrent = 1
SYMMETRY Symmetry
CONSTRAINT NoShutdown
INVARIANTS
  SlotAccounting
  RegistryExact
  QuietReturn
PROPERTIES
  CancelReachesAll
