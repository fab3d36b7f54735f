SPECIFICATION LiveSpec
CONSTANTS
  i1 = i1
  i2 = i2
  Ids = {i1, i2}
  NoId = NoId
  MaxPaths = 2
  c1 = c1
  c2 = c2
  Calls = {c1, c2}
  Lines <- EveryLine
  MaxAdmitted = 2
  MaxConcurrent = 1
INVARIANTS
  IInv
  AnswerNamesCause
PROPERTIES
  LateResultDiscarded
  CancelHitsOnlyItsId
  KeepsContract
  ServeTerminates
  CapacityRecovers
  KeepsWholeContract
