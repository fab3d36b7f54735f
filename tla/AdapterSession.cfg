SPECIFICATION FairSpec
CONSTANTS
  Limit = 1
  BufferBytes = 2
  LongestLine = 4
  Requests = {r1, r2, r3}
  MaxAdmitted = 2
  MaxConcurrent = 1
CONSTRAINT LateReturns
INVARIANTS
  IInv
  FramingExact
  AnsweredHoldsNothing
  DrainIsQuiet
PROPERTIES
  AdapterKeepsContract
  AdapterReturns
