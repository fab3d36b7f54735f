SPECIFICATION ServerSpec
CONSTANTS
  i1 = i1
  i2 = i2
  Ids = {i1, i2}
  NoId = NoId
  MaxPaths = 1
  c1 = c1
  c2 = c2
  Calls = {c1}
  Lines <- WalkLines
  MaxAdmitted = 1
  MaxConcurrent = 1
PROPERTIES
  DeadlineEndsCall
