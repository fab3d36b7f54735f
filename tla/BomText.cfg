SPECIFICATION ContentSpec
CONSTANTS
  HeaderBytes = 4
  WindowBytes = 8
  Paddings = {0, 1}
  LongestText = 1
  LongestPointer = 0
  LongestImage = 0
  LargestSide = 4
INVARIANT BomMeansExact
CHECK_DEADLOCK FALSE
