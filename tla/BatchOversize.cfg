SPECIFICATION BatchSpec
CONSTANTS
  Count = 2
  HashBudget = 1
  LargestFile = 1
PROPERTY OversizeIsExplicit
CHECK_DEADLOCK FALSE
