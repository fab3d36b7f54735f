SPECIFICATION FileSpec
CONSTANTS
  Files <- SvgFiles
  MaxHeaders = 1
  ScanBlocks = 1
  LargestTotal = 1
  LongestStream = 0
  Packages = {}
  MaxPart = 2
  PartsBudget = 2
  MaxRelations = 1
INVARIANT LimitIsNotBlamed
CHECK_DEADLOCK FALSE
