SPECIFICATION WorkerSpec
CONSTANTS
  Paths <- MCPaths
  MaxDepth = 1
  MaxFiles = 2
  MaxDirectories = 2
  MaxEntries = 3
  MaxChanges = 1
  FileFormats = {"text"}
  Count = 3
  HashBudget = 1
  LargestFile = 2
  MaxHeaders = 2
  ScanBlocks = 3
  LargestTotal = 3
  LongestStream = 4
  Packages <- MCPackages
  MaxPart = 2
  PartsBudget = 4
  MaxRelations = 1
  Files <- MCFiles
  HeaderBytes = 4
  WindowBytes = 8
  Paddings = {0, 2, 6}
  LongestText = 3
  LongestPointer = 5
  LongestImage = 3
  LargestSide = 8
INVARIANTS
  WorkerIInv
  InventoryIsHonest
  BatchIsHonest
  ArchiveIsHonest
  FileIsHonest
  FactsAreHonest
