SPECIFICATION FairSpec
CONSTANTS
  Urls = {"a", "b"}
  Options = {"standard", "deep"}
  DefaultOptions = "standard"
  MaxInspections = 3
INVARIANTS
  IInv
  ShownIsCurrent
  ReplacedEngineEnds
PROPERTY
  SpinnerStops
