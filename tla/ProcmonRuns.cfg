SPECIFICATION FairSpec
CONSTANTS
  Helpers = {h1, h2}
  Limit = 1
INVARIANTS
  IInv
  BreachIsExplicit
  VerdictNamesCause
  KilledTreeStaysDead
PROPERTIES
  OutputIsFinal
  StoppedRunReturns
