SPECIFICATION Spec
CONSTANTS
  Helpers = {h1}
  Limit = 1
INVARIANTS
  BreachNeverPanics
