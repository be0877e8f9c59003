SPECIFICATION Spec
CONSTANTS
  Validators = {v1,v2}
  MaxEvents = 2
  MaxBlocks = 2
  None = None
  MaxTries = 3
  MaxCrashes = 1
  MaxLosses = 1
SYMMETRY Symmetry
INVARIANTS SharesCanSign RunningMatchesRegistry
PROPERTY BlocksAreAtomic
CHECK_DEADLOCK FALSE
