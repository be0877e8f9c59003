SPECIFICATION Spec
CONSTANTS
  Validators = {v1}
  MaxEvents = 2
  MaxBlocks = 2
  None = None
  MaxTries = 3
  MaxCrashes = 1
  MaxLosses = 1
INVARIANT SharesAreCreatedOnReplay
CHECK_DEADLOCK FALSE
