CONSTANTS
  None = None
  SlotsPerEpoch = 4
  MaxSlot = 16
  StartSlot = 10
  FirstVals = 1
  MaxHeads = 2
  MaxChanges = 2
SPECIFICATION Spec
INVARIANTS OutdatedIsKnown EveryEpochIsWanted
CHECK_DEADLOCK FALSE
