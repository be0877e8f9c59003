SPECIFICATION Spec
CONSTANTS
  v1 = v1
  v2 = v2
  Validators = {v1, v2}
  Kinds = {"att"}
  DutySets <- MCDutySets
  SlotsPerEpoch = 1
  Slots = {1, 2, 5}
  MaxSlot = 5
  LateSlotAllowance = 2
  Lag = 1
  MaxDuties = 2
  MaxChanges = 2
  MaxOrphans = 1
INVARIANTS CancelledStayCancelled NoConsumerIsPruned OnlyOrphansOutlive
CHECK_DEADLOCK FALSE
