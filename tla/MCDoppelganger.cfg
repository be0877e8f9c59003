SPECIFICATION DoppelgangerSpec
CONSTANTS
  SlotsPerEpoch = 3
  MaxSlot = 17
  Validators = {v1, v2}
  None = None
  MaxRestarts = 1
INVARIANTS SafeOnlyAfterQuietEpochs
SYMMETRY Symmetry
CHECK_DEADLOCK FALSE
