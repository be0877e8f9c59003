SPECIFICATION Spec
CONSTANTS
  SlotsPerEpoch = 2
  MaxSlot = 4
  Keys = {good, bad}
  Malformed = {bad}
  NoRecord = NoRecord
  MaxSigned = 3
  MaxBlocks = 3
  MaxCrashes = 1
INVARIANTS NoSlashableSignatures RecordsFollowShares OnlyMalformedSkipped
PROPERTY LoweredOnlyWhenReadded
CHECK_DEADLOCK FALSE
