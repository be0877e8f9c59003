SPECIFICATION Spec
CONSTANTS
  IntervalDuration = 4
  Operators = {1, 2, 3, 4}
  Quorum = 3
  Proposer <- MCProposer
  Validators = 1
  InSyncCommittee = FALSE
  SlotsPerEpoch = 4
  SlotDuration = 12
  Peers = {"p", "q"}
  FairPeers = {"p"}
  RoleMessages <- MCMessages
  RootBudget = 2
  Instants = {11, 21, 47, 87, 88}
  MaxAccepted = 3
INVARIANTS AcceptedOnce DutyLimitHolds NoUnfairPunishment TimersInStepAreAdmitted
CHECK_DEADLOCK FALSE
