SPECIFICATION MCSpec
CONSTANTS
  o1 = o1
  o2 = o2
  o3 = o3
  o4 = o4
  v1 = v1
  v2 = v2
  a = a
  b = b
  x = x
  z = z
  None = None
  Nil = Nil
  Operators = {o1, o2, o3, o4}
  Quorum = 3
  Self = o1
  Byzantine = {o4}
  Validators = {v1, v2}
  Duties <- MCDuties
  PreViews <- MCPreViews
  PostViews <- MCViews
  Elections <- MCElections
  Values <- MCValues
  BadMessages <- MCBadMessages
  MaxByzantine = 2
  ThisOperator = o1
  Preferences = {a, b}
  RequestAuths = {x}
  Packets <- MCPackets
  ProposalSlot = 6
  ForkEpoch = 1
  GraceSlots = 1
  MaxPendingRoots = 4
  MaxReorgs = 1
  MaxChanges = 1
  SlotsPerEpoch = 4
  MaxSlot = 7
INVARIANTS QuorumIsUsed SubmissionsAreSigned SubmittedOnce OutcomeIsTrue
           SentOnceIsEnough LatestPreferenceIsServed
SYMMETRY Peers
CHECK_DEADLOCK FALSE
