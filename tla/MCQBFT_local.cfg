SPECIFICATION Spec
CONSTANTS
  v1 = v1
  v2 = v2
  v3 = v3
  NoValue = NoValue
  Operators = {1, 2, 3, 4}
  Byzantine = {1, 3, 4}
  Values = {v1, v2}
  StartValue <- MCStartValue
  CheckValue <- MCCheckValue
  Proposer <- MCProposer
  CutOffRound = 3
  Superseded = {2}
  TimeoutRounds = {1, 2}
  ByzProposals <- LocalProposals
  ByzPrepares <- LocalPrepares
  ByzCommits <- LocalCommits
  ByzRoundChanges <- LocalRoundChanges
INVARIANTS TypeOK VotesOncePerRound LockIsAnnounced HonestMessagesJustified
PROPERTIES DecidedIsFrozen SilentOnceIrrelevant
CHECK_DEADLOCK FALSE
