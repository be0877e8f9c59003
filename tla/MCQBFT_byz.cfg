SPECIFICATION BatchSpec
VIEW BatchView
CONSTANTS
  v1 = v1
  v2 = v2
  v3 = v3
  NoValue = NoValue
  NotBusy = NotBusy
  Operators = {1, 2, 3, 4}
  Byzantine = {1}
  Values = {v1, v2, v3}
  StartValue <- MCStartValue
  CheckValue <- MCCheckValue
  Proposer <- MCProposer
  CutOffRound = 3
  Superseded = {}
  TimeoutRounds = {1}
  ByzProposals <- ByzLeads
  ByzPrepares <- ByzVotesBothRounds
  ByzCommits <- ByzVotesBothRounds
  ByzRoundChanges <- ByzRoundChangesBoth
INVARIANTS Agreement DecidedValueWasChecked
CHECK_DEADLOCK FALSE
