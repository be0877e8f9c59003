SPECIFICATION FairBatchSpec
CONSTANTS
  v1 = v1
  v2 = v2
  v3 = v3
  NoValue = NoValue
  NotBusy = NotBusy
  Operators = {1, 2, 3, 4}
  Byzantine = {4}
  Values = {v1, v2}
  StartValue <- MCStartValue
  CheckValue <- MCCheckValue
  Proposer <- MCProposer
  CutOffRound = 3
  Superseded = {3}
  TimeoutRounds = {1}
  ByzProposals = {}
  ByzPrepares = {}
  ByzCommits = {}
  ByzRoundChanges = {}
PROPERTIES EventualDecision DecisionSpreads
CHECK_DEADLOCK FALSE
