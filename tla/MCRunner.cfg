SPECIFICATION Spec
CONSTANTS
  Heights = {1, 2, 3, 4}
  Duties = {1, 2, 4}
  NoDuty = NoDuty
  Capacity = 2
  CutOffRound = 3
INVARIANTS TypeOK ForgetsOnlyTheOldest OneInstanceWorks SliceKeepsHighest DecisionTakenUp TimeoutsAreNotAhead
PROPERTY NeverRunsAgain
CHECK_DEADLOCK FALSE
