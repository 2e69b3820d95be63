SPECIFICATION FairSpec
CONSTANTS
  MaxRounds = 3
  MaxToolCalls = 4
  MaxIdentical = 2
  MaxPerRound = 2
  MaxNamed = 1
  MaxOperations = 2
CHECK_DEADLOCK FALSE
INVARIANTS AnswerIsEarned FenceHolds LimitsHold
PROPERTIES RevisionNamesText RunEnds
