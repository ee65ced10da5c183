\* A budget of two rounds, one repair, one token of the memo guard and three
\* model requests: every path of the loop is taken, and twice in a turn.
CONSTANTS
  Modes <- MCModes
  Batches <- MCBatches
  Budget = 2
  Unlimited = 99
  MaxRepairs = 1
  GuardCap = 1
  MaxRequests = 3
  MaxUpdates = 1
  MaxTurns = 2
SPECIFICATION Spec
INVARIANTS
  TurnInv
  MemoEndsWithItsTurn
  InterceptionsAreEarned
  NoCompactionLoop
  ResultsFollowTheirCalls
  FinishedOnItsOwnResponse
  StopCanBeTaken
CHECK_DEADLOCK FALSE
