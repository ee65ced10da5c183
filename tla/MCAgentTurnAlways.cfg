\* One response with two shell calls, the first answered "always allow".
CONSTANTS
  Modes <- MCModes
  Batches <- MCPublishing
  Budget = 2
  Unlimited = 99
  MaxRepairs = 1
  GuardCap = 1
  MaxRequests = 1
  MaxUpdates = 1
  MaxTurns = 1
SPECIFICATION Spec
INVARIANT AlwaysAllowEndsTheAsking
CHECK_DEADLOCK FALSE
