\* One turn and one Stop.
CONSTANTS
  Turns = {t1}
  ToolGens = {}
  Supplements = {s1}
  Clients = {c1}
  Capacity = 4
  MaxRounds = 1
  MaxCalls = 1
  MaxStops = 1
SPECIFICATION Spec
INVARIANT
  StopBeforeStartIsObeyed
CHECK_DEADLOCK FALSE
