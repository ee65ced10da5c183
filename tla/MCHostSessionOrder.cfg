\* A turn, and a supplement that finds it closed and handles its events beside
\* the bridge.  Nothing fails.
CONSTANTS
  Commands = {c1, c2}
  Fires = {}
  NoCommand = none
  MaxTurns = 2
  MaxFaults = 0
  MaxStops = 0
SPECIFICATION Spec
INVARIANT OutcomesReachTheirTurn
CHECK_DEADLOCK FALSE
