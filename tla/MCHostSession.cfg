\* Two messages and a timer, one save or submission that fails, one Stop, two
\* turns: a turn, a supplement to it and the handoff turn it leads to.
CONSTANTS
  Commands = {c1, c2}
  Fires = {f1}
  NoCommand = none
  MaxTurns = 2
  MaxFaults = 1
  MaxStops = 1
SPECIFICATION Spec
SYMMETRY Symmetry
INVARIANTS
  ShownTurnIsBacked
  NoTurnLeftOpen
  SupplementsAreKept
  SessionInv
  HandedBackStartsATurn
CHECK_DEADLOCK FALSE
