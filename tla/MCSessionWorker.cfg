\* Two turns, one of them a tool generation, and a supplement, in a tracker
\* that remembers two ids; three submissions, so that one turn can be retried.
CONSTANTS
  Turns = {t1, t2}
  ToolGens = {t2}
  Supplements = {s1}
  Clients = {c1, c2}
  Capacity = 2
  MaxRounds = 2
  MaxCalls = 3
  MaxStops = 1
SPECIFICATION Spec
PROPERTIES
  WorkerComesToRest
INVARIANTS
  WorkerInv
  RerunOnlyAfterEviction
  StartsAndEndsPair
  StopCutsTheQueue
CHECK_DEADLOCK FALSE
