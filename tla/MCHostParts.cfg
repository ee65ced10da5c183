\* The lane: enough tickets for gaps of several cancelled ones.
\* Events: two turns whose six projections two threads handle, and one of: a
\* command that changes the queue, a Stop (whose saves may fail), a baseline for
\* everybody; a receiver that holds one event and lags, and a connection that
\* may begin at any time, as a reconnection does.
\* Timers: one of the user, which repeats, two of the model, one with a time that
\* the Host cannot read, and three of: commands, calls of the tool, fires, saves
\* of something else, which may fail, and crashes.
SPECIFICATION HostPartsSpec
CONSTANTS
  Tickets = {0, 1, 2, 3, 4, 5}
  Threads = {t1, t2}
  Turns = 2
  Capacity = 1
  MaxCommands = 1
  MaxSockets = 1
  UserTimers = {u}
  ModelTimers = {m, n}
  Unusable = {n}
  Repeats = {u}
  Handlers = {h}
  MaxEvents = 3
  MaxAccidents = 1
INVARIANTS
  LaneInv
  ServedInOrder
  NoEventIsMissing
  PageCatchesUp
  TimersInv
SYMMETRY ThreadSymmetry
CHECK_DEADLOCK FALSE
