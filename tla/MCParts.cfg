\* Each machine large enough for its cases.  Tool jobs: two, two cancellers and
\* a restart.  A cache that must evict beside late commands.  Shell jobs: three
\* on two process ids.  A store that rolls, is rewritten and crashes twice.  MCP:
\* two definitions, one not enabled, two commands, two refreshes, and two of:
\* turns, and saves that may fail, on three threads.
SPECIFICATION PartsSpec
CONSTANTS
  Ids = {i1, i2, i3, i4}
  CacheCapacity = 3
  Shells = {j1, j2, j3}
  Pids = {p1, p2}
  Jobs = {k1, k2}
  Cancellers = {c1, c2}
  MaxRestarts = 1
  LastRecord = 4
  LegacyRecords = 2
  Slice = 1
  Stable = 2
  MaxRewrites = 2
  MaxCrashes = 2
  Configs = {a, off}
  Enabled = {a}
  Refreshes = {r1, r2}
  MaxMcpCommands = 2
  MaxTurns = 2
INVARIANTS
  CacheInv
  OwnershipIsKept
  EachEndIsToldOnce
  MarkedUpdatesWereAnnounced
  EachJobEndsOnce
  RecordsAreKept
  ManifestAccounts
  AppliedMeansCurrent
  RefreshesEndWhatTheyBegin
CHECK_DEADLOCK FALSE
