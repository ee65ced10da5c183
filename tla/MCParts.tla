------------------------------ MODULE MCParts ------------------------------
(***************************************************************************)
(* Instances for TLC of the machines of which no other instance is made:   *)
(* the tool jobs, the command cache, the shell jobs, the rolling store     *)
(* and the MCP servers.  A behaviour is a behaviour of one of them, chosen *)
(* at the start.  All but the tool jobs share their variables: x1 to x16   *)
(* are those of the machine that runs, and what is checked of a machine is *)
(* checked while it runs.                                                  *)
(***************************************************************************)
EXTENDS ToolJobs, TLC

CONSTANTS Ids, CacheCapacity,
          Shells, Pids,
          LastRecord, LegacyRecords, Slice, Stable, MaxRewrites, MaxCrashes,
          Configs, Enabled, Refreshes, MaxMcpCommands, MaxTurns

(* What the machines use as values of their own are no shells, no process  *)
(* ids and no definitions.                                                 *)
ASSUME ShellsApart == {"free", "look"} \cap Shells = {} /\ "none" \notin Pids
ASSUME ConfigsApart == Enabled \subseteq Configs /\ "none" \notin Configs

VARIABLES part,   \* the machine that runs
          x1, x2, x3, x4, x5, x6, x7, x8, x9, x10, x11, x12, x13, x14, x15, x16

D == INSTANCE CommandDedup
       WITH Capacity <- CacheCapacity,
            records <- x1, order <- x2, owners <- x3, overdue <- x4

J == INSTANCE ShellJobs
       WITH Jobs <- Shells,
            job <- x1, tracked <- x2, lock <- x3, batch <- x4, listening <- x5,
            announced <- x6, told <- x7

R == INSTANCE RollingStore
       WITH dir <- x1, legacy <- x2, temps <- x3, backups <- x4, op <- x5, next <- x6,
            rewrites <- x7, crashes <- x8, kept <- x9, misled <- x10, jumbled <- x11

M == INSTANCE McpServers
       WITH MaxCommands <- MaxMcpCommands,
            config <- x1, report <- x2, connection <- x3, refresh <- x4, session <- x5,
            worker <- x6, upsert <- x7, lane <- x8, delete <- x9, apply <- x10,
            asked <- x11, begun <- x12, sent <- x13, unmarked <- x14, dropped <- x15,
            renewed <- x16

(* The variables from the nth on, not used by the machine that runs. *)
From12 == <<x12, x13, x14, x15, x16>>
From8 == <<x8, x9, x10, x11, From12>>
From5 == <<x5, x6, x7, From8>>
From1 == <<x1, x2, x3, x4, From5>>

Free12 == x12 = 0 /\ x13 = 0 /\ x14 = 0 /\ x15 = 0 /\ x16 = 0
Free8 == x8 = 0 /\ x9 = 0 /\ x10 = 0 /\ x11 = 0 /\ Free12
Free5 == x5 = 0 /\ x6 = 0 /\ x7 = 0 /\ Free8
Free1 == x1 = 0 /\ x2 = 0 /\ x3 = 0 /\ x4 = 0 /\ Free5

PartsInit ==
  /\ Init
  /\ \/ part = "tools" /\ Free1
     \/ part = "cache" /\ D!Init /\ Free5
     \/ part = "jobs" /\ J!Init /\ Free8
     \/ part = "store" /\ R!Init /\ Free12
     \/ part = "mcp" /\ M!Init

PartsNext ==
  /\ UNCHANGED part
  /\ \/ part = "tools" /\ Next /\ UNCHANGED From1
     \/ part = "cache" /\ D!Next /\ UNCHANGED <<vars, From5>>
     \/ part = "jobs" /\ J!Next /\ UNCHANGED <<vars, From8>>
     \/ part = "store" /\ R!Next /\ UNCHANGED <<vars, From12>>
     \/ part = "mcp" /\ M!Next /\ UNCHANGED vars

PartsSpec == PartsInit /\ [][PartsNext]_<<part, vars, From1>>

(* What is checked of each machine is stated, and explained, in its module. *)
CacheInv == part = "cache" => D!CacheInv
OwnershipIsKept == part = "cache" => D!OwnershipIsKept
EachEndIsToldOnce == part = "jobs" => J!EachEndIsToldOnce
MarkedUpdatesWereAnnounced == part = "jobs" => J!MarkedUpdatesWereAnnounced
RecordsAreKept == part = "store" => R!RecordsAreKept
ManifestAccounts == part = "store" => R!ManifestAccounts
AppliedMeansCurrent == part = "mcp" => M!AppliedMeansCurrent
RefreshesEndWhatTheyBegin == part = "mcp" => M!RefreshesEndWhatTheyBegin
=============================================================================
