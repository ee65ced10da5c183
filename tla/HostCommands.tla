---------------------------- MODULE HostCommands ----------------------------
(***************************************************************************)
(* How the Host runs browser commands (server/websocket_delivery.rs).      *)
(*                                                                         *)
(* Each connection has a task that accepts commands and a worker that      *)
(* drains the connection's bounded FIFO queue.  Accepting a command stamps *)
(* the MEM epoch, reserves the command id and takes a ticket in the lane   *)
(* of the command's mutation scope; running it takes the global mutation   *)
(* barrier, then the lane, and then compares epochs.  Lanes are shared by  *)
(* all connections, created on demand and reclaimed when idle.             *)
(*                                                                         *)
(* A command carries an id here; what its handler does to the Host's data  *)
(* is not looked at, only that it ran, failed, or switched the MEM.        *)
(***************************************************************************)
EXTENDS CommandLane, Sequences, Functions

CONSTANTS
    Conns,          \* WebSocket connections
    Commands,       \* command ids
    Scopes,         \* mutation_lane keys
    NoScope,        \* mutation_lane = None
    ScopeOf,        \* the scope of each command
    Global,         \* commands with uses_global_mutation_barrier
    Switches,       \* ... of which MemSwitch
    Core,           \* commands with waits_for_core_acceptance
    Sensitive,      \* commands with result_is_sensitive
    QueueCapacity,  \* BROWSER_COMMAND_QUEUE_CAPACITY
    LaneObjects,    \* bound: identities of TicketCommandLane objects, reused when freed
    WritersFirst,   \* does a waiting writer of the RwLock hold up new readers?
    Maintenance,    \* may the idle maintenance pass run?
    SendLimit       \* bound: how often a client sends each command id

ASSUME CommandsAssumption ==
    /\ NoScope \notin Scopes
    /\ ScopeOf \in [Commands -> Scopes \cup {NoScope}]
    /\ Switches \subseteq Global /\ Global \subseteq Commands
    /\ \A m \in Global \cup Core : ScopeOf[m] # NoScope
    /\ \A m \in Sensitive : ScopeOf[m] = NoScope
    /\ "none" \notin Commands /\ {"nobody", "maintenance"} \cap Conns = {}
    /\ IsFiniteSet(Conns) /\ IsFiniteSet(Scopes)
    /\ LaneObjects \subseteq Nat \ {0} /\ QueueCapacity \in Nat
    /\ WritersFirst \in BOOLEAN /\ Maintenance \in BOOLEAN /\ SendLimit \in [Commands -> Nat]

VARIABLES
    sent,       \* how often each command was sent
    accepting,  \* the command each connection's task is accepting, under mem_epoch.read()
    pipe,       \* each connection's queue of accepted commands
    worker,     \* each connection's worker
    lanes,      \* the state of every lane object
    mapped,     \* command_lanes: the lane object of each scope
    writer,     \* who holds command_global_barrier.write()
    readers,    \* the workers that hold command_global_barrier.read()
    epoch,      \* mem_epoch
    mem,        \* the MEM that is open: how many were opened before, and for which epoch
    dedup,      \* command_dedup's record of each command
    core,       \* intents handed to Core that it has not accepted yet
    handled,    \* how often each command accepted in this MEM was handled
    maint       \* the idle maintenance thread

vars == <<sent, accepting, pipe, worker, lanes, mapped, writer, readers,
          epoch, mem, dedup, core, handled, maint>>
barrierVars == <<writer, readers>>

NoLane == 0
Nobody == "nobody"
FirstMem == [opened |-> 0, epoch |-> 0]
NoJob == [cmd |-> "none", epoch |-> 0, mem |-> FirstMem, lane |-> NoLane, ticket |-> 0]
Idle == [pc |-> "idle", job |-> NoJob, outcome |-> "none"]

Init ==
    /\ sent = [m \in Commands |-> 0]
    /\ accepting = [c \in Conns |-> NoJob]
    /\ pipe = [c \in Conns |-> <<>>]
    /\ worker = [c \in Conns |-> Idle]
    /\ lanes = [o \in LaneObjects |-> NewLane]
    /\ mapped = [k \in Scopes |-> NoLane]
    /\ writer = Nobody
    /\ readers = {}
    /\ epoch = 0
    /\ mem = FirstMem
    /\ dedup = [m \in Commands |-> "absent"]
    /\ core = {}
    /\ handled = [m \in Commands |-> 0]
    /\ maint = IF Maintenance THEN "off" ELSE "done"
-----------------------------------------------------------------------------
(* Who has a reference to a lane object; Arc::strong_count.                *)
Holders(o) ==
    {<<"accepting", c>> : c \in {c \in Conns : accepting[c].lane = o}}
        \cup (UNION {{<<"queued", c, i>> : i \in {i \in DOMAIN pipe[c] : pipe[c][i].lane = o}} :
                     c \in Conns})
        \cup {<<"executing", c>> : c \in {c \in Conns : worker[c].job.lane = o}}
        \cup {<<"mapped", k>> : k \in {k \in Scopes : mapped[k] = o}}
StrongCount(o) == Cardinality(Holders(o))

(* Mutant: reclaim a lane that is idle without counting who still has it. *)
ReclaimableIfIdle(job, ls) == mapped[ScopeOf[job.cmd]] = job.lane /\ IsIdle(ls[job.lane])

(* AcceptedCommandLane::drop removes the lane from the map.                *)
Reclaimable(job, ls) ==
    /\ mapped[ScopeOf[job.cmd]] = job.lane
    /\ StrongCount(job.lane) = 2
    /\ IsIdle(ls[job.lane])

At(c, pc) == worker[c].pc = pc
Goto(c, pc) == worker' = [worker EXCEPT ![c].pc = pc]
Cmd(c) == worker[c].job.cmd

(* MemSwitch holds mem_epoch.write() while it runs; other handlers hold a  *)
(* read guard until they return, an accepting task until it has queued.    *)
SwitchRunning == \E c \in Conns : At(c, "run") /\ Cmd(c) \in Switches
EpochReaders ==
    {c \in Conns : worker[c].pc \in {"run", "finish"} /\ Cmd(c) \notin Switches}
        \cup {c \in Conns : accepting[c] # NoJob}
-----------------------------------------------------------------------------
(* Mutant: every command that is still accepted is driven again. *)
DriveAgainAll(m) == dedup[m] \in {"absent", "accepted"}

(* A command whose id is new is taken in; so is one that Core has not      *)
(* accepted yet.  Any other duplicate is answered from the cache.          *)
TakenIn(m) == dedup[m] = "absent" \/ (dedup[m] = "accepted" /\ m \in Core)

(* The task receives command m: stamps the epoch, reserves the id, and     *)
(* finds or creates the scope's lane (command_lane).                       *)
Accept(c, m) ==
    /\ accepting[c] = NoJob
    /\ ~SwitchRunning
    /\ sent[m] < SendLimit[m]
    /\ sent' = [sent EXCEPT ![m] = @ + 1]
    /\ IF ~TakenIn(m)
       THEN UNCHANGED <<accepting, lanes, mapped, dedup>>
       ELSE LET scope == ScopeOf[m]
                found == IF scope = NoScope THEN NoLane ELSE mapped[scope]
                fresh == CHOOSE o \in LaneObjects : StrongCount(o) = 0
                create == scope # NoScope /\ found = NoLane
                lane == IF create THEN fresh ELSE found
            IN  /\ create => \E o \in LaneObjects : StrongCount(o) = 0
                /\ dedup' = [dedup EXCEPT ![m] = "accepted"]
                /\ accepting' = [accepting EXCEPT ![c] =
                       [cmd |-> m, epoch |-> epoch, mem |-> mem, lane |-> lane, ticket |-> 0]]
                /\ IF create
                   THEN /\ lanes' = [lanes EXCEPT ![lane] = NewLane]
                        /\ mapped' = [mapped EXCEPT ![scope] = lane]
                   ELSE UNCHANGED <<lanes, mapped>>
    /\ UNCHANGED <<pipe, worker, writer, readers, epoch, mem, core, handled, maint>>

Full(c) == Len(pipe[c]) >= QueueCapacity

Ticketed(job) ==
    IF job.lane = NoLane THEN job ELSE [job EXCEPT !.ticket = lanes[job.lane].next]

(* The ticket is issued and try_send puts the command in the queue.        *)
Enqueue(c) ==
    LET job == accepting[c] IN
    /\ job # NoJob
    /\ ~Full(c)
    /\ lanes' = IF job.lane = NoLane THEN lanes ELSE [lanes EXCEPT ![job.lane] = Issue(@)]
    /\ pipe' = [pipe EXCEPT ![c] = Append(@, Ticketed(job))]
    /\ accepting' = [accepting EXCEPT ![c] = NoJob]
    /\ UNCHANGED <<sent, worker, mapped, writer, readers, epoch, mem, dedup, core, handled, maint>>

(* Mutant: the ticket of a command that was not queued is not cancelled. *)
RefusedLaneUnskipped(job) == Issue(lanes[job.lane])

RefusedLane(job) == Skip(Issue(lanes[job.lane]), lanes[job.lane].next)

(* The queue is full: reject_reserved_enqueue skips the ticket, records    *)
(* the rejection and drops the command.                                    *)
Refuse(c) ==
    LET job == accepting[c]
        ls == IF job.lane = NoLane THEN lanes
              ELSE [lanes EXCEPT ![job.lane] = RefusedLane(job)]
    IN
    /\ job # NoJob
    /\ Full(c)
    /\ lanes' = ls
    /\ dedup' = [dedup EXCEPT ![job.cmd] = "rejected"]
    /\ mapped' = IF job.lane # NoLane /\ Reclaimable(job, ls)
                 THEN [mapped EXCEPT ![ScopeOf[job.cmd]] = NoLane]
                 ELSE mapped
    /\ accepting' = [accepting EXCEPT ![c] = NoJob]
    /\ UNCHANGED <<sent, pipe, worker, writer, readers, epoch, mem, core, handled, maint>>
-----------------------------------------------------------------------------
(* run_ordered_blocking_queue takes the next command of its connection and *)
(* execute_browser_command starts on the blocking pool.                    *)
Dequeue(c) ==
    /\ At(c, "idle") /\ pipe[c] # <<>>
    /\ pipe' = [pipe EXCEPT ![c] = Tail(@)]
    /\ worker' = [worker EXCEPT ![c] =
           [pc |-> IF Head(pipe[c]).lane = NoLane THEN "epoch" ELSE "barrier",
            job |-> Head(pipe[c]), outcome |-> "none"]]
    /\ UNCHANGED <<sent, accepting, lanes, mapped, writer, readers, epoch, mem, dedup,
                   core, handled, maint>>

(* Mutant: readers do not keep a writer out. *)
FreeOfWriters == writer = Nobody

Free == writer = Nobody /\ readers = {}
WriterWaits == maint = "waiting" \/ \E c \in Conns : At(c, "queued")

(* command_global_barrier.write(): the worker queues up, and gets the lock *)
(* when nobody has it.                                                     *)
CallWrite(c) ==
    /\ At(c, "barrier") /\ Cmd(c) \in Global
    /\ Goto(c, "queued")
    /\ UNCHANGED <<sent, accepting, pipe, lanes, mapped, writer, readers, epoch, mem,
                   dedup, core, handled, maint>>

TakeWrite(c) ==
    /\ At(c, "queued")
    /\ Free
    /\ writer' = c
    /\ Goto(c, "lane")
    /\ UNCHANGED <<sent, accepting, pipe, lanes, mapped, readers, epoch, mem, dedup,
                   core, handled, maint>>

(* command_global_barrier.read()                                           *)
TakeRead(c) ==
    /\ At(c, "barrier") /\ Cmd(c) \notin Global
    /\ writer = Nobody
    /\ WritersFirst => ~WriterWaits
    /\ readers' = readers \cup {c}
    /\ Goto(c, "lane")
    /\ UNCHANGED <<sent, accepting, pipe, lanes, mapped, writer, epoch, mem, dedup,
                   core, handled, maint>>

EnterLane(c) ==
    LET job == worker[c].job IN
    /\ At(c, "lane")
    /\ CanEnter(lanes[job.lane], job.ticket)
    /\ lanes' = [lanes EXCEPT ![job.lane] = Enter(@)]
    /\ Goto(c, "epoch")
    /\ UNCHANGED <<sent, accepting, pipe, mapped, writer, readers, epoch, mem, dedup,
                   core, handled, maint>>

(* Mutant: the epoch is not compared. *)
NeverStale(c) == FALSE

Stale(c) == Cmd(c) \notin Switches /\ worker[c].job.epoch # epoch

(* mem_epoch.read(), or write() for a MemSwitch, and the comparison.       *)
CheckEpoch(c) ==
    /\ At(c, "epoch")
    /\ IF Cmd(c) \in Switches THEN EpochReaders = {} ELSE ~SwitchRunning
    /\ worker' = [worker EXCEPT ![c].pc = IF Stale(c) THEN "finish" ELSE "run",
                                ![c].outcome = IF Stale(c) THEN "stale" ELSE @]
    /\ UNCHANGED <<sent, accepting, pipe, lanes, mapped, writer, readers, epoch, mem,
                   dedup, core, handled, maint>>

(* The handler of any command but MemSwitch succeeds or fails.             *)
Handle(c) ==
    /\ At(c, "run") /\ Cmd(c) \notin Switches
    /\ \/ /\ worker' = [worker EXCEPT ![c].pc = "finish", ![c].outcome = "ok"]
          /\ handled' = IF worker[c].job.mem = mem
                          THEN [handled EXCEPT ![Cmd(c)] = @ + 1] ELSE handled
          /\ core' = IF Cmd(c) \in Core THEN core \cup {Cmd(c)} ELSE core
       \/ /\ worker' = [worker EXCEPT ![c].pc = "finish", ![c].outcome = "failed"]
          /\ UNCHANGED <<handled, core>>
    /\ UNCHANGED <<sent, accepting, pipe, lanes, mapped, writer, readers, epoch, mem, dedup, maint>>

(* MemSwitch: switch_mem_space shuts the workers down, installs the other  *)
(* MEM, clears the command records and restores the sessions; the epoch    *)
(* advances when it returns Ok, also when the MEM asked for was the        *)
(* current one.  It may fail before it has done anything, or when the      *)
(* sessions of the MEM it has installed cannot be restored.                *)
SwitchMem ==
    /\ mem' = [opened |-> mem.opened + 1, epoch |-> epoch + 1]
    /\ dedup' = [m \in Commands |-> "absent"]
    /\ handled' = [m \in Commands |-> 0]
    /\ core' = {}
KeepMem == UNCHANGED <<mem, dedup, handled, core>>

HandleSwitch(c) ==
    /\ At(c, "run") /\ Cmd(c) \in Switches
    /\ \/ /\ worker' = [worker EXCEPT ![c].pc = "finish", ![c].outcome = "ok"]
          /\ epoch' = epoch + 1
          /\ SwitchMem \/ KeepMem
       \/ /\ worker' = [worker EXCEPT ![c].pc = "finish", ![c].outcome = "failed"]
          /\ epoch' = epoch
          /\ SwitchMem \/ KeepMem
    /\ UNCHANGED <<sent, accepting, pipe, lanes, mapped, writer, readers, maint>>

(* The command's record after its handler returned.                        *)
Recorded(m, outcome) ==
    IF outcome # "ok" THEN "rejected"
    ELSE IF m \in Sensitive THEN "absent"
    ELSE IF m \in Core THEN dedup[m]
    ELSE "committed"

Finish(c) ==
    /\ At(c, "finish")
    /\ dedup' = [dedup EXCEPT ![Cmd(c)] = Recorded(Cmd(c), worker[c].outcome)]
    /\ Goto(c, "leave")
    /\ UNCHANGED <<sent, accepting, pipe, lanes, mapped, writer, readers, epoch, mem,
                   core, handled, maint>>

(* execute_browser_command returns: the guards are dropped in reverse      *)
(* order, then the AcceptedCommandLane, whose drop looks at the map before *)
(* its reference to the lane is released.                                  *)
Leave(c) ==
    /\ At(c, "leave")
    /\ IF worker[c].job.lane = NoLane
       THEN worker' = [worker EXCEPT ![c] = Idle] /\ UNCHANGED <<lanes, barrierVars>>
       ELSE /\ lanes' = [lanes EXCEPT ![worker[c].job.lane] = Advance(@)]
            /\ writer' = IF writer = c THEN Nobody ELSE writer
            /\ readers' = readers \ {c}
            /\ Goto(c, "drop")
    /\ UNCHANGED <<sent, accepting, pipe, mapped, epoch, mem, dedup, core, handled, maint>>

DropLane(c) ==
    /\ At(c, "drop")
    /\ mapped' = IF Reclaimable(worker[c].job, lanes)
                 THEN [mapped EXCEPT ![ScopeOf[Cmd(c)]] = NoLane]
                 ELSE mapped
    /\ Goto(c, "release")
    /\ UNCHANGED <<sent, accepting, pipe, lanes, writer, readers, epoch, mem, dedup,
                   core, handled, maint>>

ReleaseLane(c) ==
    /\ At(c, "release")
    /\ worker' = [worker EXCEPT ![c] = Idle]
    /\ UNCHANGED <<sent, accepting, pipe, lanes, mapped, writer, readers, epoch, mem,
                   dedup, core, handled, maint>>
-----------------------------------------------------------------------------
(* Core dequeues an intent: mark_core_command_accepted.                    *)
CoreAccepts(m) ==
    /\ m \in core
    /\ core' = core \ {m}
    /\ dedup' = [dedup EXCEPT ![m] = "committed"]
    /\ UNCHANGED <<sent, accepting, pipe, worker, lanes, mapped, writer, readers,
                   epoch, mem, handled, maint>>

(* run_idle_temporary_maintenance: a thread of its own that scans under    *)
(* command_global_barrier.write().                                         *)
MaintenanceStep ==
    /\ \/ /\ maint = "off" /\ maint' = "waiting" /\ UNCHANGED writer
       \/ /\ maint = "waiting" /\ Free
          /\ maint' = "scanning" /\ writer' = "maintenance"
       \/ /\ maint = "scanning" /\ maint' = "done" /\ writer' = Nobody
    /\ UNCHANGED <<sent, accepting, pipe, worker, lanes, mapped, readers, epoch, mem,
                   dedup, core, handled>>

Queue(c) == Enqueue(c) \/ Refuse(c)
Execute(c) ==
    \/ Dequeue(c) \/ CallWrite(c) \/ TakeWrite(c) \/ TakeRead(c) \/ EnterLane(c)
    \/ CheckEpoch(c) \/ Handle(c) \/ HandleSwitch(c) \/ Finish(c) \/ Leave(c)
    \/ DropLane(c) \/ ReleaseLane(c)

Next ==
    \/ \E c \in Conns : (\E m \in Commands : Accept(c, m)) \/ Queue(c) \/ Execute(c)
    \/ \E m \in Commands : CoreAccepts(m)
    \/ MaintenanceStep

(* The runtime polls every task, the blocking pool runs every command it   *)
(* was given, handlers return, and a lock that is free is handed out.      *)
Fairness ==
    /\ \A c \in Conns : WF_vars(Queue(c)) /\ WF_vars(Execute(c))
    /\ WF_vars(MaintenanceStep /\ maint # "off")

Spec == Init /\ [][Next]_vars /\ Fairness
-----------------------------------------------------------------------------
MemType == [opened : Nat, epoch : Nat]
JobType ==
    [cmd : Commands, epoch : Nat, mem : MemType, lane : LaneObjects \cup {NoLane}, ticket : Nat]
        \cup {NoJob}
WorkerType ==
    [pc : {"idle", "barrier", "queued", "lane", "epoch", "run", "finish", "leave", "drop", "release"},
     job : JobType, outcome : {"none", "stale", "ok", "failed"}]

TypeOK ==
    /\ sent \in [Commands -> Nat] /\ \A m \in Commands : sent[m] <= SendLimit[m]
    /\ accepting \in [Conns -> JobType]
    /\ pipe \in [Conns -> Seq(JobType \ {NoJob})]
    /\ \A c \in Conns : Len(pipe[c]) <= QueueCapacity
    /\ worker \in [Conns -> WorkerType]
    /\ \A c \in Conns : At(c, "idle") <=> worker[c].job = NoJob
    /\ lanes \in [LaneObjects -> LaneType]
    /\ mapped \in [Scopes -> LaneObjects \cup {NoLane}]
    /\ writer \in Conns \cup {Nobody, "maintenance"} /\ readers \subseteq Conns
    /\ epoch \in Nat /\ mem \in MemType
    /\ dedup \in [Commands -> {"absent", "accepted", "committed", "rejected"}]
    /\ core \subseteq Core
    /\ handled \in [Commands -> Nat]
    /\ maint \in {"off", "waiting", "scanning", "done"}

(* The commands whose ticket is out: queued, or executed and still in the  *)
(* lane.                                                                   *)
InLanes ==
    (UNION {Range(pipe[c]) : c \in Conns})
        \cup {worker[c].job : c \in {c \in Conns : worker[c].pc \notin {"drop", "release"}}}

(* The commands that have been accepted and have not left their lane.      *)
Pending == {accepting[c] : c \in Conns} \cup InLanes

(* All commands of one scope wait in one lane, the one a new command would *)
(* be given: reclaiming a lane never leaves a command behind in the old    *)
(* one, where it could overtake or run beside a later command.             *)
OneLanePerScope ==
    \A job \in Pending : job.lane # NoLane => mapped[ScopeOf[job.cmd]] = job.lane

HostInv == TypeOK /\ OneLanePerScope

(* Two commands of one scope are never inside their handlers together, a   *)
(* global command and the maintenance scan have the Host to themselves.    *)
Running == {c \in Conns : worker[c].pc \in {"epoch", "run", "finish", "leave"}}
MutationsExclude ==
    \A c \in Running : worker[c].job.lane # NoLane =>
        /\ maint # "scanning"
        /\ \A d \in Running \ {c} :
             ScopeOf[Cmd(d)] = ScopeOf[Cmd(c)] \/ Cmd(c) \in Global
                 => worker[d].job.lane = NoLane

(* "queued_command_from_old_mem_epoch_is_rejected_before_domain_execution" *)
(* (docs/feature-test-management.md): a handler runs in the MEM that was   *)
(* open when its command was accepted.  Not so after a switch that failed  *)
(* with the other MEM already installed, until one succeeds: the epoch,    *)
(* which is all that is compared, has not moved (server.rs 5107).          *)
HalfSwitched == mem.epoch > epoch
RunsInItsMem ==
    \A c \in Conns : At(c, "run") /\ Cmd(c) \notin Switches /\ ~HalfSwitched
                        => worker[c].job.mem = mem

(* However often and on however many connections a command is sent while   *)
(* one MEM is open, its handler succeeds once, unless Core or a later      *)
(* reveal is to see it again.  What was accepted in an earlier MEM is not  *)
(* counted: its record was cleared with that MEM.                          *)
HandledOnce == \A m \in Commands \ (Core \cup Sensitive) : handled[m] <= 1

(* A lane that commands wait in serves the ticket of one of them: no       *)
(* ticket is lost by a refusal, by an early drop or when a lane is         *)
(* reclaimed, so whoever waits there waits for a command.                  *)
TurnIsHeld ==
    \A o \in LaneObjects : lanes[o].serving # lanes[o].next =>
        \E job \in InLanes : job.lane = o /\ job.ticket = lanes[o].serving

(* "accepted Host mutations still run to completion": a command that was   *)
(* queued is eventually executed and its worker becomes free again.        *)
AcceptedRunsToCompletion ==
    \A c \in Conns : (pipe[c] # <<>> \/ ~At(c, "idle")) ~> (pipe[c] = <<>> /\ At(c, "idle"))
=============================================================================
