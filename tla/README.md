# TimemAi: models, checks and proofs

TLA+ models of the concurrent and persistent parts of TimemAi, the TLC runs that check them and the
theorems TLAPS proves about them. Paths are relative to the repository root; `server.rs` is
`applications/timem/src/server.rs`. Every definition that models code is listed with its lines under `map`
in `PROJECT.json`; the hazards the properties are aimed at are there too, each at its line.

## 1. The system

TimemAi runs AI agent *Sessions*. A **Core session worker** (one thread per worker) takes commands from a
channel and runs *turns*: rounds of model requests and tool calls. A **Host** (the `timem` process) owns
the Sessions, offers them to browsers over WebSockets, keeps per-Session files inside a *MEM* directory, and
hears of Core's progress on one event thread. **Interfaces** (web, shell) send commands and render
projections.

| Component | State it keeps | Operations | Talks to |
|---|---|---|---|
| Session message queue (`core/session/src/message_queue.rs`) | FIFO of messages for future turns, revision, auto-send switch, continuation gate, command being dispatched; one file | enqueue, edit, remove, reorder, begin/reject/confirm dispatch, grant, block, restore | called by Host handlers and the event thread |
| Mutation lane (`server/command_lane.rs`) | tickets issued, served, skipped | issue, enter, leave, skip | command acceptance and execution |
| Browser commands (`server/websocket_delivery.rs`) | per-connection queue, lane map, global barrier, MEM epoch | accept, queue, execute, finish, disconnect | lanes, dedup cache, Host handlers |
| Deduplication cache (`server/command_dedup.rs`) | bounded record of command ids and its eviction order | reserve, finish, unreserve, clear | browser commands |
| Host Session (`server.rs`) | turns; pending, active and cancelling turn; work-instruction question; retained supplements | command handlers, worker events, timer fires, restore | queue, worker, browsers |
| Session worker (`core/session/src/lib.rs`, `core/agent/src/session_runtime.rs`) | command tracker, channel, supplement mailbox, Stop flag and generation, shutdown mark | submit a turn or tool generation, supplement, compaction, Stop, shutdown; the worker's loop | Host (events), agent turn loop |
| Agent turn loop (`core/agent/src/lib.rs`, `session_runtime.rs`) | round budget, memo and its guard, compaction state, the batch under way, repairs | model request, response, tool batch, approval, round limit, end of turn | transport, tools, user |
| Turn projection and event delivery (`turn_state.rs`, `semantic_delivery.rs`, `websocket_delivery.rs`, web page) | version of the turn applied last, sequence number, broadcast channel, cursor | take, apply, publish, subscribe, baseline, lag | worker, browsers |
| MCP servers (`server.rs`, `core/agent/src/mcp.rs`) | definitions, reports, connections; per Session a selection with two revisions | upsert, toggle, reconnect, delete, background refresh, apply at the start of a turn | worker, external servers |
| Shell jobs (`run_bash.rs`), tool jobs (`tool_jobs.rs`) | jobs by process id; index and status files | spawn, wait, promote, cancel, sweep, status | OS processes, agent turn loop |
| Timers (`server.rs`, `core/agent`, `timer.rs`) | the Host's timers, timers.json, Core's copy | create, edit, toggle, delete by the user; create, delete by the model; fire; sync and merge; restart | Host commands, scheduler, worker events |
| Rolling store (`rolling_file_store.rs`, `audit.rs`) | segment files, manifest, temporary and old directories | append, evict, prune, rewrite, repair | disk |
| MEM maintenance, self-upgrade, instance lock, Session store | small state machines or files | — | disk, network, processes |

What makes them correct, and hard:

* *queue*: no message lost, sent twice or out of order; the one in flight can be neither edited nor
  withdrawn; file and memory agree after any failed save or crash. Two threads change it, and it is
  saved after its lock is released.
* *lane, commands, dedup*: mutations of one Session run one at a time and in the order of acceptance;
  a MEM switch runs alone and cuts off what was queued before; a repeated id runs once; everything
  accepted runs. Tickets are taken at acceptance and used much later, refused commands give theirs
  back, and lanes are reclaimed while others hold clones.
* *Host Session*: the turn it shows will end, none is left open, an acknowledged supplement is not
  lost. Bridge, lane and the Host's own tasks read the record under one hold of a lock and act on it under
  another; a failed save puts the whole record back.
* *worker*: every command accepted for Core is acknowledged once; a Stop cuts off the turns before it
  and no other; each start has an end. Submission, Stop and shutdown are sequences of separate
  accesses to shared atomics and locks.
* *turn loop*: bounded rounds, memos and compactions come to an end, results go to their calls, a Stop
  can be taken wherever the loop waits. There are a dozen ways out of a turn.
* *delivery*: a baseline plus events equals the state, whatever lags or reconnects, and whichever
  thread publishes first.
* *MCP*: threads connect without a lock while definitions, selections and turns change.
* *timers*: the copies come to agree, and what ended does not come back. Each side tells the other
  everything it has, and what it tells waits behind a turn or for a thread.
* *stores and jobs*: what was written survives a crash at any point; a job ends with one status,
  reported once.

## 2. Modules

| Module | Models | Correspondence |
|---|---|---|
| `MessageQueue` | `SessionMessageQueue` | one operator per method on a queue record, a `Can…` operator for the condition under which the method succeeds |
| `MessageQueueMachine` | the Host around one queue | `queue` (memory), `disk` (file), `command` (the lane's command between the release of the lock and the end of its save, with the clone it would put back) |
| `Outbox` | abstract: what the queue promises | a set of messages, one in flight, a saved set |
| `CommandLane`, `CommandLaneMachine` | `TicketCommandLane`; one lane and its tickets | operators on a lane record; each ticket waits, is served or cancelled |
| `HostCommands` | acceptance and execution of browser commands on several connections | uses `CommandLane` for every lane object; execution is one action per lock taken or released |
| `CommandDedup` | `CommandDedupCache` | records and eviction order, with the commands in flight as history |
| `HostSession` | one Session of the Host, the threads that share it, its worker seen from outside | `session` is the record under its lock; `pc` says for each thread where between two holds it is and what it remembers |
| `SessionWorker` | one worker, its handle and what they share | a step is one access to shared state, or several under one lock |
| `ToolBatch`, `AgentTurn` | the tool calls of one response; one Core context and its turns | a batch record with operators; one action per step of the dispatch loop and per outcome of a response |
| `EventDelivery` | projections, publication, socket and page | threads take projections and publish in any order; `pipe` is the broadcast receiver |
| `McpServers` | one server and one Session, refresh threads, two appliers | one action per lock held |
| `Timers` | the timers of one Session in the Host, its file and Core | `host` under the sessions lock; `thread` says what the lane, the scheduler and each event thread have left to do without it; `syncs` and `topics` are what the two sides are telling each other |
| `ShellJobs`, `ToolJobs` | `ShellJobManager`; `FileToolJobStore` | supervisors, callers, looks, sweeps and cancellations between which everything interleaves |
| `RollingStore` | the segmented store as the audit stream uses it | one action per change of the disk, `Crash` between any two |
| `MessageQueueProofs`, `PartsProofs`, `HostPartsProofs`, `HostCommandsProofs`, `HostSessionFacts`, `HostSessionProofs`, `AgentTurnProofs`, `SessionWorkerProofs` | proofs | section 6 |
| `MCMessageQueue`, `MCHostCommands`, `MCHostSession`, `MCSessionWorker`, `MCAgentTurn` | instances for TLC | constants and symmetry sets |
| `MCParts`, `MCHostParts` | several independent machines in one instance | `part` says which machine runs, for the whole behaviour; the product of their states is never built. The machines share the variables `x1` to `x16`, or `y1` to `y15` (all but the one the module extends, whose variables have their own names): a substitution gives each machine its own, those it does not use are 0, and an invariant of a machine is claimed while it runs |

Decisions that matter for reading them:

* **Queue.** A command of the lane changes the queue under the lock; `Saved`, `RollBack` or
  `SupplementFails` is the rest of the same handler, after the lock was released, and the event thread may
  act in between. Only one such command is under way because they share the Session's lane. The event
  thread's handlers and the dispatcher save as part of their action and ignore a failure, so the file
  may or may not take the new queue. Whether a turn is active is left open here (`HostSession` has it). A
  file that cannot be parsed is not modelled; neither is saturation of the 64-bit counters.
* **Commands.** A command is its id with a scope and the flags the code dispatches on. Handlers succeed,
  fail, or switch the MEM (perhaps failing after the other MEM was installed). `WritersFirst` stands
  for the platform's `RwLock`: whether a waiting writer holds up new readers is not specified by Rust.
* **Host Session.** The message queue is a sequence with a dispatch mark; its own rules are in
  `MessageQueue`. Core is a channel of submissions and one running turn. The threads are the event
  bridge, the lane (one command at a time) and one task of the Host's own; `settle` makes the lane a
  second drainer of worker events. Failures are counted by `MaxFaults`.
* **Worker.** Web workers only: a supplement that misses the final answer is handed back
  (`continue_supplements_after_final_answer` is false). The turn is kept at its points of contact.
* **Turn loop.** What the model answers is one of the outcomes the code tests for; token counts appear
  only as "above the threshold" or not; a mode is fixed when the turn begins, as in the code. Retries
  inside one model call, reminders and usage statistics are left out.
* **Failed saves.** A handler that changes the Session saves it after the lock was released, and puts back
  the whole `WebSession` of before when the save fails. `HostSession` and `MessageQueueMachine` have
  this for the turn and the queue. What other threads keep in the same record goes back as well:
  the turn projection in `EventDelivery` (`PutBack`), the MCP revisions in `McpServers` (`Saved`), the
  timers in `Timers` (`Saved`, and the scheduler's own in `Delivered`).
* **Delivery.** Events are the turn projection, the queue projection, and the Session of a Stop, of which
  turn and queue are kept: a Stop changes neither, but what it publishes was copied before its save, and the
  page takes it as it is. Sending and reducing an event are one step, because a socket sends in
  order and the page handles messages in order.
* **MCP.** A refresh thread is used once. What the worker was sent stands for the worker's setting, as
  the channel keeps the order. The lane, the event thread and the scheduler of the timers begin turns.
  A MEM switch is not modelled.
* **Jobs.** A signal makes a process end eventually; a process may end at any time. In `ShellJobs` a
  process id is free once its process was reaped and may be given to another job.
* **Timers.** A timer has a prompt and is enabled or not; the clock is left out: any enabled timer may be
  due. The model's tool checks the form of a time only, so some of its timers are `Unusable` to the Host, which
  leaves them out of a merge (`Taken`) and tells nobody. `accidents` is a history of what the code cannot settle: a change of the Host and a call of the
  model that crossed (`crossed`), two threads that took copies of one kind, or a put-back that undid a change
  of the timers (`raced`), a failed write
  (`unsaved`), a timer of the user that the model deleted (`defied`), a crash before the file, or Core, was
  told (`crashed`).
* **Store.** A record is a number; sizes are counted in records. The names of rewritten segments have 8
  digits and those of appended ones 16, and they are compared as text (`NameKey`).
  A repair (`Recover`) is one action; the code lists what is beside the store, moves one directory into
  place and then removes the others of the list (`rolling_file_store.rs:85`), without a lock, so a crash or
  a rewrite between these is not covered.

## 3. Runs

| Run | Question | Bounds, and why they are enough |
|---|---|---|
| `mq` | identity, order and revision of the queue, and refinement of `Outbox`, under every interleaving of commands, Core events, failed saves, MEM switches and restarts | 3 messages, 2 payloads, capacity 3: the full queue, a removal from the middle and a wrong order of two survivors all occur; 4 revisions in memory: enough to overtake a command and to number after a reorder and a restart |
| `host` | one lane per scope, exclusion, the epoch check, one run per command, no lost ticket | 2 connections, a Session edit sent twice, a submit, a MEM switch, the maintenance pass; queues of one (so that refusals occur), 4 lane objects (more than can be alive); no sensitive reveal: it takes no lane, and the proofs of section 6 include it |
| `worker` | conservation of ids, reruns, Stop cuts the channel, starts and ends pair, rest | 2 turns (one a tool generation), 1 supplement, 2 clients, a tracker of 2, so that eviction occurs; 3 submissions, so that one is a retry; 1 Stop, 2 rounds |
| `agent` | budget, memo, compaction, results and Stop of the turn loop | 2 turns, a budget of 2 rounds, 1 repair, 3 model requests, 1 guard token, 1 settings change, five batches chosen for how their calls meet: every path of the loop is taken, and twice in a turn |
| `session` | the shown turn ends, none is left open, supplements are kept | 2 user messages, 1 timer, 2 turns, 1 fault, 1 Stop: a turn, a supplement to it and the turn it leads to. A message sent now over another turn takes three turns; the same invariants hold with three of them and either the fault or the Stop (6 million states, four minutes each), with three messages, the fault, the Stop and no timer (one minute), and in 45 million states of random behaviours with 6 messages, 2 timers, 9 turns, 4 faults and 3 Stops |
| `host_parts` | lane; event delivery; timers | 6 tickets (gaps of several cancelled ones); delivery: 2 turns of 3 projections, 2 threads, a receiver of 1 event that lags, 1 change of the queue, Stop or common baseline, whose save may fail, 1 connection that may begin at any time (checked once, too: a receiver of 2 events, 6.2 million states in four minutes; and 3 commands beside 1 turn with a receiver of 2, 12.9 million states in five); timers: one of the user that repeats, one of the model that does not, there already or created later, one of the model that the Host cannot use, 3 commands, calls, fires, other saves and crashes, 1 kind of accident: every pair of them in every order, and what follows; behaviours end after a race |
| `parts` | tool jobs; cache; shell jobs; rolling store; MCP servers | 4 ids in a cache of 3; 3 shell jobs on 2 process ids; 2 tool jobs, 2 cancellers, 1 restart; 4 records after 2 old ones in slices of 1, stable size 2, 2 rewrites, 2 crashes; MCP: 2 definitions (one disabled), 2 commands, 2 refreshes, 2 applications or failed saves, on three threads, that may overlap |
| `host_deadlock` | *violated*: what is accepted completes, with a global command | queues of two |
| `worker_stop` | *violated*: a Stop before the start of a turn is obeyed | 1 turn, 1 Stop |
| `session_order` | *violated*: an outcome reaches its own turn | 2 messages, no fault, no Stop |
| `agent_always` | *violated*: "always allow" ends the asking | 1 response with two shell calls |
| `timers_promise` | *violated*: a timer the model created is delivered | 2 timers of the model, which the user may edit, 3 commands and calls |

Symmetry is used for ids, connections and threads, in runs without liveness only. `CHECK_DEADLOCK FALSE` is
given where clients stop asking and everything may end (all runs but `mq`, which can always go on).

### Properties

* `mq`: `QueueInv` (types; ids and enqueue numbers stay distinct, capacity holds, the command being
  dispatched is queued, in memory and in the file). `OrderIsTheUsers`: only reorder, a restart or a command
  put back changes the relative order. `RevisionOrdersProjections`: nothing visible changes under the
  same revision. `ImplementsOutbox`: every step is one of the outbox, a command put back included,
  except one that was overtaken.
* `host`: `HostInv` (types; reclaiming a lane leaves no command behind in the old one), `MutationsExclude`,
  `RunsInItsMem` (except while a switch is half done), `HandledOnce`, `TurnIsHeld` (a lane that is waited in
  serves the ticket of a command that is queued or running).
* `worker`: `WorkerInv` (types; until a shutdown, and but for `strayed` supplements, pending ids are exactly
  those on their way, each in one place, and what was taken was acknowledged once), `RerunOnlyAfterEviction`, `StartsAndEndsPair`, `StopCutsTheQueue`,
  `WorkerComesToRest`.
* `agent`: `TurnInv` (types; rounds within budget, repairs and overrides), `MemoEndsWithItsTurn`,
  `InterceptionsAreEarned`, `NoCompactionLoop`, `ResultsFollowTheirCalls`, `FinishedOnItsOwnResponse`,
  `StopCanBeTaken`.
* `session`: `SessionInv` (types; Core has one turn at a time), `ShownTurnIsBacked`, `NoTurnLeftOpen`,
  `SupplementsAreKept`, `HandedBackStartsATurn`. Each names what breaks it and nothing more: a named error
  path (`stranded`), a put-back over another's change (`undone`), a message sent now over another turn
  (`hurried`), and, for `NoTurnLeftOpen` alone, two threads that handle events out of order (`overtaken`).
* `host_parts`: `LaneInv`, `ServedInOrder`; `NoEventIsMissing`, `PageCatchesUp` (at rest the page shows the
  Host's turn and queue and no end is lost; `undone` names what a put-back, or a Stop's old copy on the page,
  has undone and nothing later replaced); `TimersInv` (when nothing is
  under way Host, file and Core agree, but for timers the Host cannot use; an ended timer stays ended and one that fires once is delivered
  once; a timer of the user stays until it is deleted or has fired).
* `parts`: `CacheInv` (types; the order lists recorded ids once; refusal only
  when all are in flight), `OwnershipIsKept`; `EachEndIsToldOnce`, `MarkedUpdatesWereAnnounced`;
  `EachJobEndsOnce`; `RecordsAreKept` (what was stored stays, and is read oldest first), `ManifestAccounts`;
  `AppliedMeansCurrent` (a Session that calls its revision applied has given its worker what is selected,
  defined and known; `renewed` names the revisions a put-back has made ambiguous), `RefreshesEndWhatTheyBegin` (a report that says "connecting" has its thread; a deleted
  server keeps no refreshed connection).

An exception in a property is always a state the code really reaches: with the exception dropped, TLC finds
a behaviour that breaks the property. Section 4 says what these behaviours are.

## 4. Where the code differs from what it says, or surprises

The runs that expect a violation:

1. **Two commands can wait for each other for ever** (`host_deadlock`): the ticket is taken at acceptance,
   the barrier before the lane. The same happens without a global command when the idle maintenance waits
   for the barrier and waiting writers go first.
2. **A Stop between two instructions is forgotten** (`worker_stop`): the worker compares the generation,
   then clears the flag.
3. **An outcome reaches no turn** (`session_order`): a supplement that settles a closed turn drains worker
   events beside the bridge and may handle the end of a turn before its start.
4. **"Always allow" does not end the asking** (`agent_always`): the Host's runtime never overrides
   `take_bash_always_allow`, so the mode read at the start of the turn holds for the rest of the batch.
5. **A timer the model was promised is lost** (`timers_promise`): a sync of the Host that waits behind a
   turn overwrites Core's timers, with the one the model created in that turn; the model's next call of
   the tool then takes it from the Host, which guards only the timers of the user.

Behaviours the models have and the properties name as exceptions; no document says that they must not be:

* *Queue.* A failed save puts back the whole Session it cloned; a message whose turn started in between is
  queued and "dispatching" again (`Overtaken`). A refused send-now grants a continuation, whichever way
  the dispatch began. The page replaces its queue without a look at the revision (`main.tsx:2404`).
* *Delivery.* The page takes the Session of `turn_cancelling` for its own, turn projection and queue included
  (`main.tsx:2376`). It was copied before the save (`server.rs:4383`): a projection that another thread applied and
  published in between is undone on the page, and if it was the end of the turn, which no other projection
  follows, the page shows a turn that has ended until it reconnects or another turn begins. A failed save
  puts back the turn's revision as well: the Host counts the next projections from there, and the
  page refuses them until they are past the revision it has seen.
* *Commands.* A MEM switch that fails late leaves the epoch behind; commands for the old MEM run in the new
  one until a switch succeeds (`HalfSwitched`). A command that ends after the cache was cleared leaves a
  record that the order does not list and that is never evicted (`overdue`).
* *Session.* Error returns after the pending turn was made, or after a dispatch was begun, leave it with
  nothing behind it (`stranded`). A Stop between the end of the work-instruction question and the submission
  (`server.rs:9372`) finds nothing in Core and is not repeated. A failed save undoes starts and ends of
  turns handled meanwhile. `send_queued_message_now` looks for an active turn and dispatches under a later
  lock without looking again (`server.rs:7846`): over a turn that began in between, Core gets two turns and
  the Session loses sight of the first (`hurried`). Supplements handed back may then wait past a turn that
  completed normally: their handoff finds the second turn there, retains them, and the end of that turn was
  handled already (a behaviour of 70 steps, with 5 turns and 2 Stops, found by random simulation).
* *Worker.* Supplements accepted for a turn that is stopped before its start stay in the mailbox. A batch
  that comes with a turn is put into the mailbox when the turn starts, even if an earlier turn of the channel
  has closed the mailbox meanwhile (`lib.rs:1893`); the next submission opens it and drops what is in it
  (`lib.rs:978`), so that these ids stay pending and are never acknowledged (`strayed`). It takes three
  submissions, two of them before the first turn has ended, and with three turns TLC finds it; the Host
  does not submit turns with a batch today, the tests of the worker do.
* *Turn loop.* A publish of a parallel group that is asked for after the shell calls ran gives results
  to other calls. The summary of a `task_finished` whose batch waited for approval ends the turn on a later
  response. Supplements replace an open approval or the round-limit question.
* *MCP.* Of two turns that begin at once the older snapshot may be sent last while the revision is called
  applied (`sent`). A definition that is disabled or whose save fails while connecting may leave a report
  at "connecting" without a thread, and nothing schedules another (`dropped`); so does a thread that
  cannot be started. A failed save of a definition leaves memory changed and Sessions unmarked
  (`unmarked`). Calls of a turn that still has a deleted server connect it again. A failed save of any
  handler puts back `mcp_config_revision` and the selection (`server.rs:4394`, `7833`, `11081`): a mark that a
  refresh made meanwhile is gone, the old revision counts as applied, and the worker keeps the tools of
  before; and the next mark has the number of the lost one (`renewed`).
* *Timers.* The user's deletion of a model's timer is undone by a topic of Core that was under way, although
  the page says that it "will never fire again" (`strings.en.ts:724`). A timer of the user that the model
  deletes is reported deleted and stays in the Host. Two copies taken by two threads may be written, sent or
  merged in either order. A crash between the delivery of a timer and the file delivers it again.
  A timer of the model with a time that has the right form and no meaning is dropped by the Host with a line in its
  log (`server.rs:7323`): Core lists it, until the next sync of the Host removes it, and nobody fires it. A failed
  save of another command puts back the timers, too: one that has fired meanwhile is there again.
* *Jobs.* A status file created and not written, by a crash or a failed write, counts as running for ever
  and can never be written (`cut`); a job whose append failed is in no sweep. Shell jobs are kept by
  process id, which may be used again before the first job is taken out (`PidReused`).
* *Store.* A record appended after a rewrite into several segments is read, and evicted, before them
  (`jumbled`). A crash in the middle of an eviction leaves a manifest that names a missing file until the
  next pruning (`cut`). A repair may take an unfinished temporary directory or an outdated copy (`misled`).

## 5. Fairness

* *host*: weak fairness of each connection's acceptance task and worker (the runtime polls its tasks, the
  blocking pool runs what it was given, a free lock is handed out), and of a maintenance pass that has begun.
  None of sending, nor of Core accepting.
* *worker*: weak fairness of the worker thread and of a call in progress on the handle. The model request
  ends because the transport has an inactivity limit; an approval is taken to be answered. Nobody has to
  make a call.
* Everything else is checked for safety only and states no fairness. `StopCanBeTaken` says with `ENABLED`
  what a liveness property of the turn loop would need.

## 6. Proofs

All for arbitrary constants, under the named assumptions of the modules (`QueueAssumption`,
`MachineAssumption`, `TicketsAssumption`, `CommandsAssumption`, `TurnAssumption`, `WorkerAssumption`,
`ShellsApart`, `ConfigsApart`, `DeliveryAssumption`, `TimersApart`); TLC evaluates these assumptions on its instances.

* `MessageQueueProofs`. `QueueInvHolds` (types and identities) follows from the inductive invariant
  `IInv` = types, `WellFormed` of queue and file, and `WellFormed` of the clone a command would put back.
  The last part is needed because `RollBack` installs the clone. `Good(q)` (typed and well formed) is preserved
  by every operator, one lemma each; removal and reorder go through `PickedIsGood` (a queue made of some of
  another's items, each once), restore through `NextSeqAfterIsAbove`. `SeqsBelowNext` is what makes
  `enqueue` keep the numbers distinct. `RevisionsOrderProjections` is the action property, from the same
  invariant and `MutationsRaise` (each method counts up exactly once).
* `MessageQueueProofs`, second part. `QueueImplementsOutbox` is the refinement. Each method has its effect on the messages and
  on the one in flight (`EnqueueAccepts`, `UpdateEdits`, `RemoveWithdraws`; `ReorderMessages` changes neither),
  and a step with such an effect is a step of the outbox (`EffectsAreOutboxSteps`). A command that is put back
  needs one more invariant, `UndoFits`: while the queue is at the revision the command left, the clone and
  the queue are one command apart; and a command's effect can be taken back by a command (`EffectsReverse`).
  `OnlyTheUserReorders` follows the positions of two messages through each method (`InOrder`).
* `HostPartsProofs` has the machines that run `host_parts` checks, `PartsProofs` those of run `parts`. An
  instance is proved about where it runs: the invariant says `part = "mcp" => ...`, and its lemmas are about
  the instance alone.
* The lane. `LaneInv` is inductive: the fields of the lane account for where each ticket is. The
  hard part is `SkipCancelledAccounts`: the loop that passes over cancelled tickets stops at the first
  that is not. `LaneServesInOrder` and `IdleLaneIsEmpty` follow.
* The tool jobs. `JobsEndOnce` is `EachJobEndsOnce` for any number of jobs, cancellers and restarts. The
  inductive invariant is types, `Placed` (who writes or signals is at a job) and `JobInv(j)` for each job. What
  `EachJobEndsOnce` lacks is who will write: an empty status file has exactly one writer (`OneWriter`), and a
  process that runs, or a file that is still empty, has its supervisor or its canceller (`Supervised`), unless
  a step was lost (`cut`). Each action moves one job; `UntouchedKeepsJobInv` settles all the others, and
  `LeavesItsJob`, `TakesItsJob` and `PassedFacts` say what a canceller's step does to the writers.
* The shell jobs. `EachEndIsToldOnce` and `MarkedUpdatesWereAnnounced` follow from an invariant of each job
  (`JobInv`) and `Tracked`, `TrackedHaveCalls`, `LookHasBatch` of what the jobs share. `Delivered` relates how
  an end was delivered to the places that may still report it; `Published` says who may have marked a job whose
  announcement is not out yet. One lemma per step, and one that settles all other jobs.
* The cache. `OwnershipIsKept` needs nothing but the form of `owners`: eviction takes only records that
  are terminal. The order of the records (`CacheInv`) is left to TLC.
* The MCP servers. `RefreshesEndWhatTheyBegin` needs `ThreadsHaveConfigs` (a thread connects with a definition
  that is enabled, so never with none) and `ConnectsTheCurrent` (a report is connecting for another definition
  only until the upsert schedules its own). `AppliedMeansCurrent` speaks of a quiet moment only; what is
  inductive is `ViewsMatch`: what an applier has read, or the worker was sent, at the revision there is now
  matches the definition, selection and tools of now, unless something that will raise the revision is under
  way (`MarkToCome`). `RevisionsInOrder` says that nothing is applied that was not sent, and that every revision
  anyone holds, the copy of a save included, is the Session's, an older one, or below `renewed`. A put-back
  that lowers the revision raises `renewed` over it, so `ViewsMatch` claims nothing until the numbers are new
  again; one that does not has the same revision and so, by `Fits`, the same selection. A mark makes every
  copy an old one (`MarkedKeepsRevisions`), and any other step either leaves what matched matching
  (`SameKeepsRevisions`) or is an applier's (`AppliersKeepRevisions`).
* The delivery of events. `NoEventIsMissing` needs `Numbered` (what waits in the receiver has consecutive
  numbers up to the newest, a baseline that of the event before it) and `GoesOn` (the first that waits follows
  what a socket that lost nothing has sent). `PageCatchesUp` speaks of a moment of rest; `TurnComes` says for every
  moment where the Host's turn is, if the page does not show it: with a thread about to publish it, or in the
  receiver where the socket will not skip it, and behind every baseline that could take the page back.
  `Versions` (no copy is newer than the Host's, but one that was undone, and one of its revision is it) makes
  the page keep what it has when an older one arrives. A Stop's copy replaces the turn like a baseline
  does: either what the Host has comes behind it or is still to be published, or `undone` is raised. A
  put-back raises it, too, and as long as the Host's revision is below it nothing is claimed of the turn. `QueueComes` is the same for the queue, as far as it was told, and `EndComes`
  says that the last projection is applied or with a thread: `LastIsNotRefused` is why `is_stale` does not
  refuse it, and refuses all that come after it. A send is treated once for all events (`Sends`, `PlacesKept`).
* The timers. `TimersInv` speaks of moments at which nothing is under way, and of what ended; the
  inductive `TimersIInv` says, in `Timers`, what holds in between:
  * `AllKnown`: only timers that were created are anywhere, so a timer that is created is new everywhere; and
    an unusable one is in Core and its topics only.
  * `FileFollows`: without a race or a failed save a change of the Host's timers is still to be persisted,
    is being written, or is in the file; `OneAtATime` says that one thread at a time has a copy of a kind.
  * `CoreFollows`, when nothing crossed: syncs and topics are never under way at once (`OneWay`), the last of
    each has what its sender has (`LastSyncIsHost`, `LastTopicIsCore`), and topics leave the user's timers as
    they are (`TopicsKeepTheUsers`). So the Host agrees with Core when both are through.
  * `EndedInv`, without accidents: a timer that one topic lacks is in no later one (`GoneForGood`), nor in one
    after the topic that is being merged (`GoneWithTheNext`). What is due or was delivered and is no longer
    with the Host is in no topic at all (`PastIsGone`); so no merge brings it back, and it is delivered
    once (`FiredOnce`).
* `HostCommandsProofs`. All five invariants of run `host`, for any number of connections, commands, scopes and
  lane objects. The proof looks at a connection as a row of places, `JobAt(c, 0)` executed, then the queue, then
  what is being accepted, and every step as one of few kinds (`StepsSorted`): `JobsComeFrom` says that a
  command after a step is the one at the same place before, or one place further when the worker took one
  from the queue, or has just been accepted. The inductive invariant has five parts beside the types:
  * `LanesInv`: the tickets out of a lane (`TicketsOut`: issued, not yet served, not cancelled) are exactly
    those of the commands in it, one each, and whoever is inside has the one that is served. Exclusion within
    a scope and `TurnIsHeld` are consequences; neither is inductive without the other half of it.
  * `ScopesInv`: a command that has not left its lane has the lane that the map has for its scope. A lane is
    reclaimed at `strong_count` 2 and an object reused at 0, so `ReclaimedIsUnused` and `UncountedIsUnused`
    count references: of two holders one is the map and one the command itself.
  * `BarrierInv`: whoever is past the barrier has it, as the writer or as a reader.
  * `EpochsInv`: what carries the current epoch was accepted in the MEM that is open, unless a switch is half
    done; a running handler has the current epoch, because a switch runs alone (`SwitchesAlone`).
  * `OnceInv`: at most one copy of a command accepted in this MEM is still to be handled, only if none was,
    and then the command has a record.
* `AgentTurnProofs`. The six invariants of run `agent` but `StopCanBeTaken`, for any modes, batches of any length
  and any limits. `IInv` adds to types what each of them lacks:
  * `InBudget`: before a request a round is still to be had (`<` where the property says `<=`), which a
    supplement heard in place of the round-limit question pays for with `overrides`.
  * `Bounded` relates the five fields of the compaction state to the number of forced compactions: a follow-up
    that is pending or a threshold that is crossed means one at most, an available follow-up or a
    verification that is due means none. `NoCompactionLoop` alone says nothing about which comes next.
  * `Earned`, `MemoFits` (also at a final answer, before the turn is idle) and `FinishFits` (a summary that
    is left in a running turn, and every wait for an approval, comes from a response that paused).
  * `Waits`: a batch that waits for an answer is `Orderly`: either its results so far are those of the calls
    before the due one, or it is a group whose shell commands before the due one were all decided on and
    whose members were all reached. From this `AnsweredOrderly` and `GroupFinishedOrderly` get that a
    complete batch reports every call, and `FirstInOrder` that the n-th result is then that of the n-th call.
    A group with a publish is left out, as in the property (section 4).
* `SessionWorkerProofs`. The four invariants of run `worker`, for any turns and supplements, any finite number
  of clients and any capacity of the tracker. Beside types and `Stages` (what a client, a command and the
  worker hold fits where they are: a Stop mark means an older generation, a worker that ends is being shut
  down), `IInv` has three parts, which lean on each other:
  * `Tracked`: the tracker remembers an acknowledged id until as many others as it holds were acknowledged
    after it, and what stands behind an id in `recent` was acknowledged after it. So an id that is pushed out
    has been followed by `Capacity` others (`AcceptOneKeeps`), which is `RerunOnlyAfterEviction` when it is
    acknowledged again.
  * `CarriedOnce`: an id is in one place at most, and only while it is pending. This holds during a shutdown,
    too, and for strayed supplements. It is what makes a drain accept an id once: `Accept` of a whole mailbox is
    a fold, and `AcceptKeeps` needs its ids distinct and pending.
  * `NothingIsLost`: until a shutdown a pending id is in a place, and every reservation is accounted for.

  The places are counted: `InCallChanges` and `InChannelChanges` say how the counts change, the lemmas on
  `Hits` how counting goes with `Append`, `Tail` and `\o`. Each action then moves ids from one
  place to the next, drops them in a shutdown (step `<1>5` of `CountedAfter`) or accepts them (`<1>9`).
  `EachStartHasItsEnd` and `QueuedWorkIsCut` need only types and stages.
* `HostSessionFacts`, `HostSessionProofs`. The five invariants of run `session`, for any messages, timers, turns,
  faults and Stops; `Types`, `KeepsSupplements` and `Grown` are in the first. `Types` holds beside the shapes what each thread
  must have at its step (`ThreadOK`). Each operation on the record has its effect stated once
  (`NewTurnEffect`, `ActivatedEffect`, ...), each way a thread goes on, too (`BeginEffect`, `SaveEffect`, ...), and
  each part of the invariant has one lemma per action.
  * `KeepsSupplements` is what `SupplementsAreKept` lacks: a closed mailbox is empty, an entry is saved only while
    it is open, and, as long as nobody's change was put back, no save that fails takes anything from what
    was handed back.
  * `Grown`: turns are numbered by how many were made and messages named by what was sent, in the record and
    in every copy a thread would put back; so a fresh turn or message is new everywhere.
  * `Led`, as long as nothing was undone or sent over another turn (`Steady`): `Token` says that the turn that is
    there is in exactly one place (a thread, the user's question, Core's queue, Core, the event that ends
    it). It is not inductive without three others. `Sending`: a message that is being sent leaves the queue
    when the bridge hears of its start, and that comes before any end. `Apart`: a message is in one place
    (the queue, Core's known ids, a thread, the question), or Core would take a submission for one it knows
    and the turn would hang. `Sound` of the record and `Fitting` of what a thread would put back: the copy has
    the same turn, or none when it is the new turn whose save failed.
  * `Handed`: while nothing failed, what was handed back waits for a turn that is there, for the command that
    the lane settles a turn for, or for a handler about to resubmit. The bridge hears of more only while a turn
    is there, which needs `Token`, so the proof goes through `Led`.
  * `Accounted`, while `Led` holds and no two threads have handled events out of their order (`Calm`), is what
    `NoTurnLeftOpen` lacks. `Tidy`: an open turn of the list is the one that is there or was left behind, in the
    record and in what a thread would put back. To keep it, a turn's end must find the turn active, and
    for that its start must have been heard and recognised: `Ready` says that the record knows Core's
    start by the ids it will carry, wherever it is on the way, and `Orderly` that the start precedes
    the turn's other events, that one thread (the elder) holds what was drained first, and that no event
    outlives the turn.
  * `HistoryStep`: what disturbed the session is remembered, so each of these can be assumed before a step
    that leaves it undisturbed.
* What is least in a set of naturals (`LeastNat`) comes from the library's well-founded relations, without
  induction over data. It and `RemoveAtProperties` are stated, with their short proofs, in each module that
  cites them.

Only model-checked: `RecordsAreKept` and `ManifestAccounts` of `RollingStore`, which flatten and
enumerate sets of segments; `CacheInv` of `CommandDedup`, whose loop over the order is a fold with a removal; all liveness
(`AcceptedRunsToCompletion`, `WorkerComesToRest`) and `StopCanBeTaken`, which is stated with `ENABLED`: the
prover reaches neither.

## 7. Not modelled

`PROJECT.json` lists every component with its reason. In short: parsing, rendering, model catalogues
and transport (text and I/O); declarations of tools; records read and written as a whole (roles,
groups, endpoints, Session store, chat library); diagnostics; the platform layer; the presentation side of
the interfaces; self-upgrade and the instance lock, which rest on files and leases of the operating
system. Of the components modelled in part, the table in `PROJECT.json` says what is missing: in
`HostSession` the creation and deletion of Sessions, settings and images; in `McpServers` several servers
and a MEM switch; in `Timers` the clock, names and the limit of timers; in `AgentTurn` the retries inside a model call; in `SessionWorker` rename, configuration
updates and the shell's variant that goes on with supplements after a final answer.

## 8. Plan

1. Proofs: the order of `CommandDedup`, the manifest of `RollingStore`.
2. An abstract worker that `SessionWorker` implements, and that `HostSession` uses in place of its own
   view of Core; "a dispatch ends" and "a pending turn ends" as liveness properties.
3. The shell's variant of the worker; the retry policy of a model call; self-upgrade; a MEM switch in
   `McpServers`.
