---------------------------- MODULE SessionWorker ----------------------------
(***************************************************************************)
(* One Core session worker (core/session/src/lib.rs): a thread that takes  *)
(* commands from a channel and runs them one at a time, and the handle     *)
(* through which other threads submit turns, add supplements to the turn   *)
(* in progress, Stop it and shut the worker down.  They share, besides the *)
(* channel, a supplement mailbox behind a lock, the command-id tracker     *)
(* behind another, and three atomics: the Stop flag, the Stop generation   *)
(* and the shutdown mark.  A step of this module is one access to that     *)
(* shared state, or several under one lock.                                *)
(*                                                                         *)
(* The turn itself (core/agent/src/session_runtime.rs) is modelled as far  *)
(* as it touches that state: where it takes the Stop flag, where it drains *)
(* the mailbox, and that it asks the model, runs tools, waits for an       *)
(* approval and ends.  Workers are those the Web Host spawns: a supplement *)
(* that misses the final answer is handed back, never answered in the same *)
(* turn.                                                                   *)
(***************************************************************************)
EXTENDS Naturals, FiniteSets, Sequences, SequencesExt, TLC

CONSTANTS
  Turns,       \* command ids of turns
  ToolGens,    \* those that run the tool generator instead of a plain turn
  Supplements, \* command ids of supplements
  Clients,     \* threads that hold the handle
  Capacity,    \* CORE_COMMAND_ID_CAPACITY
  MaxRounds,   \* bound: model requests in a turn
  MaxCalls,    \* bound: calls that submit a turn
  MaxStops     \* bound: Stops, counting the one a shutdown begins with

ASSUME WorkerAssumption ==
  /\ ToolGens \subseteq Turns
  /\ Turns \cap Supplements = {} /\ "nobody" \notin Turns \cup Supplements
  /\ IsFiniteSet(Clients)
  /\ {Capacity, MaxRounds, MaxCalls, MaxStops} \subseteq Nat

Nobody == "nobody"
Ids    == Turns \cup Supplements

VARIABLES
  tracker,  \* command_ids: ids reserved, and the last Capacity accepted
  chan,     \* the command channel
  mailbox,  \* supplement_mailbox: ids, and whether a compaction request is among them
  flag,     \* cancel_requested
  stops,    \* cancel_generation
  closing,  \* shutdown_requested
  compact,  \* manual_compact_requested
  client,   \* what each client is in the middle of
  worker,   \* where the worker thread is, and on which command
  told,     \* what the events of the worker have told the Host so far
  taken,    \* history: reservations of each id that were not rolled back
  strayed,  \* history: ids of a batch that were put into a closed mailbox
  calls     \* bound: turn submissions so far

shared == <<tracker, chan, mailbox, flag, stops, closing, compact>>
ghosts == <<taken, strayed, calls>>
vars   == <<shared, client, worker, told, ghosts>>

(* A command also carries two histories: whether a Stop came while it was  *)
(* in the channel (cut), or at any time between its sending and the start  *)
(* of its turn (early).                                                    *)
Command(i, b, g) == [id |-> i, batch |-> b, gen |-> g, cut |-> FALSE, early |-> FALSE]

MarkCut(s)   == [k \in DOMAIN s |-> [s[k] EXCEPT !.cut = TRUE]]
MarkEarly(s) == [k \in DOMAIN s |-> [s[k] EXCEPT !.early = TRUE]]

IdleClient == [pc |-> "idle", id |-> Nobody, batch |-> <<>>, gen |-> 0]
IdleWorker == [pc |-> "idle", id |-> Nobody, batch |-> <<>>, gen |-> 0,
               cut |-> FALSE, early |-> FALSE, rounds |-> 0, end |-> "none"]

(* The mailbox: closing and opening drop what is in it, but one that is    *)
(* open stays as it is.                                                    *)
Closed == [open |-> FALSE, queue |-> <<>>, marker |-> FALSE]

Emptied(m) == [open |-> m.open, queue |-> <<>>, marker |-> FALSE]

(* Opening drops whatever the mailbox holds. *)
OpenedAfresh(m) == [open |-> TRUE, queue |-> <<>>, marker |-> FALSE]

Opened(m) == IF m.open THEN m ELSE [open |-> TRUE, queue |-> <<>>, marker |-> FALSE]

Received(m) == [pc |-> "received", id |-> m.id, batch |-> m.batch, gen |-> m.gen,
                cut |-> m.cut, early |-> m.early, rounds |-> 0, end |-> "none"]

Init ==
  /\ tracker = [pending |-> {}, recent |-> <<>>]
  /\ chan = <<>>
  /\ mailbox = Closed
  /\ flag = FALSE /\ stops = 0 /\ closing = FALSE /\ compact = FALSE
  /\ client = [c \in Clients |-> IdleClient]
  /\ worker = IdleWorker
  /\ told = [acked |-> <<>>, started |-> [t \in Turns |-> 0], ended |-> [t \in Turns |-> 0]]
  /\ taken = [i \in Ids |-> 0] /\ strayed = {} /\ calls = 0

-----------------------------------------------------------------------------
(* The command-id tracker. *)

(* Only the ids in flight are remembered, not those just accepted. *)
RemembersPending(t, i) == i \in t.pending

Remembers(t, i) == i \in t.pending \/ i \in ToSet(t.recent)

HasRoom(t, ids) == Cardinality(t.pending) + Cardinality(ids) <= Capacity

(* accept, for each id of a sequence: the newest push out the oldest. *)
AcceptOne(t, i) ==
  LET r == IF i \in ToSet(t.recent) THEN t.recent ELSE Append(t.recent, i)
  IN  [pending |-> t.pending \ {i},
       recent  |-> IF Len(r) > Capacity THEN Tail(r) ELSE r]

Accept(t, ids) ==
  LET after[n \in 0 .. Len(ids)] ==
        IF n = 0 THEN t ELSE AcceptOne(after[n - 1], ids[n])
  IN  after[Len(ids)]

(* CommandAccepted, TurnStarted and TurnFinished *)
TellAcked(n, ids)  == [n EXCEPT !.acked = @ \o ids]
TellStarted(n, t)  == [n EXCEPT !.started[t] = @ + 1]
TellEnded(n, t)    == [n EXCEPT !.ended[t] = @ + 1]

-----------------------------------------------------------------------------
(* The handle: run_turn_batch_with_supplements_kind, run_toolgen.           *)

InUse(i) == \E c \in Clients : client[c].id = i

(* The ids of the batch are checked and reserved together.  The Host does  *)
(* not retry a command while its first call is still running.              *)
Reserve(c, t, b) ==
  /\ client[c].pc = "idle" /\ ~InUse(t) /\ ~closing
  /\ calls < MaxCalls /\ calls' = calls + 1
  /\ t \in ToolGens => b = <<>>
  /\ LET ids == {t} \cup ToSet(b)
     IN  /\ \A i \in ids : ~Remembers(tracker, i)
         /\ HasRoom(tracker, ids)
         /\ tracker' = [tracker EXCEPT !.pending = @ \cup ids]
         /\ taken' = [i \in Ids |-> taken[i] + (IF i \in ids THEN 1 ELSE 0)]
  /\ client' = [client EXCEPT ![c] = [pc |-> "stamp", id |-> t, batch |-> b, gen |-> 0]]
  /\ UNCHANGED <<chan, mailbox, flag, stops, closing, compact, worker, told, strayed>>

(* The Stop generation the command is stamped with. *)
Stamp(c) ==
  /\ client[c].pc = "stamp"
  /\ client' = [client EXCEPT ![c] = [@ EXCEPT !.pc = "open", !.gen = stops]]
  /\ UNCHANGED <<shared, worker, told, ghosts>>

OpenMailbox(c) ==
  /\ client[c].pc = "open"
  /\ mailbox' = Opened(mailbox)
  /\ client' = [client EXCEPT ![c].pc = "send"]
  /\ UNCHANGED <<tracker, chan, flag, stops, closing, compact, worker, told, ghosts>>

Send(c) ==
  /\ client[c].pc = "send" /\ worker.pc # "stopped"
  /\ chan' = Append(chan, Command(client[c].id, client[c].batch, client[c].gen))
  /\ client' = [client EXCEPT ![c] = IdleClient]
  /\ UNCHANGED <<tracker, mailbox, flag, stops, closing, compact, worker, told, ghosts>>

(* The worker is gone: the mailbox is closed and the ids are given back.    *)
SendFails(c) ==
  /\ client[c].pc = "send" /\ worker.pc = "stopped"
  /\ mailbox' = Closed
  /\ LET ids == {client[c].id} \cup ToSet(client[c].batch)
     IN  /\ tracker' = [tracker EXCEPT !.pending = @ \ ids]
         /\ taken' = [i \in Ids |-> taken[i] - (IF i \in ids THEN 1 ELSE 0)]
  /\ client' = [client EXCEPT ![c] = IdleClient]
  /\ UNCHANGED <<chan, flag, stops, closing, compact, worker, told, strayed, calls>>

(* try_add_user_supplement_with_context_and_command_id_after: the Host's   *)
(* durable append runs with the mailbox locked; when it fails the id is    *)
(* given back and nothing has changed.                                     *)
Supplement(c, s) ==
  /\ client[c].pc = "idle" /\ mailbox.open
  /\ \A d \in Clients : s \notin ToSet(client[d].batch)
  /\ ~Remembers(tracker, s) /\ HasRoom(tracker, {s})
  /\ tracker' = [tracker EXCEPT !.pending = @ \cup {s}]
  /\ mailbox' = [mailbox EXCEPT !.queue = Append(@, s)]
  /\ taken' = [taken EXCEPT ![s] = @ + 1]
  /\ UNCHANGED <<chan, flag, stops, closing, compact, client, worker, told,
                 strayed, calls>>

(* queue_manual_context_compress, for a session that is busy.              *)
QueueCompact(c) ==
  /\ client[c].pc = "idle" /\ mailbox.open
  /\ mailbox' = [mailbox EXCEPT !.marker = TRUE]
  /\ UNCHANGED <<tracker, chan, flag, stops, closing, compact, client, worker,
                 told, ghosts>>

(* signal_turn_cancel: the generation, then the flag. *)
Stop(c) ==
  /\ client[c].pc = "idle" /\ stops < MaxStops
  /\ stops' = stops + 1
  /\ chan' = MarkCut(chan)
  /\ client' = [client EXCEPT ![c].pc = "flag"]
  /\ UNCHANGED <<tracker, mailbox, flag, closing, compact, worker, told, ghosts>>

NotStarted == worker.pc \in {"received", "check", "clear", "begin"}

StopFlag(c) ==
  /\ client[c].pc = "flag"
  /\ flag' = TRUE
  /\ chan' = MarkEarly(chan)
  /\ worker' = [worker EXCEPT !.early = @ \/ NotStarted]
  /\ client' = [client EXCEPT ![c].pc = "idle"]
  /\ UNCHANGED <<tracker, mailbox, stops, closing, compact, told, ghosts>>

(* request_shutdown: close the mailbox, mark, raise the flag, send.        *)
ShutdownStep(c, from, to) ==
  /\ client[c].pc = from
  /\ client' = [client EXCEPT ![c].pc = to]
  /\ UNCHANGED <<tracker, stops, compact, worker, told, ghosts>>

Shutdown(c) ==
  /\ ~closing /\ \A d \in Clients : client[d].pc \notin {"mark", "raise", "last"}
  /\ ShutdownStep(c, "idle", "mark")
  /\ mailbox' = Closed
  /\ UNCHANGED <<chan, flag, closing>>

ShutdownMark(c) ==
  /\ ShutdownStep(c, "mark", "raise")
  /\ closing' = TRUE
  /\ UNCHANGED <<chan, mailbox, flag>>

ShutdownFlag(c) ==
  /\ ShutdownStep(c, "raise", "last")
  /\ flag' = TRUE
  /\ UNCHANGED <<chan, mailbox, closing>>

ShutdownSend(c) ==
  /\ ShutdownStep(c, "last", "idle")
  /\ chan' = IF worker.pc = "stopped" THEN chan
             ELSE Append(chan, Command(Nobody, <<>>, 0))
  /\ UNCHANGED <<mailbox, flag, closing>>

-----------------------------------------------------------------------------
(* The worker thread.                                                       *)

WorkerStep(from, to) ==
  /\ worker.pc = from
  /\ worker' = [worker EXCEPT !.pc = to]
  /\ UNCHANGED <<client, ghosts>>

Receive ==
  /\ worker.pc = "idle" /\ chan # <<>>
  /\ worker' = Received(Head(chan))
  /\ chan' = Tail(chan)
  /\ UNCHANGED <<tracker, mailbox, flag, stops, closing, compact, client, told, ghosts>>

(* Shutdown itself, or any command once it was requested: the worker ends. *)
Quit ==
  /\ worker.pc = "received" /\ (worker.id = Nobody \/ closing)
  /\ worker' = [IdleWorker EXCEPT !.pc = "stopped"]
  /\ chan' = <<>>
  /\ UNCHANGED <<tracker, mailbox, flag, stops, closing, compact, client, told, ghosts>>

Take ==
  /\ worker.id # Nobody /\ ~closing
  /\ WorkerStep("received", "check")
  /\ UNCHANGED <<shared, told>>

(* Off by one: the turns of one Stop ago are let through. *)
IsOlder(gen, current) == gen + 1 < current

IsStale(gen, current) == gen < current

(* The cancelled turn is not announced: the Host cannot tell which one it  *)
(* is that ends.                                                           *)
CancelUnannounced ==
  /\ IsStale(worker.gen, stops)
  /\ WorkerStep("check", "cancelled")
  /\ LET ids == <<worker.id>> \o worker.batch
     IN  /\ tracker' = Accept(tracker, ids)
         /\ told' = TellAcked(told, ids)
  /\ UNCHANGED <<chan, mailbox, flag, stops, closing, compact>>

(* The command was stamped before a Stop: it starts and finishes without   *)
(* any work, so that the Host's pending turn ends.                         *)
CancelBeforeStart ==
  /\ IsStale(worker.gen, stops)
  /\ WorkerStep("check", "cancelled")
  /\ LET ids == <<worker.id>> \o worker.batch
     IN  /\ tracker' = Accept(tracker, ids)
         /\ told' = TellStarted(TellAcked(told, ids), worker.id)
  /\ UNCHANGED <<chan, mailbox, flag, stops, closing, compact>>

CancelledFinish ==
  /\ worker.pc = "cancelled"
  /\ worker' = IdleWorker
  /\ told' = TellEnded(told, worker.id)
  /\ UNCHANGED <<shared, client, ghosts>>

Proceed ==
  /\ ~IsStale(worker.gen, stops)
  /\ WorkerStep("check", "clear")
  /\ UNCHANGED <<shared, told>>

(* cancel_requested.store(false): a Stop that came since the check above   *)
(* is forgotten.                                                           *)
ClearStop ==
  /\ WorkerStep("clear", "begin")
  /\ flag' = FALSE
  /\ UNCHANGED <<tracker, chan, mailbox, stops, closing, compact, told>>

(* The rest of the batch is put into the mailbox, open or not.  Each       *)
(* supplement is acknowledged as it leaves the mailbox.                    *)
Begin ==
  /\ worker.pc = "begin"
  /\ worker' = [worker EXCEPT !.pc = "top"]
  /\ mailbox' = [mailbox EXCEPT !.queue = @ \o worker.batch]
  /\ strayed' = IF mailbox.open THEN strayed ELSE strayed \cup ToSet(worker.batch)
  /\ tracker' = AcceptOne(tracker, worker.id)
  /\ told' = TellStarted(TellAcked(told, <<worker.id>>), worker.id)
  /\ UNCHANGED <<chan, flag, stops, closing, compact, client, taken, calls>>

(* drain_user_supplements_with_context *)
Drain ==
  /\ tracker' = Accept(tracker, mailbox.queue)
  /\ mailbox' = Emptied(mailbox)
  /\ told' = TellAcked(told, mailbox.queue)
  /\ UNCHANGED <<chan, flag, stops, closing>>

EndTurn(how) ==
  /\ worker' = [worker EXCEPT !.pc = "close", !.end = how]
  /\ UNCHANGED <<client, ghosts>>

(* take_cancel_request, at the top of the turn loop and after the model.   *)
TakeStop ==
  /\ worker.pc \in {"top", "model"} /\ flag
  /\ flag' = FALSE
  /\ EndTurn("cancelled")
  /\ UNCHANGED <<tracker, chan, mailbox, stops, closing, compact, told>>

(* ToolGenRunner::run may fail before its turn begins; then nothing closes *)
(* the mailbox.                                                            *)
ToolGenFails ==
  /\ worker.pc = "top" /\ worker.id \in ToolGens /\ worker.rounds = 0
  /\ worker' = [worker EXCEPT !.pc = "finish", !.end = "answered"]
  /\ UNCHANGED <<shared, client, told, ghosts>>

LookAhead ==
  /\ ~flag
  /\ WorkerStep("top", "drain")
  /\ UNCHANGED <<shared, told>>

(* Text sends the turn back to the top; a marker is spent on the request.  *)
DrainBeforeRequest ==
  /\ mailbox.queue # <<>>
  /\ WorkerStep("drain", "top")
  /\ Drain
  /\ compact' = FALSE

(* The request is not counted against the limit of rounds. *)
AskUncounted ==
  /\ worker.pc = "drain" /\ mailbox.queue = <<>>
  /\ worker' = [worker EXCEPT !.pc = "model"]
  /\ mailbox' = Emptied(mailbox) /\ compact' = FALSE
  /\ UNCHANGED <<tracker, chan, flag, stops, closing, client, told, ghosts>>

AskModel ==
  /\ worker.pc = "drain" /\ mailbox.queue = <<>>
  /\ worker' = [worker EXCEPT !.pc = "model", !.rounds = @ + 1]
  /\ mailbox' = Emptied(mailbox) /\ compact' = FALSE
  /\ UNCHANGED <<tracker, chan, flag, stops, closing, client, told, ghosts>>

(* A final answer, or an error: the turn ends without another drain.       *)
Answer(how) ==
  /\ worker.pc = "model" /\ ~flag
  /\ EndTurn(how)
  /\ UNCHANGED <<shared, told>>

RunTools ==
  /\ ~flag /\ worker.rounds < MaxRounds
  /\ WorkerStep("model", "top")
  /\ Drain
  /\ compact' = (compact \/ mailbox.marker)

NeedApproval ==
  /\ ~flag /\ worker.rounds < MaxRounds
  /\ WorkerStep("model", "approval")
  /\ UNCHANGED <<shared, told>>

(* A Stop while an approval is open is spent on denying it; the turn goes  *)
(* on with the denial.                                                     *)
DenyByStop ==
  /\ flag
  /\ WorkerStep("approval", "top")
  /\ flag' = FALSE
  /\ UNCHANGED <<tracker, chan, mailbox, stops, closing, compact, told>>

Approve ==
  /\ ~flag
  /\ WorkerStep("approval", "top")
  /\ Drain
  /\ compact' = (compact \/ mailbox.marker)

(* close_supplements_for_host_handoff: what is left, and a compaction not  *)
(* yet begun, go back to the Host as UnconsumedSupplements.                *)
CloseForHandoff ==
  /\ WorkerStep("close", "finish")
  /\ tracker' = Accept(tracker, mailbox.queue)
  /\ told' = TellAcked(told, mailbox.queue)
  /\ mailbox' = Closed /\ compact' = FALSE
  /\ UNCHANGED <<chan, flag, stops, closing>>

Finish ==
  /\ worker.pc = "finish"
  /\ worker' = IdleWorker
  /\ told' = TellEnded(told, worker.id)
  /\ UNCHANGED <<shared, client, ghosts>>

-----------------------------------------------------------------------------
Submit(c) ==
  \/ \E t \in Turns, b \in {<<>>} \cup {<<s>> : s \in Supplements} : Reserve(c, t, b)
  \/ Stamp(c) \/ OpenMailbox(c) \/ Send(c) \/ SendFails(c)

Client(c) ==
  \/ Submit(c)
  \/ \E s \in Supplements : Supplement(c, s)
  \/ QueueCompact(c)
  \/ Stop(c) \/ StopFlag(c)
  \/ Shutdown(c) \/ ShutdownMark(c) \/ ShutdownFlag(c) \/ ShutdownSend(c)

Dequeue == Receive \/ Quit \/ Take \/ CancelBeforeStart \/ CancelledFinish
             \/ Proceed \/ ClearStop \/ Begin

TurnLoop == TakeStop \/ LookAhead \/ DrainBeforeRequest \/ AskModel \/ RunTools
              \/ NeedApproval \/ DenyByStop \/ Approve

Ending == ToolGenFails \/ (\E how \in {"answered", "failed"} : Answer(how))
            \/ CloseForHandoff \/ Finish

Worker == Dequeue \/ TurnLoop \/ Ending

Next == Worker \/ \E c \in Clients : Client(c)

(* The worker thread runs, the model call and the approval come to an end  *)
(* (the transport's inactivity limit; the user), and a call in progress on *)
(* the handle returns.  Nobody has to make a call.                         *)
Fairness ==
  /\ WF_vars(Worker)
  /\ \A c \in Clients : WF_vars(client[c].pc # "idle" /\ Client(c))

Spec == Init /\ [][Next]_vars /\ Fairness

-----------------------------------------------------------------------------
(* Properties *)

(* Type invariant of the worker, its handle and what they share. *)
TypeOK ==
  /\ tracker.pending \subseteq Ids /\ Cardinality(tracker.pending) <= Capacity
  /\ ToSet(tracker.recent) \subseteq Ids /\ Len(tracker.recent) <= Capacity
  /\ IsInjective(tracker.recent)
  /\ \A k \in DOMAIN chan : chan[k].id \in Turns \cup {Nobody} /\ chan[k].gen \in 0..stops
  /\ mailbox.open \in BOOLEAN /\ mailbox.marker \in BOOLEAN
  /\ ToSet(mailbox.queue) \subseteq Supplements
  /\ flag \in BOOLEAN /\ closing \in BOOLEAN /\ compact \in BOOLEAN
  /\ stops \in 0..MaxStops

ShuttingDown ==
  closing \/ \E c \in Clients : client[c].pc \in {"mark", "raise", "last"}

Occurs(seq, x) == Cardinality({k \in DOMAIN seq : seq[k] = x})

(* How many times an id is on its way: held by a client between reserving  *)
(* and sending, in the channel, in the worker's hand, or in the mailbox.   *)
Holds(x, i) == x.id = i \/ i \in ToSet(x.batch)

InCall(i)    == Cardinality({c \in Clients : Holds(client[c], i)})
InChannel(i) == Cardinality({k \in DOMAIN chan : Holds(chan[k], i)})
InHand(i)    == IF NotStarted /\ Holds(worker, i) THEN 1 ELSE 0
InMailbox(i) == Occurs(mailbox.queue, i)

Carried(i) == InCall(i) + InChannel(i) + InHand(i) + InMailbox(i)

(* Until a shutdown, every id a call reserved is on its way exactly once,  *)
(* or was acknowledged to the Host exactly once; and the tracker holds as  *)
(* pending exactly the ids that are on their way.  Nothing the Host was    *)
(* told is accepted can vanish or be delivered twice, and no id stays      *)
(* pending for ever, using up the tracker (lib.rs 471-520).  It is not so  *)
(* for a supplement of a batch that reaches the mailbox after an earlier   *)
(* turn has closed it: the next call that opens the mailbox drops it.      *)
EveryIdIsCarriedOrAcknowledged ==
  ~ShuttingDown =>
    \A i \in Ids \ strayed :
      /\ taken[i] = Carried(i) + Occurs(told.acked, i)
      /\ i \in tracker.pending <=> Carried(i) > 0

WorkerInv == TypeOK /\ EveryIdIsCarriedOrAcknowledged

(* A retried command runs again only if the tracker had the right to       *)
(* forget it: at least Capacity other commands were acknowledged between   *)
(* the two acknowledgements (lib.rs 494-505).                              *)
RerunOnlyAfterEviction ==
  \A j, k \in DOMAIN told.acked :
    (j < k /\ told.acked[j] = told.acked[k]) =>
      Cardinality({told.acked[m] : m \in (j + 1)..k}) > Capacity

(* A turn that was waiting in the channel when a Stop came never reaches   *)
(* the model, whatever races with the Stop (lib.rs 1865-1891).             *)
StopCutsTheQueue == worker.cut => worker.pc \notin {"model", "approval"}

(* A turn that was sent, but had not started, when a Stop was signalled    *)
(* does not go on to answer.  "work queued before Stop must not reach the  *)
(* model" (core/session/tests/unit/session_worker_tests.rs:3312).          *)
StopBeforeStartIsObeyed ==
  worker.early => ~(worker.end = "answered" /\ worker.rounds > 0)

(* The worker is on a turn that it has started. *)
IsOn(t) == worker.id = t /\ ~NotStarted

(* A turn that starts ends, once: the Host sees exactly one end for each   *)
(* start, except for the turn that the worker is on, and an acknowledgement*)
(* for each, whether the turn is answered, stopped while it runs or        *)
(* stopped before it starts (lib.rs 1865-1970).                            *)
StartsAndEndsPair ==
  \A t \in Turns :
    /\ told.started[t] = told.ended[t] + (IF IsOn(t) THEN 1 ELSE 0)
    /\ told.started[t] = Occurs(told.acked, t)

(* The worker comes back to an empty channel, so that every turn that was  *)
(* sent has ended or the worker has said that it stopped: "the pending     *)
(* turn cannot remain visually working until a UI timeout" (lib.rs:1879).  *)
AtRest == worker.pc \in {"idle", "stopped"} /\ chan = <<>>

WorkerComesToRest == <>[]AtRest

=============================================================================
