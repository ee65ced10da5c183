----------------------------- MODULE HostSession -----------------------------
(***************************************************************************)
(* One Session of the Host (applications/timem/src/server.rs): its record  *)
(* under the "sessions" lock, the threads that read and write it, and the  *)
(* Core worker behind it.  Three threads share the record: the bridge that *)
(* handles worker events, the lane that executes the Session's commands,   *)
(* and a task of the Host's own (a timer that fires, a question that times *)
(* out).  Between two holds of the lock a thread saves, waits for Core or  *)
(* is preempted, so what it read may be stale when it goes on.  A command  *)
(* that finds Core's turn closed drains worker events too, and then there  *)
(* are two threads handling events of one worker.                          *)
(***************************************************************************)
EXTENDS Naturals, FiniteSets, Sequences, SequencesExt

CONSTANTS
  Commands,     \* ids of messages the user sends, each sent once
  Fires,        \* ids of timers that fire, each once
  NoCommand,    \* no command id
  MaxTurns,     \* bound: turns the Host makes
  MaxFaults,    \* bound: saves, contexts and submissions that fail
  MaxStops      \* bound: Stop commands

ASSUME HostAssumption ==
  /\ NoCommand \notin Commands \cup Fires /\ Commands \cap Fires = {}
  /\ {MaxTurns, MaxFaults, MaxStops} \subseteq Nat

VARIABLES
  session,   \* the record under the sessions lock
  core,      \* the worker: submissions, the turn it runs, the mailbox
  channel,   \* events of the worker nobody has drained
  hand,      \* events a thread has drained and not handled
  pc,        \* what a thread is about to do, with what it remembers
  hist       \* history: ids used, faults, and the facts the properties are about

vars == <<session, core, channel, hand, pc, hist>>

Turns == 1 .. MaxTurns
NoTurn == 0
Handlers == {"bridge", "lane"}
Threads == Handlers \cup {"task"}
Other(h) == IF h = "bridge" THEN "lane" ELSE "bridge"

NewSession(ask) ==
  [pending |-> NoTurn, active |-> NoTurn, cancelling |-> NoTurn,
   turns |-> [t \in Turns |-> "none"], entries |-> [t \in Turns |-> {}],
   unconsumed |-> {}, queue |-> <<>>, dispatching |-> NoTurn,
   next |-> "awaiting", asking |-> NoTurn, askedFor |-> {}, ask |-> ask]

Submission(turn, ids) == [turn |-> turn, ids |-> ids, cut |-> FALSE, stop |-> FALSE]
NoRun == Submission(NoTurn, {})

(* What a thread that is not saving would put back. *)
NoImage == NewSession(FALSE)

(* A thread: the step it is at, the command it executes, the turn and the  *)
(* commands it carries, whether it will ask about work instructions, the   *)
(* session it would put back and the one it left, and where it returns to. *)
Resting(back, cmd) ==
  [at |-> back, cmd |-> cmd, turn |-> NoTurn, ids |-> {}, asks |-> FALSE,
   image |-> NoImage, left |-> NoImage, back |-> back]

Init ==
  /\ \E ask \in BOOLEAN : session = NewSession(ask)
  /\ core = [queue |-> <<>>, run |-> NoRun, closing |-> "no", open |-> FALSE, mail |-> {}, known |-> {}]
  /\ channel = <<>> /\ hand = [h \in Handlers |-> <<>>]
  /\ pc = [p \in Threads |-> Resting("idle", NoCommand)]
  /\ hist = [made |-> 0, sent |-> {}, faults |-> 0, stops |-> 0,
             elder |-> "bridge", overtaken |-> FALSE, undone |-> FALSE, hurried |-> FALSE,
             stranded |-> {}, accepted |-> {}, reached |-> {},
             misplaced |-> {}, last |-> "none"]

-----------------------------------------------------------------------------
(* current_turn_id; session_has_active_turn wants it among the turns too,  *)
(* where a queued message's turn appears only when Core starts it.         *)
Current(s) == IF s.active # NoTurn THEN s.active ELSE s.pending
HasActive(s) == Current(s) # NoTurn /\ s.turns[Current(s)] # "none"
Quiet(s) == Current(s) = NoTurn /\ s.queue = <<>>

CanMake == hist.made < MaxTurns
Made(h) == [h EXCEPT !.made = @ + 1]
Fresh == hist.made + 1

MayFail == hist.faults < MaxFaults
Failed(h) == [h EXCEPT !.faults = @ + 1]

At(p, at) == pc[p].at = at
Become(p, r) == pc' = [pc EXCEPT ![p] = r]
Go(p, at) == Become(p, [pc[p] EXCEPT !.at = at])
Carry(p, at, turn, ids) == Become(p, [pc[p] EXCEPT !.at = at, !.turn = turn, !.ids = ids])
Begin(p, at, cmd) == Become(p, [Resting("idle", cmd) EXCEPT !.at = at, !.asks = session.ask])
End(p) == Become(p, Resting("idle", NoCommand))
(* A thread that handles events for its own command goes on with it.       *)
Return(p) ==
  LET back == pc[p].back
  IN  Become(p, Resting(back, IF back = "settle" THEN pc[p].cmd ELSE NoCommand))

(* To save, a thread leaves the session unlocked, with a copy of what it   *)
(* was before; a save that fails puts the copy back, and with it undoes    *)
(* what others did to the session in between.                              *)
Save(p, at, turn, ids) ==
  Become(p, [pc[p] EXCEPT !.at = at, !.turn = turn, !.ids = ids,
                          !.image = session, !.left = session'])
PutBack(p) ==
  /\ session' = pc[p].image
  /\ hist' = [Failed(hist) EXCEPT !.undone = @ \/ session # pc[p].left]

(* The turn is recorded and nobody will carry it to Core. *)
Strand(t) == hist' = [Failed(hist) EXCEPT !.stranded = @ \cup {t}]

(* A Supplement is saved with the mailbox locked. *)
MailboxFree == pc["lane"].at # "save_entry"

(* Core accepts the submission and opens the mailbox for it, or knows its  *)
(* command already and does nothing.  A submission of supplements handed   *)
(* back has no command id of its own.                                      *)
SubmitToCore(turn, ids, named) ==
  /\ MailboxFree
  /\ core' = IF named /\ ids \cap core.known # {} THEN core
             ELSE [core EXCEPT !.queue = Append(@, Submission(turn, IF named THEN ids ELSE {})),
                               !.open = TRUE, !.mail = IF core.open THEN @ ELSE {},
                               !.known = @ \cup ids]
  /\ hist' = [hist EXCEPT !.reached = @ \cup ids]

-----------------------------------------------------------------------------
(* The Session's message queue, as far as this module needs it: it sends   *)
(* its first message by itself once a turn has completed normally, or      *)
(* after a Stop when the message was written after it.                     *)

(* Mutant: a turn that is there does not hold the queue. *)
MayDispatchOver(s) ==
  /\ s.queue # <<>> /\ s.dispatching = NoTurn
  /\ Head(s.queue).afterStop \/ s.next = "granted"

MayDispatch(s) ==
  /\ Current(s) = NoTurn /\ s.queue # <<>> /\ s.dispatching = NoTurn
  /\ Head(s.queue).afterStop \/ s.next = "granted"

(* Where the message with one of these ids is in the queue.                *)
IsQueued(s, ids) == \E i \in DOMAIN s.queue : s.queue[i].id \in ids
Place(s, ids) == CHOOSE i \in DOMAIN s.queue : s.queue[i].id \in ids
Queued(s, ids) == s.queue[Place(s, ids)]
Unqueued(s, ids) == [s EXCEPT !.queue = RemoveAt(@, Place(s, ids))]

Dispatching(s, item) == [s EXCEPT !.dispatching = item.turn, !.pending = item.turn]

(* reject_queued_dispatch *)
DispatchRejected(s, t) ==
  [s EXCEPT !.pending = IF @ = t THEN NoTurn ELSE @,
            !.dispatching = IF @ = t THEN NoTurn ELSE @,
            !.next = IF s.dispatching = t THEN "granted" ELSE @]

(* dispatch_next_turn_intent_if_ready: the reservation is made under the   *)
(* lock, saved, and then carried to Core.                                  *)
DispatchNext(p) ==
  /\ At(p, "dispatch")
  /\ IF MayDispatch(session)
     THEN LET item == Head(session.queue)
          IN  /\ session' = [Dispatching(session, item) EXCEPT
                               !.next = IF item.afterStop THEN @ ELSE "awaiting"]
              /\ Carry(p, "send_queued", item.turn, {item.id})
     ELSE session' = session /\ Return(p)
  /\ UNCHANGED <<core, channel, hand, hist>>

SendQueued(p) ==
  /\ At(p, "send_queued")
  /\ \/ SubmitToCore(pc[p].turn, pc[p].ids, TRUE) /\ UNCHANGED session
     \/ /\ MayFail /\ hist' = Failed(hist)
        /\ session' = DispatchRejected(session, pc[p].turn)
        /\ core' = core
  /\ Return(p)
  /\ UNCHANGED <<channel, hand>>

-----------------------------------------------------------------------------
(* Starting a turn: TurnSubmit, a Supplement that finds no turn, a timer.  *)

(* TurnSubmit looks at the session and decides, in another hold of the     *)
(* lock than the one that starts the turn.                                 *)
Submit(c) ==
  /\ At("lane", "idle") /\ c \notin hist.sent /\ CanMake
  /\ hist' = [hist EXCEPT !.sent = @ \cup {c}]
  /\ Begin("lane", IF Quiet(session) THEN "start" ELSE "enqueue", c)
  /\ UNCHANGED <<session, core, channel, hand>>

(* fire_due_timers, deliver_timer_fire. *)
Fire(f) ==
  /\ At("task", "idle") /\ f \notin hist.sent /\ CanMake
  /\ hist' = [hist EXCEPT !.sent = @ \cup {f}]
  /\ Begin("task", IF Quiet(session) THEN "start" ELSE "enqueue", f)
  /\ UNCHANGED <<session, core, channel, hand>>

(* A timer whose turn was refused is queued if a turn is there now.        *)
Refused(p) ==
  IF p = "task" /\ Current(session') # NoTurn
  THEN Begin(p, "enqueue", pc[p].cmd)
  ELSE End(p)

(* The turn of a timer has no command id, unless it is queued. *)
Ids(p) == IF p = "task" THEN {} ELSE {pc[p].cmd}

(* A turn the Host makes is pending until Core starts it. *)
NewTurn(s, t, ids) ==
  [s EXCEPT !.pending = t, !.turns[t] = "pending", !.entries[t] = ids]

(* start_web_turn_with_selected_attachments_and_roles *)
Start(p) ==
  /\ At(p, "start")
  /\ IF Current(session) # NoTurn
     THEN session' = session /\ Refused(p) /\ hist' = hist
     ELSE /\ CanMake /\ hist' = Made(hist)
          /\ session' = NewTurn(session, Fresh, Ids(p))
          /\ Save(p, "save_turn", Fresh, Ids(p))
  /\ UNCHANGED <<core, channel, hand>>

TurnSaved(p) ==
  /\ At(p, "save_turn")
  /\ \/ /\ Go(p, IF pc[p].asks THEN "ask" ELSE "send")
        /\ UNCHANGED <<session, hist>>
     \/ MayFail /\ PutBack(p) /\ Refused(p)
  /\ UNCHANGED <<core, channel, hand>>

(* The user is asked whether work instructions may be loaded; the turn     *)
(* waits for the answer.                                                   *)
Ask(p) ==
  /\ At(p, "ask")
  /\ session' = [session EXCEPT !.asking = pc[p].turn, !.askedFor = pc[p].ids]
  /\ End(p)
  /\ UNCHANGED <<core, channel, hand, hist>>

(* Mutant: the turn is removed from the list and stays pending. *)
RolledBackShown(s, t) == [s EXCEPT !.turns[t] = "none"]

(* rollback_web_turn *)
RolledBack(s, t) ==
  [s EXCEPT !.turns[t] = "none",
            !.active = IF @ = t THEN NoTurn ELSE @,
            !.pending = IF @ = t THEN NoTurn ELSE @,
            !.cancelling = IF @ = t THEN NoTurn ELSE @]

Send(p) ==
  /\ At(p, "send")
  /\ \/ SubmitToCore(pc[p].turn, pc[p].ids, TRUE) /\ End(p) /\ UNCHANGED session
     \/ /\ MayFail /\ hist' = Failed(hist)
        /\ session' = RolledBack(session, pc[p].turn)
        /\ Refused(p) /\ UNCHANGED core
     \/ \* the context cannot be built: the error leaves the turn as it is
        /\ MayFail /\ Strand(pc[p].turn)
        /\ UNCHANGED <<session, core>> /\ Refused(p)
  /\ UNCHANGED <<channel, hand>>

(* resolve_work_instruction_decision, from a reply of the user (lane) or   *)
(* from the timeout (task).                                                *)
Resolve(p) ==
  /\ At(p, "idle") /\ p \in {"lane", "task"} /\ session.asking # NoTurn
  /\ session' = [session EXCEPT !.asking = NoTurn, !.askedFor = {}, !.ask = FALSE]
  /\ Carry(p, "resolve", session.asking, session.askedFor)
  /\ UNCHANGED <<core, channel, hand, hist>>

ResolveSend(p) ==
  /\ At(p, "resolve")
  /\ \/ /\ SubmitToCore(pc[p].turn, pc[p].ids, TRUE)
        /\ IF p = "lane" THEN Go(p, "note") ELSE End(p)
     \/ MayFail /\ Strand(pc[p].turn) /\ End(p) /\ UNCHANGED core
  /\ UNCHANGED <<session, channel, hand>>

(* TopicReply then notes the answer in the turn that is there, and saves.  *)
Note ==
  /\ At("lane", "note")
  /\ session' = session
  /\ IF HasActive(session) THEN Save("lane", "save_note", NoTurn, {}) ELSE End("lane")
  /\ UNCHANGED <<core, channel, hand, hist>>

NoteSaved ==
  /\ At("lane", "save_note")
  /\ \/ UNCHANGED <<session, hist>>
     \/ MayFail /\ PutBack("lane")
  /\ End("lane")
  /\ UNCHANGED <<core, channel, hand>>

(* enqueue_next_turn_intent *)
Enqueue(p) ==
  /\ At(p, "enqueue")
  /\ IF Quiet(session)
     THEN session' = session /\ End(p) /\ hist' = hist
     ELSE /\ CanMake /\ hist' = Made(hist)
          /\ session' = [session EXCEPT !.queue = Append(@,
               [id |-> pc[p].cmd, turn |-> Fresh,
                afterStop |-> session.cancelling # NoTurn /\ session.queue = <<>>])]
          /\ Save(p, "save_queue", Fresh, {})
  /\ UNCHANGED <<core, channel, hand>>

QueueSaved(p) ==
  /\ At(p, "save_queue")
  /\ \/ Go(p, "dispatch") /\ UNCHANGED <<session, hist>>
     \/ MayFail /\ PutBack(p) /\ End(p)
  /\ UNCHANGED <<core, channel, hand>>

-----------------------------------------------------------------------------
(* Supplements: try_append_turn_supplement, send_queued_message_now.        *)

(* The user adds to the turn that is there; without one it is a new turn.  *)
Supplement(c) ==
  /\ At("lane", "idle") /\ c \notin hist.sent /\ CanMake
  /\ hist' = [hist EXCEPT !.sent = @ \cup {c}]
  /\ Begin("lane", IF HasActive(session) THEN "append" ELSE "start", c)
  /\ UNCHANGED <<session, core, channel, hand>>

Recorded(s, ids) == [s EXCEPT !.entries[Current(s)] = @ \cup ids]

(* With the mailbox locked: the entry is added to the turn and saved.      *)
AppendEntry ==
  /\ At("lane", "append")
  /\ IF ~core.open
     THEN Become("lane", Resting("settle", pc["lane"].cmd)) /\ session' = session
     ELSE IF ~HasActive(session) THEN End("lane") /\ session' = session
     ELSE /\ session' = Recorded(session, {pc["lane"].cmd})
          /\ Save("lane", "save_entry", NoTurn, {pc["lane"].cmd})
  /\ UNCHANGED <<core, channel, hand, hist>>

EntrySaved ==
  /\ At("lane", "save_entry")
  /\ \/ /\ core' = [core EXCEPT !.mail = @ \cup pc["lane"].ids, !.known = @ \cup pc["lane"].ids]
        /\ hist' = [hist EXCEPT !.accepted = @ \cup pc["lane"].ids]
        /\ UNCHANGED session
     \/ MayFail /\ PutBack("lane") /\ UNCHANGED core
  /\ End("lane")
  /\ UNCHANGED <<channel, hand>>

(* settle_closed_primary_turn: Core has closed the turn, so the events     *)
(* that end it are on their way; handle them here, for at most a second.   *)
Settled ==
  /\ At("lane", "settle") /\ hand["lane"] = <<>>
  /\ \/ ~HasActive(session) /\ Begin("lane", "start", pc["lane"].cmd)
     \/ HasActive(session) /\ End("lane")
  /\ UNCHANGED <<session, core, channel, hand, hist>>

(* send_queued_message_now looks whether there is a turn and then acts.     *)
SendNow(item) ==
  /\ At("lane", "idle")
  /\ Carry("lane", IF HasActive(session) THEN "append_now" ELSE "now", NoTurn, {item.id})
  /\ UNCHANGED <<session, core, channel, hand, hist>>

(* Without a turn: whatever is pending or active by now is passed over. *)
DispatchNow ==
  /\ At("lane", "now")
  /\ IF session.dispatching # NoTurn \/ ~IsQueued(session, pc["lane"].ids)
     THEN End("lane") /\ UNCHANGED <<session, hist>>
     ELSE LET item == Queued(session, pc["lane"].ids)
          IN  /\ session' = Dispatching(session, item)
              /\ hist' = [hist EXCEPT !.hurried = @ \/ Current(session) # NoTurn]
              /\ Carry("lane", "save_now", item.turn, pc["lane"].ids)
  /\ UNCHANGED <<core, channel, hand>>

(* With a turn, and the mailbox open: the message becomes a supplement.    *)
SupplementNow ==
  /\ At("lane", "append_now")
  /\ IF \/ ~core.open \/ ~IsQueued(session, pc["lane"].ids) \/ ~HasActive(session)
        \/ session.dispatching = Queued(session, pc["lane"].ids).turn
     THEN End("lane") /\ UNCHANGED session
     ELSE /\ session' = Recorded(Unqueued(session, pc["lane"].ids), pc["lane"].ids)
          /\ Save("lane", "save_entry", NoTurn, pc["lane"].ids)
  /\ UNCHANGED <<core, channel, hand, hist>>

NowSaved ==
  /\ At("lane", "save_now")
  /\ \/ Go("lane", "send_queued") /\ UNCHANGED hist
     \/ MayFail /\ Strand(pc["lane"].turn) /\ End("lane")
  /\ UNCHANGED <<session, core, channel, hand>>

-----------------------------------------------------------------------------
(* TurnCancel: a turn that waits for the user's answer is abandoned at     *)
(* once, any other is marked as cancelled and left to Core.                *)

Abandoned(s) ==
  [s EXCEPT !.turns[s.pending] = "done", !.asking = NoTurn, !.askedFor = {},
            !.pending = NoTurn, !.active = NoTurn, !.cancelling = NoTurn]

Cancelled(s) == [s EXCEPT !.cancelling = Current(s), !.turns[Current(s)] = "done"]

Cancel ==
  /\ At("lane", "idle") /\ hist.stops < MaxStops
  /\ hist' = [hist EXCEPT !.stops = @ + 1,
                          !.last = IF session.asking # NoTurn THEN "stopped" ELSE @]
  /\ IF session.asking # NoTurn
     THEN /\ pc' = pc
          /\ session' = IF session.pending = NoTurn \/ session.turns[session.pending] = "none"
                         THEN session ELSE Abandoned(session)
     ELSE IF HasActive(session)
     THEN /\ session' = Cancelled(session)
          /\ Save("lane", "save_stop", Current(session), {})
     ELSE /\ session' = session
          /\ Carry("lane", "stop", Current(session), {})
  /\ UNCHANGED <<core, channel, hand>>

StopSaved ==
  /\ At("lane", "save_stop")
  /\ \/ Go("lane", "stop") /\ UNCHANGED <<session, hist>>
     \/ MayFail /\ PutBack("lane") /\ End("lane")
  /\ UNCHANGED <<core, channel, hand>>

(* cancel_session_turns: what Core has is cut. *)
StopCore ==
  /\ At("lane", "stop")
  /\ core' = [core EXCEPT !.queue = [i \in DOMAIN @ |-> [@[i] EXCEPT !.cut = TRUE]],
                          !.run.stop = core.run # NoRun]
  /\ End("lane")
  /\ UNCHANGED <<session, channel, hand, hist>>

-----------------------------------------------------------------------------
(* Core, as its handle and its events show it. *)

Event(kind, turn, ids, how) == [kind |-> kind, turn |-> turn, ids |-> ids, how |-> how]
Emit(events) == channel' = channel \o events

CoreStart ==
  /\ core.run = NoRun /\ core.queue # <<>>
  /\ LET sub == Head(core.queue) IN
     /\ core' = [core EXCEPT !.run = [sub EXCEPT !.stop = FALSE], !.queue = Tail(@),
                             !.closing = IF sub.cut THEN "cut" ELSE "no"]
     /\ Emit(<<Event("started", sub.turn, sub.ids, "none")>>)
  /\ UNCHANGED <<session, hand, pc, hist>>

CoreTake ==
  /\ MailboxFree /\ core.run # NoRun /\ core.closing = "no" /\ core.mail # {}
  /\ core' = [core EXCEPT !.mail = {}]
  /\ hist' = [hist EXCEPT !.reached = @ \cup core.mail]
  /\ UNCHANGED <<session, channel, hand, pc>>

(* The turn's projection is finished, the mailbox is closed and what is    *)
(* still in it is handed back.                                             *)
CoreClose(how) ==
  /\ MailboxFree /\ core.run # NoRun /\ core.closing = "no"
  /\ how = "stopped" => core.run.stop
  /\ core' = [core EXCEPT !.open = FALSE, !.mail = {}, !.closing = how]
  /\ Emit(<<Event("projected", core.run.turn, {}, how)>> \o
          (IF core.mail = {} THEN <<>> ELSE <<Event("unconsumed", core.run.turn, core.mail, how)>>))
  /\ UNCHANGED <<session, hand, pc, hist>>

CoreFinish ==
  /\ core.closing # "no"
  /\ core' = [core EXCEPT !.run = NoRun, !.closing = "no"]
  /\ Emit(<<Event("finished", core.run.turn, {}, core.closing)>>)
  /\ UNCHANGED <<session, hand, pc, hist>>

Outcomes == {"clean", "failed", "stopped"}

-----------------------------------------------------------------------------
(* Handling worker events: the bridge, and a lane that settles a turn.      *)

Handling(h) == At(h, IF h = "bridge" THEN "idle" ELSE "settle")

Drain(h) ==
  /\ Handling(h) /\ hand[h] = <<>> /\ channel # <<>>
  /\ h = "lane" => HasActive(session)
  /\ hand' = [hand EXCEPT ![h] = channel] /\ channel' = <<>>
  /\ hist' = [hist EXCEPT !.elder =
       IF \E g \in Handlers : hand[g] # <<>> THEN @ ELSE h]
  /\ UNCHANGED <<session, core, pc>>

(* The next event in hand.  A thread may handle it while another still     *)
(* holds events that were drained before.                                  *)
Handle(h, kind) ==
  /\ Handling(h) /\ hand[h] # <<>> /\ Head(hand[h]).kind = kind
  /\ hand' = [hand EXCEPT ![h] = Tail(@)]
  /\ hist' = [hist EXCEPT
       !.misplaced = IF kind = "finished" /\ session.active # Head(hand[h]).turn
                     THEN @ \cup {Head(hand[h]).turn} ELSE @,
       !.last = IF kind = "finished" THEN Head(hand[h]).how ELSE @,
       !.overtaken = @ \/ (hand[Other(h)] # <<>> /\ hist.elder = Other(h)),
       !.elder = IF Tail(hand[h]) = <<>> /\ hand[Other(h)] # <<>> THEN Other(h) ELSE @]
  /\ UNCHANGED <<core, channel>>

(* activate_core_started_turn: a queued message wants to be the one being  *)
(* dispatched; any other command wants to be in the pending turn, and that *)
(* turn not to be over unless it is being cancelled.                       *)
StartedTurn(s, ids) ==
  IF ids = {} THEN Current([s EXCEPT !.active = s.pending, !.pending = s.active])
  ELSE IF IsQueued(s, ids)
  THEN IF s.dispatching = Queued(s, ids).turn THEN s.dispatching ELSE NoTurn
  ELSE IF /\ s.pending # NoTurn /\ ids \subseteq s.entries[s.pending]
          /\ s.cancelling = s.pending \/ s.turns[s.pending] # "done"
  THEN s.pending ELSE NoTurn

Materialized(s, ids) ==
  LET t == Queued(s, ids).turn
  IN  [Unqueued(s, ids) EXCEPT !.dispatching = NoTurn,
         !.turns[t] = "pending", !.entries[t] = ids]

Activated(s, ids) ==
  LET t == StartedTurn(s, ids)
      m == IF IsQueued(s, ids) THEN Materialized(s, ids) ELSE s
  IN  IF t = NoTurn THEN s
      ELSE IF m.turns[t] = "none" THEN s
      ELSE [m EXCEPT !.pending = IF @ = t THEN NoTurn ELSE @, !.active = t,
                     !.turns[t] = IF @ = "done" THEN @ ELSE "working"]

HandleStarted(h) ==
  /\ Handle(h, "started")
  /\ session' = Activated(session, Head(hand[h]).ids)
  /\ UNCHANGED pc

HandleProjected(h) ==
  /\ Handle(h, "projected")
  /\ session' = [session EXCEPT !.next = IF Head(hand[h]).how = "clean" THEN "granted" ELSE "blocked"]
  /\ Go(h, "dispatch")

HandleUnconsumed(h) ==
  /\ Handle(h, "unconsumed")
  /\ session' = [session EXCEPT !.unconsumed = @ \cup Head(hand[h]).ids]
  /\ UNCHANGED pc

(* Mutant: a turn that is still pending in the list is not closed. *)
FinishedStarted(s) ==
  [s EXCEPT !.active = NoTurn, !.pending = NoTurn, !.cancelling = NoTurn]

(* Whatever turn is active is over, and whatever is pending is forgotten.  *)
Finished(s) ==
  [s EXCEPT !.active = NoTurn, !.pending = NoTurn, !.cancelling = NoTurn,
            !.turns = IF s.active = NoTurn THEN @ ELSE [@ EXCEPT ![s.active] = "done"]]

(* Mutant: only a turn that is not clean hands its supplements on. *)
ThenUnlessClean(how) == IF how = "clean" THEN "dispatch" ELSE "resubmit"

Then(how) == IF how = "clean" THEN "resubmit" ELSE "dispatch"

HandleFinished(h) ==
  /\ Handle(h, "finished")
  /\ session' = Finished(session)
  /\ Go(h, Then(Head(hand[h]).how))

-----------------------------------------------------------------------------
(* resubmit_unconsumed_supplements: they go before the queue.               *)

Resubmit(h) ==
  /\ At(h, "resubmit")
  /\ session' = [session EXCEPT !.unconsumed = {}]
  /\ Carry(h, IF session.unconsumed = {} THEN "dispatch" ELSE "handoff", NoTurn, session.unconsumed)
  /\ UNCHANGED <<core, channel, hand, hist>>

(* Mutant: a handoff that fails leaves nothing for the next one. *)
NotRetained(s, ids) == s

Retained(s, ids) == [s EXCEPT !.unconsumed = @ \cup ids]

(* submit_unconsumed_supplement_handoff *)
Handoff(h) ==
  /\ At(h, "handoff")
  /\ IF Current(session) # NoTurn
     THEN session' = Retained(session, pc[h].ids) /\ Return(h) /\ hist' = hist
     ELSE /\ CanMake /\ hist' = Made(hist)
          /\ session' = NewTurn(session, Fresh, pc[h].ids)
          /\ Save(h, "save_handoff", Fresh, pc[h].ids)
  /\ UNCHANGED <<core, channel, hand>>

HandoffFails(h) ==
  /\ session' = Retained(pc[h].image, pc[h].ids)
  /\ hist' = [Failed(hist) EXCEPT !.undone = @ \/ session # pc[h].left]
  /\ Return(h) /\ UNCHANGED core

HandoffSaved(h) ==
  /\ At(h, "save_handoff")
  /\ \/ Go(h, "send_handoff") /\ UNCHANGED <<session, core, hist>>
     \/ MayFail /\ HandoffFails(h)
  /\ UNCHANGED <<channel, hand>>

SendHandoff(h) ==
  /\ At(h, "send_handoff")
  /\ \/ SubmitToCore(pc[h].turn, pc[h].ids, FALSE) /\ Go(h, "dispatch") /\ UNCHANGED session
     \/ MayFail /\ HandoffFails(h)
     \/ \* the context cannot be built: the turn stays, its input is retained
        /\ MayFail /\ Strand(pc[h].turn) /\ Return(h) /\ UNCHANGED core
        /\ session' = Retained(session, pc[h].ids)
  /\ UNCHANGED <<channel, hand>>

-----------------------------------------------------------------------------
Next ==
  \/ \E c \in Commands : Submit(c) \/ Supplement(c)
  \/ \E p \in Threads :
       DispatchNext(p) \/ SendQueued(p) \/ Start(p) \/ TurnSaved(p) \/ Ask(p) \/ Send(p)
       \/ Resolve(p) \/ ResolveSend(p) \/ Enqueue(p) \/ QueueSaved(p)
  \/ \E f \in Fires : Fire(f)
  \/ Note \/ NoteSaved \/ AppendEntry \/ EntrySaved \/ Settled
  \/ \E item \in ToSet(session.queue) : SendNow(item)
  \/ DispatchNow \/ NowSaved \/ SupplementNow
  \/ Cancel \/ StopSaved \/ StopCore
  \/ CoreStart \/ CoreTake \/ CoreFinish \/ \E how \in Outcomes : CoreClose(how)
  \/ \E h \in Handlers :
       Drain(h) \/ HandleStarted(h) \/ HandleProjected(h) \/ HandleUnconsumed(h)
       \/ HandleFinished(h) \/ Resubmit(h) \/ Handoff(h) \/ HandoffSaved(h) \/ SendHandoff(h)

Spec == Init /\ [][Next]_vars

-----------------------------------------------------------------------------
Names == Commands \cup Fires
MaybeTurn == Turns \cup {NoTurn}

SessionType ==
  [pending : MaybeTurn, active : MaybeTurn, cancelling : MaybeTurn,
   turns : [Turns -> {"none", "pending", "working", "done"}], entries : [Turns -> SUBSET Names],
   unconsumed : SUBSET Names, queue : Seq([id : Names, turn : Turns, afterStop : BOOLEAN]),
   dispatching : MaybeTurn, next : {"awaiting", "granted", "blocked"},
   asking : MaybeTurn, askedFor : SUBSET Names, ask : BOOLEAN]

SubmissionType == [turn : MaybeTurn, ids : SUBSET Names, cut : BOOLEAN, stop : BOOLEAN]

(* The records have their shapes, and a message reserved for sending is    *)
(* still in the queue.                                                     *)
TypeOK ==
  /\ session \in SessionType
  /\ session.dispatching # NoTurn =>
       \E i \in DOMAIN session.queue : session.queue[i].turn = session.dispatching
  /\ core \in [queue : Seq(SubmissionType), run : SubmissionType, open : BOOLEAN,
               closing : {"no", "cut"} \cup Outcomes, mail : SUBSET Names, known : SUBSET Names]

Underway == (UNION {ToSet(hand[h]) : h \in Handlers}) \cup ToSet(channel)

(* The steps at which a thread has a turn to bring to Core.                *)
Carries(p) ==
  pc[p].at \in {"save_turn", "ask", "send", "resolve", "save_handoff", "send_handoff",
                "save_now", "send_queued"}

(* Somebody still has the turn to bring to its end. *)
Backed(t) ==
  \/ t \in {core.queue[i].turn : i \in DOMAIN core.queue} \cup {core.run.turn, session.asking}
  \/ \E e \in Underway : e.turn = t /\ e.kind = "finished"
  \/ \E p \in Threads : Carries(p) /\ pc[p].turn = t

(* What can come between a thread and the session it has seen: the save    *)
(* that puts back an older session ("undone"), a message sent now over a   *)
(* turn that began in between ("hurried"), and two threads that handle     *)
(* events out of their order ("overtaken").                                *)
Disturbed == hist.undone \/ hist.hurried

(* The turn the Session shows as current will end: Core has it, its end is *)
(* on the way, the user is asked about it, or a thread carries it.  Not so *)
(* after an error path that leaves the turn recorded.                      *)
ShownTurnIsBacked ==
  LET t == Current(session)
  IN  t = NoTurn \/ Disturbed \/ t \in hist.stranded \/ Backed(t)

(* A turn in the Session's list that is neither over nor current is shown  *)
(* as unfinished for ever.                                                 *)
NoTurnLeftOpen ==
  \A t \in Turns :
    session.turns[t] \in {"pending", "working"} =>
      t = Current(session) \/ Disturbed \/ hist.overtaken \/ t \in hist.stranded

HandsOff(h) == pc[h].at \in {"handoff", "save_handoff", "send_handoff"}

(* A supplement the user was told is accepted reaches Core's turn, or is   *)
(* kept for a turn to come, unless a save that failed has put back an      *)
(* older session.                                                          *)
SupplementsAreKept ==
  \A s \in hist.accepted :
    \/ s \in hist.reached \cup core.mail \cup session.unconsumed
    \/ \E e \in Underway : e.kind = "unconsumed" /\ s \in e.ids
    \/ \E h \in Handlers : HandsOff(h) /\ s \in pc[h].ids
    \/ hist.undone

AtRest ==
  /\ \A p \in Threads : At(p, "idle")
  /\ channel = <<>> /\ \A h \in Handlers : hand[h] = <<>>
  /\ core.run = NoRun /\ core.queue = <<>> /\ Current(session) = NoTurn

(* Supplements that a turn handed back start a turn of their own: they do  *)
(* not lie there after a turn has completed normally, whatever the order   *)
(* in which two threads handle the events.                                 *)
HandedBackStartsATurn ==
  (AtRest /\ hist.last = "clean" /\ hist.faults = 0 /\ ~hist.hurried) => session.unconsumed = {}

(* The outcome of a turn is recorded with that turn and no other. *)
OutcomesReachTheirTurn == hist.misplaced = {}

(* Core has one turn of the Session at a time. *)
OneTurnInCore ==
  Disturbed \/ Len(core.queue) + (IF core.run = NoRun THEN 0 ELSE 1) <= 1

SessionInv == TypeOK /\ OneTurnInCore
=============================================================================
