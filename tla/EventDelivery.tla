--------------------------- MODULE EventDelivery ---------------------------
(***************************************************************************)
(* How what the Host knows of a Session reaches a browser: the projections *)
(* of its turns, which two threads may take from the worker at once        *)
(* (handle_worker_event), the projection of its message queue, the ordered *)
(* broadcast (semantic_delivery.rs), the socket task                       *)
(* (websocket_delivery.rs), and the page (interfaces/web/src).             *)
(* A socket sends in order and the page reduces what arrives, so the two   *)
(* are one step here.  A handler that saves the Session keeps a copy of    *)
(* it, with the turn and the queue, and puts it back when the save fails;  *)
(* the handler of a Stop publishes its copy when the save succeeds.        *)
(***************************************************************************)
EXTENDS Naturals, Sequences

CONSTANTS
    Threads,        \* threads of the Host that handle events or commands
    Turns,          \* turns of the worker, numbered from 1 (their epochs)
    Capacity,       \* EVENT_CHANNEL_CAPACITY
    MaxCommands,    \* bound: changes of the queue, Stops, baselines for everybody
    MaxSockets      \* bound: connections of the page

VARIABLES
    taken,      \* how many projections of the worker have been taken from it
    turn,       \* TurnProjectionCache: [revision, of], of a projection
    queue,      \* the revision of the message queue
    thread,     \* what each thread has to do yet
    seq,        \* OrderedEventDelivery::sequence
    socket,     \* the socket task
    pipe,       \* its broadcast receiver: events not received yet
    lagged,     \* ... that has lost some
    shown,      \* what the page shows
    cursor,     \* eventCursorRef
    commands, sockets,
    told,       \* history: the queue's revision in the last event about it
    gap,        \* history: the page found an event missing
    undone      \* history: what was put back, or overwritten on the page by a Stop

vars == <<taken, turn, queue, thread, seq, socket, pipe, lagged, shown, cursor,
          commands, sockets, told, gap, undone>>
hostVars == <<taken, turn, queue, thread, told, undone>>
pageVars == <<shown, cursor, gap>>

(* The worker's projections, in its order: a turn is active, active with   *)
(* another activity, finished.                                             *)
Projections == 3 * Turns
Epoch(p) == (p + 2) \div 3
IsFinished(p) == p % 3 = 0

Nothing == [revision |-> 0, of |-> 0]
Idle == [pc |-> "idle", of |-> 0, turn |-> Nothing, queue |-> 0]
NotKnown == [turn |-> Nothing, queue |-> 0]
Closed == [pc |-> "closed", last |-> 0]

(* The revisions that were undone are below these; was the end undone?     *)
NothingUndone == [turn |-> 0, queue |-> 0, end |-> FALSE]

Init ==
    /\ taken = 0
    /\ turn = Nothing
    /\ queue = 0
    /\ thread = [t \in Threads |-> Idle]
    /\ seq = 0
    /\ socket = Closed
    /\ pipe = <<>> /\ lagged = FALSE
    /\ shown = NotKnown /\ cursor = 0
    /\ commands = 0 /\ sockets = 0
    /\ told = 0 /\ gap = FALSE /\ undone = NothingUndone
-----------------------------------------------------------------------------
(* The broadcast channel keeps the newest events for a receiver.           *)
Send(e) ==
    IF socket.pc = "closed" THEN UNCHANGED <<pipe, lagged>>
    ELSE /\ pipe' = Append(IF Len(pipe) = Capacity THEN Tail(pipe) ELSE pipe, e)
         /\ lagged' = (lagged \/ Len(pipe) = Capacity)

(* publish_with: a number and the broadcast under one lock.  The body is   *)
(* what is known from the event, of the turn or of the queue.              *)
Publish(what, body) ==
    /\ seq' = seq + 1
    /\ Send([kind |-> what, seq |-> seq + 1, body |-> body])

NewCommand == commands < MaxCommands /\ commands' = commands + 1

Baseline(s) == [kind |-> "hello", seq |-> s, body |-> [turn |-> turn, queue |-> queue]]

(* broadcast_baseline_with, after a MEM switch or the start-up restore:    *)
(* the snapshot is built while nothing can be published.                   *)
BroadcastBaseline ==
    /\ NewCommand
    /\ Send(Baseline(seq))
    /\ UNCHANGED <<hostVars, seq, socket, pageVars, sockets>>
-----------------------------------------------------------------------------
Becomes(t, v) == thread' = [thread EXCEPT ![t] = v]

TakeProjection(t) ==
    /\ thread[t].pc = "idle" /\ taken < Projections
    /\ taken' = taken + 1
    /\ Becomes(t, [Idle EXCEPT !.pc = "apply", !.of = taken + 1])
    /\ UNCHANGED <<turn, queue, seq, socket, pipe, lagged, pageVars, commands, sockets, told, undone>>

(* Mutant: only an older epoch is stale. *)
StaleByEpoch(p) == turn.of # 0 /\ Epoch(p) < Epoch(turn.of)

(* TurnProjectionCache::is_stale                                           *)
Stale(p) ==
    turn.of # 0 /\ (Epoch(p) < Epoch(turn.of) \/ (Epoch(p) = Epoch(turn.of) /\ IsFinished(turn.of)))

(* The projection is applied under the sessions lock; the end of a turn    *)
(* also changes the queue.                                                 *)
Apply(t) ==
    LET p == thread[t].of
        versioned == [revision |-> turn.revision + 1, of |-> p]
    IN
    /\ thread[t].pc = "apply"
    /\ IF turn.of = p \/ Stale(p)
       THEN Becomes(t, Idle) /\ UNCHANGED <<turn, queue>>
       ELSE /\ turn' = versioned
            /\ queue' = IF IsFinished(p) THEN queue + 1 ELSE queue
            /\ Becomes(t, [thread[t] EXCEPT !.pc = "publish turn", !.turn = versioned])
    /\ UNCHANGED <<taken, seq, socket, pipe, lagged, pageVars, commands, sockets, told, undone>>

(* It is published after the lock was released; the end of a turn is       *)
(* followed by the queue.                                                  *)
PublishTurn(t) ==
    /\ thread[t].pc = "publish turn"
    /\ Publish("turn", [NotKnown EXCEPT !.turn = thread[t].turn])
    /\ Becomes(t, IF IsFinished(thread[t].of) THEN [Idle EXCEPT !.pc = "read queue"] ELSE Idle)
    /\ UNCHANGED <<taken, turn, queue, socket, pageVars, commands, sockets, told, undone>>

(* A command changes the message queue, and saves the Session; ...         *)
Keeps(t, pc) == Becomes(t, [Idle EXCEPT !.pc = pc, !.turn = turn, !.queue = queue])

ChangeQueue(t) ==
    /\ thread[t].pc = "idle" /\ NewCommand
    /\ queue' = queue + 1
    /\ Keeps(t, "saves")
    /\ UNCHANGED <<taken, turn, seq, socket, pipe, lagged, pageVars, sockets, told, undone>>

(* ... or TurnCancel, which changes neither of the two, takes a copy of    *)
(* the Session.  (The start of a turn, and a supplement, are like a Stop   *)
(* that is not saved.)                                                     *)
Stop(t) ==
    /\ thread[t].pc = "idle" /\ NewCommand
    /\ Keeps(t, "stops")
    /\ UNCHANGED <<taken, turn, queue, seq, socket, pipe, lagged, pageVars, sockets, told, undone>>

Later(m, n) == IF m < n THEN n ELSE m

(* When the save fails the Session of before is put back, whatever has     *)
(* happened to its turn and its queue since.                               *)
PutBack(t) ==
    /\ thread[t].pc \in {"saves", "stops"}
    /\ turn' = thread[t].turn /\ queue' = thread[t].queue
    /\ undone' = [turn |-> IF turn' = turn THEN undone.turn ELSE Later(undone.turn, turn.revision + 1),
                  queue |-> IF queue' = queue THEN undone.queue ELSE Later(undone.queue, queue + 1),
                  end |-> undone.end \/ (turn.of = Projections /\ turn'.of # Projections)]
    /\ Becomes(t, Idle)
    /\ UNCHANGED <<taken, seq, socket, pipe, lagged, pageVars, commands, sockets, told>>

ToPublish == \E t \in Threads : thread[t].pc = "publish turn" /\ thread[t].turn = turn

(* TurnCancelling has the Session that was copied before the save.         *)
PublishStop(t) ==
    /\ thread[t].pc = "stops"
    /\ Publish("session", [turn |-> thread[t].turn, queue |-> thread[t].queue])
    /\ told' = thread[t].queue
    /\ undone' = IF thread[t].turn = turn \/ ToPublish THEN undone
                 ELSE [undone EXCEPT !.turn = Later(@, turn.revision + 1)]
    /\ Becomes(t, Idle)
    /\ UNCHANGED <<taken, turn, queue, socket, pageVars, commands, sockets>>

(* publish_message_queue, which follows a save that succeeds, reads the    *)
(* projection, and then publishes it.                                      *)
ReadQueue(t) ==
    /\ thread[t].pc \in {"saves", "read queue"}
    /\ Becomes(t, [Idle EXCEPT !.pc = "publish queue", !.queue = queue])
    /\ UNCHANGED <<taken, turn, queue, seq, socket, pipe, lagged, pageVars, commands, sockets, told, undone>>

PublishQueue(t) ==
    /\ thread[t].pc = "publish queue"
    /\ Publish("queue", [NotKnown EXCEPT !.queue = thread[t].queue])
    /\ told' = thread[t].queue
    /\ Becomes(t, Idle)
    /\ UNCHANGED <<taken, turn, queue, socket, pageVars, commands, sockets, undone>>
-----------------------------------------------------------------------------
(* websocket_session subscribes, reads the baseline, and sends a snapshot  *)
(* that is newer.                                                          *)
Subscribe ==
    /\ socket.pc = "closed" /\ sockets < MaxSockets
    /\ sockets' = sockets + 1
    /\ socket' = [Closed EXCEPT !.pc = "subscribed"]
    /\ pipe' = <<>> /\ lagged' = FALSE
    /\ UNCHANGED <<hostVars, seq, pageVars, commands>>

ReadBaseline ==
    /\ socket.pc = "subscribed"
    /\ socket' = [pc |-> "baseline", last |-> seq]
    /\ UNCHANGED <<hostVars, seq, pipe, lagged, pageVars, commands, sockets>>

(* The page takes a Hello for everything it knows.                         *)
Adopt(hello) ==
    /\ shown' = hello.body
    /\ cursor' = hello.seq
    /\ UNCHANGED gap

(* Mutant: the task subscribes when the snapshot was sent. *)
SubscribesLast == pipe' = <<>> /\ lagged' = FALSE

(* What was published since the task subscribed is still to be received.   *)
SubscribedFirst == UNCHANGED <<pipe, lagged>>

SendHello ==
    /\ socket.pc = "baseline"
    /\ Adopt(Baseline(socket.last))
    /\ socket' = [socket EXCEPT !.pc = "open"]
    /\ SubscribedFirst
    /\ UNCHANGED <<hostVars, seq, commands, sockets>>

(* applyTurnProjection accepts a higher revision only.                     *)
Newer(e) == e.kind = "turn" /\ e.body.turn.revision > shown.turn.revision

(* What the page shows after an event: the queue, and the Session of a     *)
(* Stop, are taken as they are, older or not.                              *)
ShownAfter(e) ==
    CASE Newer(e) -> [shown EXCEPT !.turn = e.body.turn]
      [] e.kind = "queue" -> [shown EXCEPT !.queue = e.body.queue]
      [] e.kind = "session" -> e.body
      [] OTHER -> shown

(* The page reduces the next event; a number left out makes it close the   *)
(* socket.                                                                 *)
Reduce(e) ==
    /\ gap' = (gap \/ e.seq > cursor + 1)
    /\ cursor' = e.seq
    /\ shown' = ShownAfter(e)

(* The event loop of the socket task.                                      *)
Receive ==
    /\ socket.pc = "open" /\ ~lagged /\ pipe # <<>>
    /\ LET e == Head(pipe)
           skipped == e.kind # "hello" /\ e.seq <= socket.last
       IN  /\ IF skipped THEN UNCHANGED pageVars
              ELSE IF e.kind = "hello" THEN Adopt(e) ELSE Reduce(e)
           /\ socket' = IF skipped THEN socket ELSE [socket EXCEPT !.last = e.seq]
    /\ pipe' = Tail(pipe)
    /\ UNCHANGED <<hostVars, seq, lagged, commands, sockets>>

(* A receiver that has lost events: a new baseline and snapshot; it goes   *)
(* on with the oldest event it still has.                                  *)
Lagged ==
    /\ socket.pc = "open" /\ lagged
    /\ lagged' = FALSE
    /\ socket' = [socket EXCEPT !.pc = "subscribed"]
    /\ UNCHANGED <<hostVars, seq, pipe, pageVars, commands, sockets>>

(* The connection ends; the page will know nothing that counts before the  *)
(* next Hello.                                                             *)
Disconnect ==
    /\ socket.pc # "closed"
    /\ socket' = Closed
    /\ pipe' = <<>> /\ lagged' = FALSE
    /\ shown' = NotKnown /\ cursor' = 0
    /\ UNCHANGED <<hostVars, seq, gap, commands, sockets>>

Next ==
    \/ \E t \in Threads :
          \/ TakeProjection(t) \/ Apply(t) \/ PublishTurn(t)
          \/ ChangeQueue(t) \/ ReadQueue(t) \/ PublishQueue(t)
          \/ Stop(t) \/ PublishStop(t) \/ PutBack(t)
    \/ BroadcastBaseline
    \/ Subscribe \/ ReadBaseline \/ SendHello \/ Receive \/ Lagged \/ Disconnect

Spec == Init /\ [][Next]_vars
-----------------------------------------------------------------------------
(* The page never finds an event missing, through reconnections, a         *)
(* receiver that lags and baselines broadcast to everybody: it would close *)
(* the socket, and a running Host would look like a broken one.            *)
NoEventIsMissing == ~gap

HostIsQuiet == \A t \in Threads : thread[t].pc = "idle"
PageIsCurrent == socket.pc = "open" /\ ~lagged /\ pipe = <<>>

(* Once all that happened has been handled and delivered the page shows    *)
(* the turn the Host has, and when the worker's last turn has ended both   *)
(* have it ended: although threads apply and publish the projections in    *)
(* any order, an end is neither lost nor undone by an older projection.    *)
(* It is otherwise when a save failed and the turn that was put back has   *)
(* no later revision than what was undone (the page would refuse it), or   *)
(* when the copy of a Stop was published after a newer turn and no other   *)
(* has followed: the page shows what it was before.  (main.tsx, 2376.)     *)
(* The page shows the queue the Host has, too, unless a save failed, or    *)
(* the last that was published of the queue was an older reading: the page *)
(* replaces the queue it shows without a look at the revision.             *)
PageCatchesUp ==
    HostIsQuiet /\ PageIsCurrent =>
        /\ turn.revision >= undone.turn => shown.turn = turn
        /\ taken = Projections /\ ~undone.end => turn.of = Projections
        /\ queue >= undone.queue /\ told = queue => shown.queue = queue
-----------------------------------------------------------------------------
(* The inductive invariant.                                                *)
TurnType == [revision : Nat, of : 0..Projections]
StateType == [turn : TurnType, queue : Nat]

EventType == [kind : {"turn", "queue", "session", "hello"}, seq : Nat, body : StateType]

ThreadType ==
    [pc : {"idle", "apply", "publish turn", "read queue", "publish queue", "saves", "stops"},
     of : 0..Projections, turn : TurnType, queue : Nat]

SocketType == [pc : {"closed", "subscribed", "baseline", "open"}, last : Nat]

TypeOK ==
    /\ taken \in 0..Projections /\ turn \in TurnType /\ queue \in Nat
    /\ thread \in [Threads -> ThreadType]
    /\ seq \in Nat /\ socket \in SocketType
    /\ pipe \in Seq(EventType) /\ lagged \in BOOLEAN
    /\ shown \in StateType /\ cursor \in Nat
    /\ commands \in Nat /\ sockets \in Nat
    /\ told \in Nat /\ gap \in BOOLEAN /\ undone \in [turn : Nat, queue : Nat, end : BOOLEAN]

IsHello(i) == pipe[i].kind = "hello"

(* What waits in the receiver is numbered without a hole up to the newest  *)
(* number; a baseline has the number of the event before it.               *)
Numbered ==
    /\ socket.pc = "closed" => pipe = <<>>
    /\ lagged => pipe # <<>>
    /\ pipe # <<>> => pipe[Len(pipe)].seq = seq
    /\ \A i \in DOMAIN pipe : pipe[i].seq <= seq
    /\ \A i, j \in DOMAIN pipe : i < j =>
          pipe[i].seq <= pipe[j].seq /\ (~IsHello(j) => pipe[i].seq < pipe[j].seq)
    /\ \A i, j \in DOMAIN pipe : j = i + 1 => pipe[j].seq <= pipe[i].seq + 1

(* A socket that has lost nothing can go on with what waits.               *)
GoesOn ==
    /\ socket.last <= seq
    /\ socket.pc = "open" => cursor = socket.last
    /\ socket.pc \in {"baseline", "open"} /\ ~lagged =>
          /\ pipe = <<>> => socket.last = seq
          /\ pipe # <<>> => IsHello(1) \/ pipe[1].seq <= socket.last + 1

(* No version of the turn is newer than the Host's, but one that was       *)
(* undone, and there is one for its revision, unless that was undone.      *)
HasCopy(t) == thread[t].pc \in {"saves", "stops"}
TurnStands == turn.revision >= undone.turn

Version(v) ==
    /\ v.revision <= turn.revision \/ v.revision < undone.turn
    /\ TurnStands /\ v.revision = turn.revision => v = turn

Versions ==
    /\ Version(Nothing) /\ Version(shown.turn)
    /\ \A t \in Threads : HasCopy(t) \/ thread[t].pc = "publish turn" => Version(thread[t].turn)
    /\ \A i \in DOMAIN pipe : pipe[i].kind # "queue" => Version(pipe[i].body.turn)

(* The turn the Host has is shown, or is still to be published, or waits.  *)
Carries(i) == pipe[i].kind # "queue" /\ pipe[i].body.turn = turn
Replaces(i) == pipe[i].kind \in {"session", "hello"}

TurnComes ==
    TurnStands =>
        /\ \A i \in DOMAIN pipe : Replaces(i) =>
              ToPublish \/ \E j \in DOMAIN pipe : j >= i /\ Carries(j)
        /\ socket.pc = "open" /\ ~lagged =>
              \/ shown.turn = turn \/ ToPublish
              \/ \E j \in DOMAIN pipe : Carries(j) /\ (IsHello(j) \/ pipe[j].seq > socket.last)

(* The last that was told of the queue is the last that waits of it; if it *)
(* is the queue there is, so is what a baseline, or the page, that nothing *)
(* follows has of it.                                                      *)
ToldOfQueue(i) == pipe[i].kind \in {"queue", "session"}
LastOfQueue(i) == \A j \in DOMAIN pipe : j > i => ~ToldOfQueue(j)

QueueNoted(n) == n <= queue \/ n < undone.queue
QueueStands == queue >= undone.queue /\ told = queue

QueueComes ==
    /\ QueueNoted(told)
    /\ \A t \in Threads : HasCopy(t) \/ thread[t].pc = "publish queue" => QueueNoted(thread[t].queue)
    /\ \A i \in DOMAIN pipe : LastOfQueue(i) =>
          /\ ToldOfQueue(i) => pipe[i].body.queue = told
          /\ IsHello(i) /\ QueueStands => pipe[i].body.queue = queue
    /\ /\ socket.pc = "open" /\ ~lagged
       /\ \A j \in DOMAIN pipe : ~IsHello(j) /\ (ToldOfQueue(j) => pipe[j].seq <= socket.last)
       /\ QueueStands
       => shown.queue = queue

(* The last projection was applied, or a thread is about to apply it.      *)
EndComes ==
    taken = Projections /\ ~undone.end =>
        turn.of = Projections
        \/ \E t \in Threads : thread[t].pc = "apply" /\ thread[t].of = Projections

DeliveryInv ==
    TypeOK /\ NoEventIsMissing /\ Numbered /\ GoesOn /\ Versions /\ TurnComes /\ QueueComes /\ EndComes
=============================================================================
