------------------------- MODULE MessageQueueMachine -------------------------
(***************************************************************************)
(* The queue of one Session as its Host uses it: the commands of the       *)
(* Session's lane, the event thread that hears of Core's turns, the file   *)
(* the queue is saved to and restarts of the process.                      *)
(*                                                                         *)
(* A command changes the queue under the sessions lock, releases the lock  *)
(* and then saves; when the save fails it puts the Session it cloned       *)
(* before the change back.  The event thread runs in between.  Every other *)
(* handler changes the queue and then saves it, and ignores a failure.     *)
(* Two saves may also reach the disk in the wrong order: the later one is  *)
(* then as good as lost, which is why a save is "it may be written".       *)
(***************************************************************************)
EXTENDS MessageQueue

CONSTANTS
    NoMessage,      \* the outbox has nothing in flight
    MaxRevision     \* bound on the revision, so that the instance is finite

ASSUME MachineAssumption == NoMessage \notin [id : Commands, payload : Payloads] /\ MaxRevision \in Nat

VARIABLES
    queue,      \* Session.message_queue
    disk,       \* the projection in the Session's message-queue file
    command     \* the lane's command between its change and the end of its save

vars == <<queue, disk, command>>

(* "undo" is the clone of the Session; "left" (history) the revision at    *)
(* which the command left the queue.                                       *)
NoCommandRuns == [stage |-> "none", undo |-> NewQueue, left |-> 0]

Init ==
    /\ queue = NewQueue
    /\ disk = NewQueue
    /\ command = NoCommandRuns

Becomes(q) == q.revision <= MaxRevision /\ queue' = q

MayBeWritten == disk' \in {disk, queue'}

(* A command of the lane up to the release of the lock.                    *)
Command(stage, q) ==
    /\ command.stage = "none"
    /\ Becomes(q)
    /\ command' = [stage |-> stage, undo |-> queue, left |-> q.revision]
    /\ UNCHANGED disk

(* A handler that ignores the outcome of its save.                         *)
Handled(q) ==
    /\ Becomes(q)
    /\ MayBeWritten
    /\ UNCHANGED command

(* A TurnSubmit while a turn is active, or behind queued messages.         *)
Accept ==
    \E id \in Commands, p \in Payloads :
        CanEnqueue(queue, id) /\ Command("saves", Enqueue(queue, id, p))

Edit ==
    \E id \in Commands, p \in Payloads :
        CanEdit(queue, id) /\ Command("saves", UpdatePayload(queue, id, p))

Withdraw ==
    \E id \in Commands :
        CanEdit(queue, id) /\ Command("saves", RemoveItem(queue, id))

(* Send now during a turn: the message becomes a supplement of that turn.  *)
SendAsSupplement ==
    \E id \in Commands :
        CanEdit(queue, id) /\ Command("appends", RemoveItem(queue, id))

Rearrange ==
    /\ CanReorder(queue)
    /\ \E order \in Orders(queue) : Command("saves", Reorder(queue, order))

ToggleAutoSend ==
    \E enabled \in BOOLEAN : Command("saves", SetAutoSend(queue, enabled))

Saved ==
    /\ command.stage # "none"
    /\ disk' = queue
    /\ command' = NoCommandRuns
    /\ UNCHANGED queue

(* The save failed, or half of it did; the queue is saved once more.       *)
RollBack ==
    /\ command.stage = "saves"
    /\ queue' = command.undo
    /\ disk' \in {disk, queue, queue'}
    /\ command' = NoCommandRuns

(* The turn's record did not take the supplement; or it did and the queue  *)
(* could not be saved.                                                     *)
SupplementFails ==
    /\ command.stage = "appends"
    /\ queue' \in {command.undo, queue}
    /\ command' = NoCommandRuns
    /\ UNCHANGED disk

CompleteNormally == Handled(Grant(queue))

BlockContinuation ==
    \E reason \in BlockReasons : Handled(Block(queue, reason))

DispatchAutomatic ==
    /\ CanBeginAutomatic(queue)
    /\ Handled(BeginAutomatic(queue))

(* The user's send-now while no turn is active; or, on any thread, a head  *)
(* that was accepted while a Stop was being obeyed.                        *)
DispatchImmediate ==
    \E id \in Commands :
        /\ CanBeginImmediate(queue, id)
        /\ command.stage = "none" \/ id = queue.items[1].id
        /\ Handled(BeginImmediate(queue, id))

DispatchRejected ==
    \E id \in Commands :
        /\ CanReject(queue, id)
        /\ Handled(RejectDispatch(queue))

TurnStarted ==
    \E id \in Commands :
        /\ CanConfirm(queue, id)
        /\ Handled(ConfirmStarted(queue, id))

(* A confirmed MEM switch, with no command of the lane under way: what was *)
(* queued goes to the history as interrupted input.                        *)
Interrupted ==
    /\ command.stage = "none"
    /\ queue' = NewQueue
    /\ MayBeWritten
    /\ UNCHANGED command

Restart ==
    /\ queue' = Restore(disk)
    /\ MayBeWritten
    /\ command' = NoCommandRuns

Next ==
    \/ Accept \/ Edit \/ Withdraw \/ SendAsSupplement \/ Rearrange \/ ToggleAutoSend
    \/ Saved \/ RollBack \/ SupplementFails
    \/ CompleteNormally \/ BlockContinuation
    \/ DispatchAutomatic \/ DispatchImmediate \/ DispatchRejected \/ TurnStarted
    \/ Interrupted \/ Restart

Spec == Init /\ [][Next]_vars
-----------------------------------------------------------------------------
(* The fields range over the values the Rust types allow.                  *)
TypeOK ==
    /\ queue \in QueueType
    /\ disk \in QueueType
    /\ command \in [stage : {"none", "saves", "appends"}, undo : QueueType, left : Nat]

Distinct(q) ==
    \A i, j \in DOMAIN q.items :
        i # j => q.items[i].id # q.items[j].id /\ q.items[i].seq # q.items[j].seq

SeqsBelowNext(q) == \A i \in DOMAIN q.items : q.items[i].seq < q.nextSeq

WellFormed(q) ==
    /\ Len(q.items) <= Capacity
    /\ Distinct(q)
    /\ SeqsBelowNext(q)
    /\ q.dispatching \in Ids(q) \cup {NoCommand}

(* The identities of the queue in memory and of the one in the file.       *)
QueueIdentity == WellFormed(queue) /\ WellFormed(disk)

(* No two queued messages share a command id or an enqueue_seq, the queue  *)
(* never outgrows its capacity, and the command being dispatched is still  *)
(* queued: also after reorder and remove, after a failed save, and after a *)
(* restart that recomputes next_enqueue_seq from the surviving items.      *)
QueueInv == TypeOK /\ QueueIdentity

IInv == TypeOK /\ QueueIdentity /\ WellFormed(command.undo)

PutBack == RollBack \/ SupplementFails

(* Only reorder (and a restart from an older file, or a command put back)  *)
(* changes the order in which two queued messages stand, and a newly       *)
(* accepted one goes last: dispatch, rejection, removal and edits leave    *)
(* the FIFO order alone.                                                   *)
OrderIsTheUsers ==
    [][ Rearrange \/ Restart \/ PutBack \/
        \A i, j \in DOMAIN queue'.items :
            LET a == queue'.items[i].id  b == queue'.items[j].id IN
            i < j /\ b \in Ids(queue) =>
                a \in Ids(queue) /\ Position(queue, a) < Position(queue, b) ]_vars

(* Projections are published after the lock is released, by several        *)
(* threads: unless a command was put back, each change of the queue an     *)
(* interface can see carries a higher revision than the state before it,   *)
(* as long as the process and its MEM are the same.                        *)
Visible(q) == <<q.items, q.autoSend, q.continuation, q.dispatching>>
RevisionOrdersProjections ==
    [][ Interrupted \/ Restart \/ PutBack \/ Visible(queue') = Visible(queue)
        \/ queue'.revision > queue.revision ]_vars

(* What the Outbox sees of the queue.                                      *)
MessageOf(item) == [id |-> item.id, payload |-> item.payload]
MessagesOf(q) == {MessageOf(q.items[i]) : i \in DOMAIN q.items}
Flying == IF queue.dispatching = NoCommand
            THEN NoMessage ELSE MessageOf(ItemOf(queue, queue.dispatching))

O == INSTANCE Outbox WITH
        Nothing <- NoMessage, pending <- MessagesOf(queue),
        flying <- Flying, saved <- MessagesOf(disk)

(* Every step is the Outbox's, a command that is put back included, as     *)
(* long as nothing else changed the queue between its change and the       *)
(* failure of its save.                                                    *)
Overtaken == PutBack /\ queue.revision # command.left
ImplementsOutbox == O!Init /\ [][Overtaken \/ O!Next]_(O!vars)
=============================================================================
