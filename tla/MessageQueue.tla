---------------------------- MODULE MessageQueue ----------------------------
(***************************************************************************)
(* SessionMessageQueue (core/session/src/message_queue.rs): the Session's  *)
(* FIFO of messages accepted for a future Core turn, as operators on a     *)
(* queue record.  Each mutating method is one operator; a companion Can-   *)
(* operator is the condition under which the method returns Ok (otherwise  *)
(* it returns an error, or None, and leaves the queue alone).              *)
(***************************************************************************)
EXTENDS SequencesExt

CONSTANTS
    Commands,    \* ids a message may be accepted under
    Payloads,    \* what a queued message may carry
    Capacity,    \* MAX_NEXT_TURN_INTENTS of the Host
    NoCommand,   \* "dispatching_command_id" is None
    BlockReasons \* MessageQueueBlockReason

ASSUME QueueAssumption == Capacity \in Nat /\ NoCommand \notin Commands

Item == [id : Commands, seq : Nat, payload : Payloads]

Continuations ==
    {"AwaitingNormalCompletion", "Granted"} \cup BlockReasons

QueueType ==
    [items : Seq(Item), nextSeq : Nat, revision : Nat, autoSend : BOOLEAN,
     continuation : Continuations, dispatching : Commands \cup {NoCommand}]

NewQueue ==
    [items |-> <<>>, nextSeq |-> 0, revision |-> 0, autoSend |-> TRUE,
     continuation |-> "AwaitingNormalCompletion", dispatching |-> NoCommand]

Ids(q) == {q.items[i].id : i \in DOMAIN q.items}
Position(q, id) == CHOOSE i \in DOMAIN q.items : q.items[i].id = id
ItemOf(q, id) == q.items[Position(q, id)]

(* Every successful mutation bumps the revision of the projection. *)
Bump(q) == [q EXCEPT !.revision = @ + 1]

(* Mutant: Vec::swap_remove instead of Vec::remove. *)
SwapRemoveItem(q, id) ==
    [q EXCEPT !.items = Front([@ EXCEPT ![Position(q, id)] = Last(q.items)])]

WithoutItem(q, id) == [q EXCEPT !.items = RemoveAt(@, Position(q, id))]

(* Mutant: the last item's seq taken for the largest.                      *)
SeqAfterLast(items) == IF items = <<>> THEN 0 ELSE Last(items).seq + 1

NextSeqAfter(items) ==
    IF items = <<>> THEN 0
                    ELSE Max({items[i].seq : i \in DOMAIN items}) + 1

(* load_message_queue + restore: what a restarted process makes of the     *)
(* projection it finds on disk.                                            *)
Restore(saved) ==
    [saved EXCEPT !.nextSeq = NextSeqAfter(saved.items),
                  !.dispatching = NoCommand,
                  !.continuation = "AwaitingNormalCompletion"]
-----------------------------------------------------------------------------
CanEnqueue(q, id) == id \notin Ids(q) /\ Len(q.items) < Capacity
Enqueue(q, id, p) ==
    Bump([q EXCEPT !.items = Append(@, [id |-> id, seq |-> q.nextSeq, payload |-> p]),
                   !.nextSeq = @ + 1])

(* Mutant: ensure_not_dispatching forgotten. *)
CanEditDispatching(q, id) == id \in Ids(q)

CanEdit(q, id) == id # q.dispatching /\ id \in Ids(q)
UpdatePayload(q, id, p) ==
    Bump([q EXCEPT !.items[Position(q, id)].payload = p])
RemoveItem(q, id) == Bump(WithoutItem(q, id))

(* reorder takes a list of ids: every queued one exactly once.             *)
Orders(q) == Bijection(DOMAIN q.items, Ids(q))
CanReorder(q) == q.dispatching = NoCommand
Reorder(q, order) ==
    Bump([q EXCEPT !.items = [i \in DOMAIN q.items |-> ItemOf(q, order[i])]])

SetAutoSend(q, enabled) ==
    IF q.autoSend = enabled THEN q ELSE Bump([q EXCEPT !.autoSend = enabled])

Grant(q) == Bump([q EXCEPT !.continuation = "Granted"])
(* Mutant: no new revision. *)
BlockQuietly(q, reason) == [q EXCEPT !.continuation = reason]

Block(q, reason) == Bump([q EXCEPT !.continuation = reason])

CanBeginAutomatic(q) ==
    /\ q.autoSend
    /\ q.dispatching = NoCommand
    /\ q.continuation = "Granted"
    /\ q.items # <<>>
BeginAutomatic(q) ==
    Bump([q EXCEPT !.dispatching = q.items[1].id,
                   !.continuation = "AwaitingNormalCompletion"])

CanBeginImmediate(q, id) == q.dispatching = NoCommand /\ id \in Ids(q)
BeginImmediate(q, id) == Bump([q EXCEPT !.dispatching = id])

CanReject(q, id) == q.dispatching = id
RejectDispatch(q) ==
    Bump([q EXCEPT !.dispatching = NoCommand, !.continuation = "Granted"])

CanConfirm(q, id) == q.dispatching = id /\ id \in Ids(q)
ConfirmStarted(q, id) == Bump([WithoutItem(q, id) EXCEPT !.dispatching = NoCommand])
=============================================================================
