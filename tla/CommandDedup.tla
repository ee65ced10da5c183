---------------------------- MODULE CommandDedup ----------------------------
(***************************************************************************)
(* CommandDedupCache (server/command_dedup.rs): the bounded record of the  *)
(* command ids the Host has seen, which keeps one id from being executed   *)
(* twice.  A full cache evicts the oldest record whose command has ended;  *)
(* a MEM switch empties it, while commands accepted before are still       *)
(* queued and will be finished later (execute_browser_command).            *)
(***************************************************************************)
EXTENDS Naturals, FiniteSets, SequencesExt

CONSTANTS
    Ids,        \* command ids
    Capacity    \* COMMAND_DEDUP_CAPACITY

VARIABLES
    records,    \* the state of each recorded id
    order,      \* insertion_order
    owners,     \* the commands accepted and not finished: [id, late], late when
                \* the cache was cleared after their acceptance
    overdue     \* the ids of late commands that finished since the last clear

vars == <<records, order, owners, overdue>>

States == {"accepted", "committed", "rejected"}
Recorded == DOMAIN records

Init ==
    /\ records = [i \in {} |-> "accepted"]
    /\ order = <<>>
    /\ owners = {}
    /\ overdue = {}
-----------------------------------------------------------------------------
Without(f, S) == [i \in DOMAIN f \ S |-> f[i]]
With(f, i, v) == [j \in DOMAIN f \cup {i} |-> IF j = i THEN v ELSE f[j]]
InFlight(i) == records[i] = "accepted"

(* Mutant: the oldest records are evicted, in flight or not. *)
OldestFirst == DOMAIN order

(* The places in the order of records that may be evicted.                 *)
Evictable == {k \in DOMAIN order : ~InFlight(order[k])}

Surplus == Cardinality(Recorded) + 1 - Capacity

(* The first evictable places, as many as are needed.                      *)
Evicted ==
    {k \in Evictable : Cardinality({j \in Evictable : j <= k}) <= Surplus}

(* Mutant: the loop rotates the order and removes nothing from it. *)
OrderRotatedOnly ==
    IF order = <<>> \/ Surplus < 1 THEN order ELSE Append(Tail(order), Head(order))

(* The eviction loop pops the oldest id: one in flight goes to the back of *)
(* the order, any other is removed.  When all that is left is in flight it *)
(* stops, having moved one more to the back.                               *)
OrderAfterEviction ==
    LET last == IF Evicted = {} THEN 0 ELSE Max(Evicted)
        passed == SelectSeq(SubSeq(order, 1, last), InFlight)
        turned == SubSeq(order, last + 1, Len(order)) \o passed
    IN  IF Surplus <= Cardinality(Evicted) \/ turned = <<>>
        THEN turned
        ELSE Append(Tail(turned), Head(turned))

RecordsAfterEviction == Without(records, {order[k] : k \in Evicted})

(* The cache holds Capacity records even after the loop.                   *)
Refuses == Surplus > Cardinality(Evicted)

(* reserve of an id that is not recorded (a recorded one changes nothing). *)
Reserve(i) ==
    /\ i \notin Recorded
    /\ IF Refuses
       THEN /\ records' = RecordsAfterEviction
            /\ order' = OrderAfterEviction
            /\ UNCHANGED owners
       ELSE /\ records' = With(RecordsAfterEviction, i, "accepted")
            /\ order' = Append(OrderAfterEviction, i)
            /\ owners' = owners \cup {[id |-> i, late |-> FALSE]}
    /\ UNCHANGED overdue

(* finish_command_dedup with the outcome of the command.                   *)
Finish(o, outcome) ==
    /\ o \in owners
    /\ records' = With(records, o.id, outcome)
    /\ owners' = owners \ {o}
    /\ overdue' = IF o.late THEN overdue \cup {o.id} ELSE overdue
    /\ UNCHANGED order

(* unreserve_command_dedup: a command with a sensitive result has ended    *)
(* well; a late one cannot, its epoch is stale.                            *)
Unreserve(o) ==
    /\ o \in owners /\ ~o.late
    /\ records' = Without(records, {o.id})
    /\ order' = SelectSeq(order, LAMBDA j : j # o.id)
    /\ owners' = owners \ {o}
    /\ UNCHANGED overdue

(* switch_mem_space clears the cache.                                      *)
Clear ==
    /\ records' = [i \in {} |-> "accepted"]
    /\ order' = <<>>
    /\ owners' = {[o EXCEPT !.late = TRUE] : o \in owners}
    /\ overdue' = {}

Next ==
    \/ \E i \in Ids : Reserve(i)
    \/ \E o \in owners : Unreserve(o) \/ \E s \in States \ {"accepted"} : Finish(o, s)
    \/ Clear

Spec == Init /\ [][Next]_vars
-----------------------------------------------------------------------------
TypeOK ==
    /\ Recorded \subseteq Ids /\ \A i \in Recorded : records[i] \in States
    /\ order \in Seq(Ids)
    /\ owners \subseteq [id : Ids, late : BOOLEAN]
    /\ overdue \subseteq Ids

(* The order lists recorded ids, each once, and never more than fit: the   *)
(* eviction loop would otherwise drop a record twice or run without end.   *)
(* Only late commands leave records that the order does not list.          *)
OrderListsRecords ==
    /\ IsInjective(order) /\ Len(order) <= Capacity
    /\ Range(order) \subseteq Recorded /\ Recorded \subseteq Range(order) \cup overdue

(* "explicitly rejects when all slots are accepted; terminal records may   *)
(* be evicted": a reservation is not refused while a terminal record       *)
(* occupies a slot, unless late commands have taken up slots of their own. *)
RefusedOnlyWhenAllAccepted ==
    Refuses /\ overdue = {} => \A i \in Recorded : InFlight(i)

CacheInv == TypeOK /\ OrderListsRecords /\ RefusedOnlyWhenAllAccepted

(* "Accepted entries are never evicted while in flight": until a command   *)
(* ends its record says accepted, however many others come and go, so no   *)
(* second copy of it is taken in.  (A late copy of the same id overwrites  *)
(* the record when it is turned away.)                                     *)
OwnershipIsKept ==
    \A o \in owners :
        ~o.late /\ o.id \notin overdue => o.id \in Recorded /\ InFlight(o.id)
-----------------------------------------------------------------------------
(* The part of it that is inductive without the order.                     *)
OwnershipInv == owners \subseteq [id : Ids, late : BOOLEAN] /\ OwnershipIsKept
=============================================================================
