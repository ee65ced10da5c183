------------------------------- MODULE Outbox -------------------------------
(***************************************************************************)
(* What a Session promises about the messages its user queued, whatever    *)
(* the queue's order and whoever asks: at most one message is in flight to *)
(* Core; while it is, it can be neither withdrawn nor edited; it leaves    *)
(* the outbox only by being delivered or withdrawn, or when all of them    *)
(* are abandoned; a restart finds exactly the saved messages, none of them *)
(* in flight.                                                              *)
(***************************************************************************)
CONSTANTS Commands, Payloads, Nothing

VARIABLES
    pending,    \* set of messages, at most one per id
    flying,     \* the message handed to Core, or Nothing
    saved       \* the messages on disk

vars == <<pending, flying, saved>>

Message == [id : Commands, payload : Payloads]

Init == pending = {} /\ flying = Nothing /\ saved = {}

(* Any step may reach the disk, before or after what it does.              *)
Written == saved' \in {saved, pending, pending'}

Accept(m) ==
    /\ \A other \in pending : other.id # m.id
    /\ pending' = pending \cup {m}
    /\ Written
    /\ UNCHANGED flying

Withdraw(m) ==
    /\ m # flying
    /\ pending' = pending \ {m}
    /\ Written
    /\ UNCHANGED flying

Edit(m, n) ==
    /\ m # flying
    /\ m.id = n.id
    /\ pending' = (pending \ {m}) \cup {n}
    /\ Written
    /\ UNCHANGED flying

Launch(m) ==
    /\ flying = Nothing
    /\ flying' = m
    /\ Written
    /\ UNCHANGED pending

Return ==
    /\ flying # Nothing
    /\ flying' = Nothing
    /\ Written
    /\ UNCHANGED pending

Deliver ==
    /\ flying \in pending
    /\ pending' = pending \ {flying}
    /\ flying' = Nothing
    /\ Written

Abandon ==
    /\ pending' = {}
    /\ flying' = Nothing
    /\ Written

Save ==
    /\ Written
    /\ UNCHANGED <<pending, flying>>

Restart ==
    /\ pending' = saved
    /\ flying' = Nothing
    /\ UNCHANGED saved

Next ==
    \/ \E m \in Message : Accept(m)
    \/ \E m \in pending : Withdraw(m) \/ Launch(m)
    \/ \E m \in pending, n \in Message : Edit(m, n)
    \/ Return \/ Deliver \/ Abandon \/ Save \/ Restart

Spec == Init /\ [][Next]_vars
=============================================================================
