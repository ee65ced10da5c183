----------------------------- MODULE CommandLane -----------------------------
(***************************************************************************)
(* TicketCommandLane (applications/timem/src/server/command_lane.rs): the  *)
(* ticket lock that runs the accepted commands of one mutation scope one   *)
(* at a time, in the order of their acceptance.  Operators on the lane's   *)
(* state; each is one critical section of its mutex.                       *)
(***************************************************************************)
EXTENDS Naturals, FiniteSetsExt

LaneType == [next : Nat, serving : Nat, skipped : SUBSET Nat, active : BOOLEAN]

NewLane == [next |-> 0, serving |-> 0, skipped |-> {}, active |-> FALSE]

(* skip_cancelled_tickets: the first ticket from "serving" on that has not *)
(* been cancelled; every cancelled one is below "next".                    *)
SkipCancelled(lane) ==
    LET first == Min({t \in lane.serving .. lane.next : t \notin lane.skipped})
    IN  [lane EXCEPT !.serving = first, !.skipped = @ \ (lane.serving .. first)]

(* issue returns the old value of "next".                                  *)
Issue(lane) == [lane EXCEPT !.next = @ + 1]

CanEnter(lane, ticket) == lane.serving = ticket
Enter(lane) == [lane EXCEPT !.active = TRUE]

(* Mutant: a cancelled ticket moves the lane on, wherever it stands. *)
SkipByAdvancing(lane, ticket) == [lane EXCEPT !.serving = @ + 1]

Skip(lane, ticket) ==
    LET marked == [lane EXCEPT !.skipped = @ \cup {ticket}]
    IN  IF lane.active THEN marked ELSE SkipCancelled(marked)

(* Mutant: "active" is not reset. *)
AdvanceStillActive(lane) == SkipCancelled([lane EXCEPT !.serving = @ + 1])

(* advance_ticket_lane, when the guard is dropped.                         *)
Advance(lane) ==
    SkipCancelled([lane EXCEPT !.active = FALSE, !.serving = @ + 1])

IsIdle(lane) ==
    ~lane.active /\ lane.serving = lane.next /\ lane.skipped = {}
=============================================================================
