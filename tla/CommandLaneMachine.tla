------------------------- MODULE CommandLaneMachine -------------------------
(***************************************************************************)
(* One lane and the tickets it has issued.  A ticket waits; it is then     *)
(* cancelled (its command could not be queued), or served: its holder is   *)
(* inside until it drops the guard.                                        *)
(***************************************************************************)
EXTENDS CommandLane

CONSTANT Tickets    \* the ticket numbers considered, an initial part of Nat

ASSUME TicketsAssumption ==
    Tickets \subseteq Nat /\ \A t \in Tickets : \A n \in 0 .. t : n \in Tickets

VARIABLES
    lane,
    holder      \* where each ticket is

laneVars == <<lane, holder>>

Places == {"unissued", "waiting", "inside", "settled"}

LaneInit ==
    /\ lane = NewLane
    /\ holder = [t \in Tickets |-> "unissued"]

IssueTicket ==
    /\ lane.next \in Tickets
    /\ lane' = Issue(lane)
    /\ holder' = [holder EXCEPT ![lane.next] = "waiting"]

EnterLane(t) ==
    /\ holder[t] = "waiting"
    /\ CanEnter(lane, t)
    /\ lane' = Enter(lane)
    /\ holder' = [holder EXCEPT ![t] = "inside"]

CancelTicket(t) ==
    /\ holder[t] = "waiting"
    /\ lane' = Skip(lane, t)
    /\ holder' = [holder EXCEPT ![t] = "settled"]

LeaveLane(t) ==
    /\ holder[t] = "inside"
    /\ lane' = Advance(lane)
    /\ holder' = [holder EXCEPT ![t] = "settled"]

LaneNext ==
    \/ IssueTicket
    \/ \E t \in Tickets : EnterLane(t) \/ CancelTicket(t) \/ LeaveLane(t)

LaneSpec == LaneInit /\ [][LaneNext]_laneVars
-----------------------------------------------------------------------------
TypeOK ==
    /\ lane \in LaneType
    /\ holder \in [Tickets -> Places]

(* A command runs alone in its lane, and only when every command accepted  *)
(* before it has run or was refused: also when tickets are cancelled while *)
(* another one is being served.                                            *)
ServedInOrder ==
    \A t \in Tickets :
        holder[t] = "inside" => \A u \in Tickets : u < t => holder[u] = "settled"

(* A lane that is_idle calls idle, and that is therefore thrown away, has  *)
(* nobody left who could enter it.                                         *)
IdleIsEmpty ==
    IsIdle(lane) => \A t \in Tickets : holder[t] \in {"unissued", "settled"}

(* How the lane's fields relate to the tickets: which are out, served, or  *)
(* cancelled but not yet passed over.                                      *)
Accounts(l, h) ==
    /\ \A t \in Tickets : h[t] = "unissued" <=> l.next <= t
    /\ \A t \in Tickets : t < l.serving => h[t] = "settled"
    /\ \A t \in Tickets : l.serving <= t /\ h[t] = "settled" => t \in l.skipped
    /\ l.skipped \subseteq {t \in Tickets : l.serving <= t /\ h[t] = "settled"}
    /\ \A t \in Tickets : h[t] = "inside" => l.active /\ l.serving = t
    /\ l.active => l.serving \in Tickets /\ h[l.serving] = "inside"
    /\ l.serving <= l.next

TicketsAccounted == Accounts(lane, holder)

(* The types and the accounting together are inductive.                    *)
LaneInv == TypeOK /\ TicketsAccounted
=============================================================================
