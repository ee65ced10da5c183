-------------------------- MODULE HostPartsProofs --------------------------
(***************************************************************************)
(* The machines that MCHostParts runs: the ticket lane, the delivery of    *)
(* events and the timers.  The last two are instances, and what holds of   *)
(* one holds of the behaviours in which it runs.                           *)
(***************************************************************************)
EXTENDS MCHostParts, SequenceTheorems, FiniteSetTheorems, WellFoundedInduction, TLAPS

(* Every nonempty set of naturals has a least element. *)
LEMMA LeastNat ==
    ASSUME NEW K \in SUBSET Nat, K # {}
    PROVE  \E m \in K : \A n \in K : m <= n
<1> DEFINE R == OpToRel(<, Nat)
<1>1. R = {ss \in Nat \X Nat : ss[1] < ss[2]}
  BY Zenon DEF OpToRel
<1>2. IsWellFoundedOn(R, Nat)
  BY NatLessThanWellFounded, Zenon
<1> HIDE DEF R
<1>3. PICK m \in K : \A n \in K : <<n, m>> \notin R
  BY <1>2, WFMin, Zenon
<1>4. \A n \in K : ~(n < m)
  BY <1>1, <1>3
<1> QED BY <1>3, <1>4

(* The minimum of a nonempty set of naturals is its least element.         *)
LEMMA MinOfNats ==
    ASSUME NEW K \in SUBSET Nat, K # {}
    PROVE  Min(K) \in K /\ \A n \in K : Min(K) <= n
<1>1. \E m \in K : \A n \in K : m <= n
  BY LeastNat
<1> QED BY <1>1, Zenon DEF Min

(* A lane serves its tickets one at a time and in order, however many are  *)
(* issued and whichever are cancelled.                                     *)

(* Where skip_cancelled_tickets stops, and what it forgets.                *)
LEMMA SkipCancelledProperties ==
    ASSUME NEW l \in LaneType, l.serving <= l.next, \A t \in l.skipped : t < l.next,
           NEW r, r = SkipCancelled(l)
    PROVE  /\ r \in LaneType
           /\ r.next = l.next /\ r.active = l.active
           /\ l.serving <= r.serving /\ r.serving <= l.next
           /\ r.serving \notin l.skipped
           /\ \A t \in Nat : l.serving <= t /\ t < r.serving => t \in l.skipped
           /\ \A t : t \in r.skipped <=>
                  t \in l.skipped /\ ~(l.serving <= t /\ t <= r.serving)
<1> DEFINE open == {t \in l.serving .. l.next : t \notin l.skipped}
           first == Min(open)
<1>0. l.serving \in Nat /\ l.next \in Nat /\ l.skipped \subseteq Nat
  BY DEF LaneType
<1>1. l.next \in open /\ open \in SUBSET Nat
  BY <1>0
<1>2. first \in open /\ \A t \in open : first <= t
  BY <1>1, MinOfNats
<1>3. r = [l EXCEPT !.serving = first, !.skipped = @ \ (l.serving .. first)]
  BY DEF SkipCancelled
<1>4. first \in Nat /\ l.serving <= first /\ first <= l.next /\ first \notin l.skipped
  BY <1>0, <1>2
<1>5. \A t \in Nat : l.serving <= t /\ t < first => t \in l.skipped
  BY <1>0, <1>2, <1>4
<1> HIDE DEF open, first
<1>6. /\ r \in LaneType
      /\ r.next = l.next /\ r.active = l.active
      /\ r.serving = first
      /\ r.skipped = l.skipped \ (l.serving .. first)
  BY <1>0, <1>3, <1>4 DEF LaneType
<1>7. \A t : t \in r.skipped <=>
              t \in l.skipped /\ ~(l.serving <= t /\ t <= r.serving)
  BY <1>0, <1>4, <1>6
<1> QED BY <1>4, <1>5, <1>6, <1>7

LEMMA InitEstablishesLaneInv == LaneInit => LaneInv
BY TicketsAssumption
   DEF LaneInit, LaneInv, TypeOK, LaneType, NewLane, Places, TicketsAccounted, Accounts

LEMMA IssuePreservesLaneInv == LaneInv /\ IssueTicket => LaneInv'
<1> SUFFICES ASSUME LaneInv, IssueTicket
             PROVE  LaneInv'
  OBVIOUS
<1>1. /\ lane \in LaneType /\ lane.next \in Nat /\ lane.next + 1 \in Nat
      /\ holder \in [Tickets -> Places] /\ Tickets \subseteq Nat
      /\ TicketsAccounted
  BY TicketsAssumption DEF LaneInv, TypeOK, LaneType
<1>2. /\ lane' \in LaneType
      /\ lane'.next = lane.next + 1 /\ lane'.serving = lane.serving
      /\ lane'.skipped = lane.skipped /\ lane'.active = lane.active
  BY <1>1 DEF IssueTicket, Issue, LaneType
<1>3. /\ holder' \in [Tickets -> Places]
      /\ lane.next \in Tickets /\ holder[lane.next] = "unissued"
      /\ holder'[lane.next] = "waiting"
      /\ \A t \in Tickets : t # lane.next => holder'[t] = holder[t]
  BY <1>1 DEF IssueTicket, Places, TicketsAccounted, Accounts
<1>4. lane.serving \in Nat /\ lane.serving <= lane.next
  BY <1>1 DEF LaneType, TicketsAccounted, Accounts
<1>5. \A u \in Tickets : holder'[u] = "unissued" <=> lane'.next <= u
  BY <1>1, <1>2, <1>3 DEF TicketsAccounted, Accounts
<1>6. \A u \in Tickets : u < lane'.serving => holder'[u] = "settled"
  BY <1>1, <1>2, <1>3, <1>4 DEF TicketsAccounted, Accounts
<1>7. /\ \A u \in Tickets :
            lane'.serving <= u /\ holder'[u] = "settled" => u \in lane'.skipped
      /\ \A u \in Tickets :
            holder'[u] = "inside" => lane'.active /\ lane'.serving = u
  BY <1>1, <1>2, <1>3 DEF TicketsAccounted, Accounts
<1>8. lane'.skipped \subseteq
          {u \in Tickets : lane'.serving <= u /\ holder'[u] = "settled"}
  BY <1>1, <1>2, <1>3, ZenonT(60) DEF TicketsAccounted, Accounts
<1>9. lane'.active => lane'.serving \in Tickets /\ holder'[lane'.serving] = "inside"
  <2>1. lane.active => lane.serving # lane.next
    BY <1>1, <1>3 DEF TicketsAccounted, Accounts
  <2> QED BY <2>1, <1>1, <1>2, <1>3, ZenonT(60) DEF TicketsAccounted, Accounts
<1>10. lane'.serving <= lane'.next
  BY <1>1, <1>2, <1>4
<1>11. TicketsAccounted'
  BY <1>5, <1>6, <1>7, <1>8, <1>9, <1>10 DEF TicketsAccounted, Accounts
<1> QED BY <1>2, <1>3, <1>11 DEF LaneInv, TypeOK

LEMMA EnterPreservesLaneInv ==
    ASSUME NEW t \in Tickets, LaneInv, EnterLane(t)
    PROVE  LaneInv'
<1>1. /\ lane \in LaneType /\ holder \in [Tickets -> Places] /\ Tickets \subseteq Nat
      /\ TicketsAccounted
  BY TicketsAssumption DEF LaneInv, TypeOK
<1>2. /\ lane' \in LaneType
      /\ lane'.next = lane.next /\ lane'.serving = lane.serving
      /\ lane'.skipped = lane.skipped /\ lane'.active = TRUE
  BY <1>1 DEF EnterLane, Enter, LaneType
<1>3. /\ holder' \in [Tickets -> Places]
      /\ lane.serving = t /\ holder[t] = "waiting" /\ holder'[t] = "inside"
      /\ \A u \in Tickets : u # t => holder'[u] = holder[u]
  BY <1>1 DEF EnterLane, CanEnter, Places
<1>4. TicketsAccounted'
  BY <1>1, <1>2, <1>3 DEF TicketsAccounted, Accounts
<1> QED BY <1>2, <1>3, <1>4 DEF LaneInv, TypeOK

(* Passing over the cancelled tickets of an inactive lane keeps the        *)
(* accounts.                                                               *)
LEMMA SkipCancelledAccounts ==
    ASSUME NEW l \in LaneType, NEW h \in [Tickets -> Places], Accounts(l, h), ~l.active
    PROVE  SkipCancelled(l) \in LaneType /\ Accounts(SkipCancelled(l), h)
<1> DEFINE r == SkipCancelled(l)
<1>0. Tickets \subseteq Nat /\ l.serving \in Nat /\ l.next \in Nat /\ l.skipped \subseteq Tickets
  BY TicketsAssumption DEF LaneType, Accounts
<1>1. l.serving <= l.next /\ \A t \in l.skipped : t < l.next
  <2>1. \A t \in l.skipped : t \in Tickets /\ h[t] = "settled"
    BY DEF Accounts
  <2>2. \A t \in l.skipped : ~(l.next <= t)
    BY <2>1 DEF Accounts
  <2>3. \A t \in l.skipped : t < l.next
    <3> SUFFICES ASSUME NEW t \in l.skipped
                 PROVE  t < l.next
      OBVIOUS
    <3>1. t \in Nat /\ ~(l.next <= t)
      BY <2>1, <2>2, <1>0
    <3> QED BY <3>1, <1>0
  <2>4. l.serving <= l.next
    BY DEF Accounts
  <2> QED BY <2>3, <2>4
<1>2. /\ r \in LaneType
      /\ r.next = l.next /\ r.active = l.active
      /\ l.serving <= r.serving /\ r.serving <= l.next
      /\ r.serving \notin l.skipped
      /\ \A t \in Nat : l.serving <= t /\ t < r.serving => t \in l.skipped
      /\ \A t : t \in r.skipped <=>
             t \in l.skipped /\ ~(l.serving <= t /\ t <= r.serving)
  BY <1>1, SkipCancelledProperties
<1> HIDE DEF r
<1>3. r.serving \in Nat
  BY <1>2 DEF LaneType
<1>4. \A t \in Tickets : t < r.serving => h[t] = "settled"
  <2> SUFFICES ASSUME NEW t \in Tickets, t < r.serving
               PROVE  h[t] = "settled"
    OBVIOUS
  <2>1. CASE t < l.serving
    BY <2>1 DEF Accounts
  <2>2. CASE ~(t < l.serving)
    BY <2>2, <1>0, <1>2 DEF Accounts
  <2> QED BY <2>1, <2>2
<1>5. \A t \in Tickets : r.serving <= t /\ h[t] = "settled" => t \in r.skipped
  <2> SUFFICES ASSUME NEW t \in Tickets, r.serving <= t, h[t] = "settled"
               PROVE  t \in r.skipped
    OBVIOUS
  <2>1. t \in l.skipped
    BY <1>0, <1>2, <1>3 DEF Accounts
  <2> QED BY <2>1, <1>0, <1>2, <1>3
<1>6. r.skipped \subseteq {t \in Tickets : r.serving <= t /\ h[t] = "settled"}
  <2> SUFFICES ASSUME NEW t \in r.skipped
               PROVE  t \in Tickets /\ r.serving <= t /\ h[t] = "settled"
    OBVIOUS
  <2>1. t \in l.skipped /\ ~(l.serving <= t /\ t <= r.serving)
    BY <1>2
  <2>2. t \in Tickets /\ l.serving <= t /\ h[t] = "settled"
    BY <2>1 DEF Accounts
  <2> QED BY <2>1, <2>2, <1>0, <1>3
<1>7. /\ \A t \in Tickets : h[t] = "unissued" <=> r.next <= t
      /\ \A t \in Tickets : h[t] = "inside" => r.active /\ r.serving = t
      /\ ~r.active /\ r.serving <= r.next
  BY <1>2 DEF Accounts
<1> QED BY <1>2, <1>4, <1>5, <1>6, <1>7 DEF Accounts, r

LEMMA CancelPreservesLaneInv ==
    ASSUME NEW t \in Tickets, LaneInv, CancelTicket(t)
    PROVE  LaneInv'
<1> DEFINE marked == [lane EXCEPT !.skipped = @ \cup {t}]
<1>1. /\ lane \in LaneType /\ holder \in [Tickets -> Places] /\ Tickets \subseteq Nat
      /\ lane.serving \in Nat /\ Accounts(lane, holder)
  BY TicketsAssumption DEF LaneInv, TypeOK, TicketsAccounted, LaneType
<1>2. /\ marked \in LaneType
      /\ marked.next = lane.next /\ marked.serving = lane.serving
      /\ marked.skipped = lane.skipped \cup {t} /\ marked.active = lane.active
  BY <1>1 DEF LaneType
<1>3. lane' = IF lane.active THEN marked ELSE SkipCancelled(marked)
  BY DEF CancelTicket, Skip
<1> HIDE DEF marked
<1>4. /\ holder' \in [Tickets -> Places]
      /\ holder[t] = "waiting" /\ holder'[t] = "settled"
      /\ \A u \in Tickets : u # t => holder'[u] = holder[u]
  BY <1>1 DEF CancelTicket, Places
<1>5. lane.serving <= t
  BY <1>1, <1>4 DEF Accounts
<1>6. Accounts(marked, holder')
  <2>1. \A u \in Tickets : holder'[u] = "unissued" <=> marked.next <= u
    BY <1>1, <1>2, <1>4 DEF Accounts
  <2>2. \A u \in Tickets : u < marked.serving => holder'[u] = "settled"
    BY <1>1, <1>2, <1>4 DEF Accounts
  <2>3. \A u \in Tickets :
            marked.serving <= u /\ holder'[u] = "settled" => u \in marked.skipped
    BY <1>1, <1>2, <1>4 DEF Accounts
  <2>4. marked.skipped \subseteq
            {u \in Tickets : marked.serving <= u /\ holder'[u] = "settled"}
    BY <1>1, <1>2, <1>4, <1>5, ZenonT(60) DEF Accounts
  <2>5. /\ \A u \in Tickets :
              holder'[u] = "inside" => marked.active /\ marked.serving = u
        /\ marked.active => marked.serving \in Tickets /\ holder'[marked.serving] = "inside"
        /\ marked.serving <= marked.next
    BY <1>1, <1>2, <1>4 DEF Accounts
  <2> QED BY <2>1, <2>2, <2>3, <2>4, <2>5 DEF Accounts
<1>7. CASE lane.active
  BY <1>2, <1>3, <1>4, <1>6, <1>7 DEF LaneInv, TypeOK, TicketsAccounted
<1>8. CASE ~lane.active
  <2>1. SkipCancelled(marked) \in LaneType /\ Accounts(SkipCancelled(marked), holder')
    BY <1>2, <1>4, <1>6, <1>8, SkipCancelledAccounts
  <2> QED BY <2>1, <1>3, <1>4, <1>8 DEF LaneInv, TypeOK, TicketsAccounted
<1> QED BY <1>7, <1>8

LEMMA LeavePreservesLaneInv ==
    ASSUME NEW t \in Tickets, LaneInv, LeaveLane(t)
    PROVE  LaneInv'
<1> DEFINE left == [lane EXCEPT !.active = FALSE, !.serving = @ + 1]
<1>1. /\ lane \in LaneType /\ holder \in [Tickets -> Places] /\ Tickets \subseteq Nat
      /\ lane.serving \in Nat /\ lane.next \in Nat /\ Accounts(lane, holder)
  BY TicketsAssumption DEF LaneInv, TypeOK, TicketsAccounted, LaneType
<1>2. lane.serving + 1 \in Nat
  BY <1>1
<1>3. /\ left \in LaneType
      /\ left.next = lane.next /\ left.serving = lane.serving + 1
      /\ left.skipped = lane.skipped /\ left.active = FALSE
  BY <1>1, <1>2 DEF LaneType
<1>4. lane' = SkipCancelled(left)
  BY DEF LeaveLane, Advance
<1> HIDE DEF left
<1>5. /\ holder' \in [Tickets -> Places]
      /\ holder[t] = "inside" /\ holder'[t] = "settled"
      /\ \A u \in Tickets : u # t => holder'[u] = holder[u]
  BY <1>1 DEF LeaveLane, Places
<1>6. lane.serving = t /\ t < lane.next /\ t \notin lane.skipped
  BY <1>1, <1>5 DEF Accounts
<1>7. /\ \A u \in Tickets : holder'[u] = "unissued" <=> left.next <= u
      /\ \A u \in Tickets : holder'[u] # "inside"
  BY <1>1, <1>3, <1>5, <1>6 DEF Accounts
<1>8. /\ \A u \in Tickets : u < left.serving => holder'[u] = "settled"
      /\ \A u \in Tickets :
            left.serving <= u /\ holder'[u] = "settled" => u \in left.skipped
  BY <1>1, <1>3, <1>5, <1>6 DEF Accounts
<1>9. left.skipped \subseteq
          {u \in Tickets : left.serving <= u /\ holder'[u] = "settled"}
  <2> SUFFICES ASSUME NEW u \in left.skipped
               PROVE  u \in Tickets /\ left.serving <= u /\ holder'[u] = "settled"
    OBVIOUS
  <2>1. u \in Tickets /\ lane.serving <= u /\ holder[u] = "settled" /\ u # t
    BY <1>1, <1>3, <1>6 DEF Accounts
  <2>2. u \in Nat /\ lane.serving \in Nat /\ lane.serving # u
    BY <2>1, <1>1, <1>6
  <2>3. lane.serving + 1 <= u
    BY <2>1, <2>2
  <2> QED BY <2>1, <2>3, <1>3, <1>5
<1>10. Accounts(left, holder')
  BY <1>1, <1>3, <1>6, <1>7, <1>8, <1>9 DEF Accounts
<1>11. SkipCancelled(left) \in LaneType /\ Accounts(SkipCancelled(left), holder')
  BY <1>3, <1>5, <1>10, SkipCancelledAccounts
<1> QED BY <1>4, <1>5, <1>11 DEF LaneInv, TypeOK, TicketsAccounted

LEMMA StepPreservesLaneInv == LaneInv /\ [LaneNext]_laneVars => LaneInv'
<1> SUFFICES ASSUME LaneInv, [LaneNext]_laneVars
             PROVE  LaneInv'
  OBVIOUS
<1>1. CASE IssueTicket
  BY <1>1, IssuePreservesLaneInv
<1>2. ASSUME NEW t \in Tickets, EnterLane(t)
      PROVE  LaneInv'
  BY <1>2, EnterPreservesLaneInv
<1>3. ASSUME NEW t \in Tickets, CancelTicket(t)
      PROVE  LaneInv'
  BY <1>3, CancelPreservesLaneInv
<1>4. ASSUME NEW t \in Tickets, LeaveLane(t)
      PROVE  LaneInv'
  BY <1>4, LeavePreservesLaneInv
<1>5. CASE UNCHANGED laneVars
  BY <1>5 DEF laneVars, LaneInv, TypeOK, TicketsAccounted, Accounts
<1> QED BY <1>1, <1>2, <1>3, <1>4, <1>5 DEF LaneNext

(* The fields of a lane account for all its tickets, in every behaviour of *)
(* TicketCommandLane.                                                      *)
THEOREM LaneAccountsForItsTickets == LaneSpec => []LaneInv
<1>1. LaneInit => LaneInv
  BY InitEstablishesLaneInv
<1>2. LaneInv /\ [LaneNext]_laneVars => LaneInv'
  BY StepPreservesLaneInv
<1> QED BY <1>1, <1>2, PTL DEF LaneSpec

(* A command runs alone in its lane and after every command accepted       *)
(* before it: run_ordered_blocking_queue's promise for one lane.           *)
THEOREM LaneServesInOrder == LaneSpec => []ServedInOrder
<1>1. LaneInv => ServedInOrder
  BY DEF LaneInv, TypeOK, TicketsAccounted, Accounts, ServedInOrder
<1> QED BY <1>1, LaneAccountsForItsTickets, PTL

(* A lane that is thrown away because is_idle has nobody left in it:       *)
(* AcceptedCommandLane::drop never splits a scope into two lanes for a     *)
(* ticket that is still out.                                               *)
THEOREM IdleLaneIsEmpty == LaneSpec => []IdleIsEmpty
<1>1. LaneInv => IdleIsEmpty
  <2> SUFFICES ASSUME LaneInv, IsIdle(lane), NEW t \in Tickets
               PROVE  holder[t] \in {"unissued", "settled"}
    BY DEF IdleIsEmpty
  <2>1. lane.serving \in Nat /\ lane.next = lane.serving /\ ~lane.active /\ t \in Nat
    BY TicketsAssumption DEF LaneInv, TypeOK, LaneType, IsIdle
  <2>2. CASE t < lane.serving
    BY <2>2 DEF LaneInv, TicketsAccounted, Accounts
  <2>3. CASE ~(t < lane.serving)
    BY <2>1, <2>3 DEF LaneInv, TicketsAccounted, Accounts
  <2> QED BY <2>2, <2>3
<1> QED BY <1>1, LaneAccountsForItsTickets, PTL

-----------------------------------------------------------------------------

(***************************************************************************)
(* The delivery of events.                                                 *)
(***************************************************************************)
LEMMA ProjectionsNat == E!Projections \in Nat
BY DeliveryAssumption DEF E!Projections

LEMMA DeliveryConstants ==
  /\ E!Nothing \in E!TurnType /\ E!NotKnown \in E!StateType /\ E!Idle \in E!ThreadType
  /\ E!Closed \in E!SocketType
  /\ E!Nothing.revision = 0 /\ E!Nothing.of = 0
  /\ E!NotKnown.turn = E!Nothing /\ E!NotKnown.queue = 0 /\ E!Idle.pc = "idle"
  /\ E!Closed.pc = "closed" /\ E!Closed.last = 0
<1>1. E!Nothing \in E!TurnType /\ E!Nothing.revision = 0 /\ E!Nothing.of = 0
  BY ProjectionsNat DEF E!Nothing, E!TurnType
<1>2. E!NotKnown \in E!StateType /\ E!NotKnown.turn = E!Nothing /\ E!NotKnown.queue = 0
  BY <1>1 DEF E!NotKnown, E!StateType
<1>3. E!Idle \in E!ThreadType /\ E!Idle.pc = "idle"
  BY <1>1, ProjectionsNat DEF E!Idle, E!ThreadType
<1>4. E!Closed \in E!SocketType /\ E!Closed.pc = "closed" /\ E!Closed.last = 0
  BY DEF E!Closed, E!SocketType
<1>5. QED
  BY <1>1, <1>2, <1>3, <1>4

LEMMA EventFields ==
  ASSUME NEW e \in E!EventType
  PROVE  /\ e.kind \in {"turn", "queue", "session", "hello"} /\ e.seq \in Nat /\ e.body \in E!StateType
         /\ e.body.turn \in E!TurnType /\ e.body.queue \in Nat
         /\ e.body.turn.revision \in Nat /\ e.body.turn.of \in 0..E!Projections
BY DEF E!EventType, E!StateType, E!TurnType

(* The events that the Host sends. *)
LEMMA SentEvents ==
  ASSUME NEW n \in Nat, NEW v \in E!TurnType, NEW q \in Nat
  PROVE  /\ [kind |-> "turn", seq |-> n, body |-> [E!NotKnown EXCEPT !.turn = v]] \in E!EventType
         /\ [kind |-> "queue", seq |-> n, body |-> [E!NotKnown EXCEPT !.queue = q]] \in E!EventType
         /\ [kind |-> "hello", seq |-> n, body |-> [turn |-> v, queue |-> q]] \in E!EventType
         /\ [kind |-> "session", seq |-> n, body |-> [turn |-> v, queue |-> q]] \in E!EventType
         /\ [E!NotKnown EXCEPT !.turn = v].turn = v /\ [E!NotKnown EXCEPT !.queue = q].queue = q
<1>1. /\ [E!NotKnown EXCEPT !.turn = v] \in E!StateType /\ [E!NotKnown EXCEPT !.turn = v].turn = v
      /\ [E!NotKnown EXCEPT !.queue = q] \in E!StateType /\ [E!NotKnown EXCEPT !.queue = q].queue = q
  BY DeliveryConstants DEF E!NotKnown, E!StateType
<1>2. [turn |-> v, queue |-> q] \in E!StateType
  BY DEF E!StateType
<1>3. QED
  BY <1>1, <1>2 DEF E!EventType

(* What Send does to the receiver: the event is the last, and the first is *)
(* lost if there were as many as it holds.                                 *)
SentTo(e) ==
  /\ Len(y7') > 0 /\ y7'[Len(y7')] = e
  /\ \E k \in {0, 1} :
        /\ Len(y7') = Len(y7) + 1 - k
        /\ \A i \in 1..(Len(y7') - 1) : i + k \in DOMAIN y7 /\ y7'[i] = y7[i + k]
        /\ ~y8' => k = 0 /\ ~y8

LEMMA SendEffect ==
  ASSUME E!TypeOK, NEW e \in E!EventType, E!Send(e)
  PROVE  /\ y7' \in Seq(E!EventType) /\ y8' \in BOOLEAN
         /\ y6.pc = "closed" => UNCHANGED <<y7, y8>>
         /\ y6.pc # "closed" => SentTo(e)
<1>0. y7 \in Seq(E!EventType) /\ y8 \in BOOLEAN /\ Len(y7) \in Nat /\ Capacity \in Nat \ {0}
  BY DeliveryAssumption DEF E!TypeOK
<1>1. CASE y6.pc = "closed"
  BY <1>0, <1>1 DEF E!Send
<1>2. CASE y6.pc # "closed" /\ Len(y7) = Capacity
  <2>1. y7' = Append(Tail(y7), e) /\ y8' = (y8 \/ Len(y7) = Capacity)
    BY <1>2 DEF E!Send
  <2>2. y8' = TRUE
    BY <1>2, <2>1, Zenon
  <2>3. /\ Tail(y7) \in Seq(E!EventType) /\ Len(Tail(y7)) = Len(y7) - 1
        /\ \A i \in 1..(Len(y7) - 1) : Tail(y7)[i] = y7[i + 1]
    BY <1>0, <1>2
  <2>4. /\ y7' \in Seq(E!EventType) /\ Len(y7') = Len(y7) /\ y7'[Len(y7)] = e
        /\ \A i \in 1..(Len(y7) - 1) : y7'[i] = y7[i + 1]
    BY <1>0, <1>2, <2>1, <2>3
  <2>5. SentTo(e)
    BY <1>0, <1>2, <2>2, <2>4 DEF SentTo
  <2>6. QED
    BY <1>2, <2>2, <2>4, <2>5
<1>3. CASE y6.pc # "closed" /\ Len(y7) # Capacity
  <2>1. y7' = Append(y7, e) /\ y8' = (y8 \/ Len(y7) = Capacity)
    BY <1>3 DEF E!Send
  <2>2. y8' \in BOOLEAN /\ (~y8' => ~y8)
    BY <2>1, Zenon
  <2>3. /\ y7' \in Seq(E!EventType) /\ Len(y7') = Len(y7) + 1 /\ y7'[Len(y7) + 1] = e
        /\ \A i \in 1..Len(y7) : y7'[i] = y7[i]
    BY <1>0, <2>1
  <2>4. SentTo(e)
    BY <1>0, <2>2, <2>3 DEF SentTo
  <2>5. QED
    BY <1>3, <2>2, <2>3, <2>4
<1>4. QED
  BY <1>1, <1>2, <1>3

LEMMA InitEstablishesDelivery == E!Init => E!DeliveryInv
<1>. SUFFICES ASSUME E!Init PROVE E!DeliveryInv
  OBVIOUS
<1>. USE DeliveryConstants, ProjectionsNat DEF E!Init
<1>0. /\ y2 = E!Nothing /\ y9 = E!NotKnown /\ y6 = E!Closed /\ y7 = <<>> /\ y1 = 0 /\ y3 = 0 /\ y13 = 0
      /\ y4 = [t \in Threads |-> E!Idle] /\ y5 = 0 /\ y10 = 0 /\ y8 = FALSE /\ y14 = FALSE
      /\ y15 = E!NothingUndone
  OBVIOUS
<1>1. E!TypeOK
  <2>1. y7 \in Seq(E!EventType) /\ y4 \in [Threads -> E!ThreadType]
    BY <1>0
  <2>2. y8 \in BOOLEAN /\ y14 \in BOOLEAN
    BY <1>0
  <2>3. y15 \in [turn : Nat, queue : Nat, end : BOOLEAN]
    BY <1>0 DEF E!NothingUndone
  <2>4. QED
    BY <1>0, <2>1, <2>2, <2>3 DEF E!TypeOK
<1>2. E!NoEventIsMissing /\ E!Numbered /\ E!GoesOn
  BY <1>0 DEF E!NoEventIsMissing, E!Numbered, E!GoesOn
<1>3. /\ DOMAIN y7 = {} /\ y9.turn = y2 /\ y2 = E!Nothing /\ y2.revision = 0 /\ y2.of = 0 /\ y9.queue = 0
      /\ y6.pc = "closed" /\ \A t \in Threads : y4[t].pc = "idle"
      /\ y15.turn = 0 /\ y15.queue = 0 /\ y15.end = FALSE
  BY <1>0 DEF E!NothingUndone
<1>4. E!Versions /\ E!TurnComes /\ E!QueueComes /\ E!EndComes
  <2>. HIDE DEF E!Init
  <2>1. E!Version(E!Nothing)
    BY <1>3 DEF E!Version
  <2>2. E!Versions
    BY <1>3, <2>1 DEF E!Versions, E!HasCopy
  <2>3. E!TurnComes
    BY <1>3 DEF E!TurnComes
  <2>4. E!QueueComes
    <3>1. E!QueueNoted(y13)
      BY <1>0 DEF E!QueueNoted
    <3>2. QED
      BY <1>3, <3>1 DEF E!QueueComes, E!HasCopy
  <2>5. E!EndComes
    BY <1>0, <1>3, SMTT(30) DEF E!EndComes
  <2>6. QED
    BY <2>2, <2>3, <2>4, <2>5
<1>5. QED
  BY <1>1, <1>2, <1>4 DEF E!DeliveryInv

(* What a thread becomes. *)
LEMMA ThreadSteps ==
  ASSUME NEW n \in 0..E!Projections, NEW v \in E!TurnType, NEW q \in Nat, NEW r \in E!ThreadType
  PROVE  /\ [E!Idle EXCEPT !.pc = "apply", !.of = n] \in E!ThreadType
         /\ [E!Idle EXCEPT !.pc = "apply", !.of = n].pc = "apply"
         /\ [E!Idle EXCEPT !.pc = "apply", !.of = n].of = n
         /\ [r EXCEPT !.pc = "publish turn", !.turn = v] \in E!ThreadType
         /\ [r EXCEPT !.pc = "publish turn", !.turn = v].pc = "publish turn"
         /\ [r EXCEPT !.pc = "publish turn", !.turn = v].turn = v
         /\ [E!Idle EXCEPT !.pc = "read queue"] \in E!ThreadType
         /\ [E!Idle EXCEPT !.pc = "read queue"].pc = "read queue"
         /\ [E!Idle EXCEPT !.pc = "publish queue", !.queue = q] \in E!ThreadType
         /\ [E!Idle EXCEPT !.pc = "publish queue", !.queue = q].pc = "publish queue"
         /\ [E!Idle EXCEPT !.pc = "publish queue", !.queue = q].queue = q
<1>1. ASSUME NEW s \in E!ThreadType
      PROVE  /\ [s EXCEPT !.pc = "apply", !.of = n] \in E!ThreadType
             /\ [s EXCEPT !.pc = "apply", !.of = n].pc = "apply"
             /\ [s EXCEPT !.pc = "apply", !.of = n].of = n
             /\ [s EXCEPT !.pc = "publish turn", !.turn = v] \in E!ThreadType
             /\ [s EXCEPT !.pc = "publish turn", !.turn = v].pc = "publish turn"
             /\ [s EXCEPT !.pc = "publish turn", !.turn = v].turn = v
             /\ [s EXCEPT !.pc = "read queue"] \in E!ThreadType
             /\ [s EXCEPT !.pc = "read queue"].pc = "read queue"
             /\ [s EXCEPT !.pc = "publish queue", !.queue = q] \in E!ThreadType
             /\ [s EXCEPT !.pc = "publish queue", !.queue = q].pc = "publish queue"
             /\ [s EXCEPT !.pc = "publish queue", !.queue = q].queue = q
  BY DEF E!ThreadType
<1>2. QED
  BY <1>1, DeliveryConstants

LEMMA ThreadFields ==
  ASSUME E!TypeOK, NEW t \in Threads
  PROVE  /\ y4[t] \in E!ThreadType /\ y4[t].of \in 0..E!Projections
         /\ y4[t].turn \in E!TurnType /\ y4[t].queue \in Nat
BY DEF E!TypeOK, E!ThreadType

(* The other threads stay as they are. *)
LEMMA BecomesEffect ==
  ASSUME E!TypeOK, NEW t \in Threads, NEW v \in E!ThreadType, E!Becomes(t, v)
  PROVE  /\ y4' \in [Threads -> E!ThreadType] /\ y4'[t] = v
         /\ \A x \in Threads \ {t} : y4'[x] = y4[x]
BY DEF E!TypeOK, E!Becomes

(* The copy of the Session that a thread keeps. *)
LEMMA KeepsEffect ==
  ASSUME E!TypeOK, NEW t \in Threads, NEW pc \in {"saves", "stops"}, E!Keeps(t, pc)
  PROVE  /\ y4' \in [Threads -> E!ThreadType] /\ \A x \in Threads \ {t} : y4'[x] = y4[x]
         /\ y4'[t].pc = pc /\ y4'[t].turn = y2 /\ y4'[t].queue = y3
<1>1. PICK v : v = [E!Idle EXCEPT !.pc = pc, !.turn = y2, !.queue = y3]
  OBVIOUS
<1>2. E!Idle \in E!ThreadType /\ y2 \in E!TurnType /\ y3 \in Nat
  BY DeliveryConstants DEF E!TypeOK
<1>3. v \in E!ThreadType /\ v.pc = pc /\ v.turn = y2 /\ v.queue = y3
  BY <1>1, <1>2 DEF E!ThreadType
<1>4. E!Becomes(t, v)
  BY <1>1 DEF E!Keeps
<1>5. QED
  BY <1>3, <1>4, BecomesEffect

(* The turn stays as it is, or has a new revision, or is put back where    *)
(* nothing is said of it.                                                  *)
TurnMoves ==
  /\ y15.turn <= y15'.turn
  /\ \/ y2' = y2
     \/ y2'.revision = y2.revision + 1 /\ y15'.turn = y15.turn
     \/ y2.revision < y15'.turn /\ ~E!TurnStands'

(* So is the queue. *)
QueueMoves ==
  /\ y15.queue <= y15'.queue
  /\ \/ y3' = y3
     \/ y3' = y3 + 1 /\ y15'.queue = y15.queue
     \/ y3 < y15'.queue /\ y3' < y15'.queue

(* The steps of a thread that neither publish nor put back.                *)
LEMMA HostEffect ==
  ASSUME E!TypeOK, NEW t \in Threads,
         E!TakeProjection(t) \/ E!Apply(t) \/ E!ChangeQueue(t) \/ E!Stop(t) \/ E!ReadQueue(t)
  PROVE  /\ UNCHANGED <<y5, y6, y7, y8, y9, y10, y12, y13, y14, y15>> /\ y11' \in Nat
         /\ y4' \in [Threads -> E!ThreadType] /\ \A x \in Threads \ {t} : y4'[x] = y4[x]
         /\ \/ /\ y1 # E!Projections /\ y1' = y1 + 1 /\ y1' \in 0..E!Projections
               /\ UNCHANGED <<y2, y3>>
               /\ y4[t].pc = "idle" /\ y4'[t].pc = "apply" /\ y4'[t].of = y1'
            \/ /\ y4[t].pc = "apply" /\ y4'[t].pc = "idle" /\ UNCHANGED <<y1, y2, y3>>
               /\ y2.of = y4[t].of \/ E!Stale(y4[t].of)
            \/ /\ y4[t].pc = "apply" /\ y4'[t].pc = "publish turn" /\ y4'[t].turn = y2'
               /\ y2.of # y4[t].of /\ ~E!Stale(y4[t].of)
               /\ y2' \in E!TurnType /\ y2'.revision = y2.revision + 1 /\ y2'.of = y4[t].of
               /\ y3' \in {y3, y3 + 1} /\ UNCHANGED y1
            \/ /\ y4[t].pc = "idle" /\ y4'[t].pc \in {"saves", "stops"}
               /\ y4'[t].turn = y2 /\ y4'[t].queue = y3
               /\ y3' \in {y3, y3 + 1} /\ UNCHANGED <<y1, y2>>
            \/ /\ y4[t].pc \in {"saves", "read queue"}
               /\ y4'[t].pc = "publish queue" /\ y4'[t].queue = y3
               /\ UNCHANGED <<y1, y2, y3>>
<1>0. /\ y1 \in 0..E!Projections /\ y2 \in E!TurnType /\ y3 \in Nat /\ y11 \in Nat
      /\ y2.revision \in Nat /\ E!Projections \in Nat
  BY ProjectionsNat DEF E!TypeOK, E!TurnType
<1>1. CASE E!TakeProjection(t)
  <2>1. /\ y4[t].pc = "idle" /\ y1 < E!Projections /\ y1' = y1 + 1
        /\ E!Becomes(t, [E!Idle EXCEPT !.pc = "apply", !.of = y1 + 1])
        /\ UNCHANGED <<y2, y3, y5, y6, y7, y8, y9, y10, y11, y12, y13, y14, y15>>
    BY <1>1 DEF E!TakeProjection, E!pageVars
  <2>2. y1 + 1 \in 0..E!Projections
    BY <1>0, <2>1
  <2>3. PICK v : v = [E!Idle EXCEPT !.pc = "apply", !.of = y1 + 1]
    OBVIOUS
  <2>4. v \in E!ThreadType /\ v.pc = "apply" /\ v.of = y1 + 1
    BY <1>0, <2>2, <2>3, ThreadSteps, ThreadFields
  <2>5. y4' \in [Threads -> E!ThreadType] /\ y4'[t] = v /\ \A x \in Threads \ {t} : y4'[x] = y4[x]
    BY <2>1, <2>3, <2>4, BecomesEffect
  <2>6. y1 # E!Projections /\ y1' \in 0..E!Projections
    BY <1>0, <2>1, <2>2
  <2>7. QED
    BY <1>0, <2>1, <2>4, <2>5, <2>6
<1>2. CASE E!Apply(t) /\ (y2.of = y4[t].of \/ E!Stale(y4[t].of))
  <2>1. /\ y4[t].pc = "apply" /\ E!Becomes(t, E!Idle)
        /\ UNCHANGED <<y1, y2, y3, y5, y6, y7, y8, y9, y10, y11, y12, y13, y14, y15>>
    BY <1>2 DEF E!Apply, E!pageVars
  <2>2. y4' \in [Threads -> E!ThreadType] /\ y4'[t] = E!Idle /\ \A x \in Threads \ {t} : y4'[x] = y4[x]
    BY <2>1, BecomesEffect, DeliveryConstants
  <2>3. QED
    BY <1>0, <1>2, <2>1, <2>2, DeliveryConstants
<1>3. CASE E!Apply(t) /\ ~(y2.of = y4[t].of \/ E!Stale(y4[t].of))
  <2>1. PICK w : w = [revision |-> y2.revision + 1, of |-> y4[t].of]
    OBVIOUS
  <2>2. w \in E!TurnType /\ w.revision = y2.revision + 1 /\ w.of = y4[t].of
    BY <1>0, <2>1, ThreadFields DEF E!TurnType
  <2>3. /\ y4[t].pc = "apply" /\ E!Becomes(t, [y4[t] EXCEPT !.pc = "publish turn", !.turn = w])
        /\ y2' = w /\ y3' = (IF E!IsFinished(y4[t].of) THEN y3 + 1 ELSE y3)
        /\ UNCHANGED <<y1, y5, y6, y7, y8, y9, y10, y11, y12, y13, y14, y15>>
    BY <1>3, <2>1 DEF E!Apply, E!pageVars
  <2>4. PICK v : v = [y4[t] EXCEPT !.pc = "publish turn", !.turn = w]
    OBVIOUS
  <2>5. v \in E!ThreadType /\ v.pc = "publish turn" /\ v.turn = w
    <3>1. y4[t] \in E!ThreadType
      BY ThreadFields
    <3>2. QED
      BY <2>2, <2>4, <3>1 DEF E!ThreadType
  <2>6. y4' \in [Threads -> E!ThreadType] /\ y4'[t] = v /\ \A x \in Threads \ {t} : y4'[x] = y4[x]
    BY <2>3, <2>4, <2>5, BecomesEffect
  <2>7. y3' \in {y3, y3 + 1}
    BY <2>3
  <2>8. QED
    BY <1>0, <1>3, <2>2, <2>3, <2>5, <2>6, <2>7
<1>4. CASE E!ChangeQueue(t) \/ E!Stop(t)
  <2>1. PICK pc \in {"saves", "stops"} :
           /\ y4[t].pc = "idle" /\ E!Keeps(t, pc) /\ y11' = y11 + 1 /\ y3' \in {y3, y3 + 1}
           /\ UNCHANGED <<y1, y2, y5, y6, y7, y8, y9, y10, y12, y13, y14, y15>>
    BY <1>4, Zenon DEF E!ChangeQueue, E!Stop, E!NewCommand, E!pageVars
  <2>2. /\ y4' \in [Threads -> E!ThreadType] /\ \A x \in Threads \ {t} : y4'[x] = y4[x]
        /\ y4'[t].pc = pc /\ y4'[t].turn = y2 /\ y4'[t].queue = y3
    BY <2>1, KeepsEffect
  <2>3. y11' \in Nat
    BY <1>0, <2>1
  <2>4. QED
    BY <2>1, <2>2, <2>3
<1>5. CASE E!ReadQueue(t)
  <2>1. /\ y4[t].pc \in {"saves", "read queue"}
        /\ E!Becomes(t, [E!Idle EXCEPT !.pc = "publish queue", !.queue = y3])
        /\ UNCHANGED <<y1, y2, y3, y5, y6, y7, y8, y9, y10, y11, y12, y13, y14, y15>>
    BY <1>5 DEF E!ReadQueue, E!pageVars
  <2>2. PICK v : v = [E!Idle EXCEPT !.pc = "publish queue", !.queue = y3]
    OBVIOUS
  <2>3. v \in E!ThreadType /\ v.pc = "publish queue" /\ v.queue = y3
    BY <1>0, <2>2, ThreadSteps, ThreadFields, ZenonT(60)
  <2>4. y4' \in [Threads -> E!ThreadType] /\ y4'[t] = v /\ \A x \in Threads \ {t} : y4'[x] = y4[x]
    BY <2>1, <2>2, <2>3, BecomesEffect
  <2>5. QED
    BY <1>0, <2>1, <2>3, <2>4
<1>6. QED
  BY <1>1, <1>2, <1>3, <1>4, <1>5

(* What is put back was noted, so it is the same, or what it replaces was  *)
(* undone.                                                                 *)
LEMMA PutBackTurn ==
  ASSUME E!TypeOK, NEW t \in Threads, E!PutBack(t), E!Version(y4[t].turn)
  PROVE  y15'.turn \in Nat /\ TurnMoves
<1>1. /\ y2' = y4[t].turn
      /\ y15'.turn = IF y2' = y2 THEN y15.turn ELSE E!Later(y15.turn, y2.revision + 1)
  BY DEF E!PutBack
<1>2. y15.turn \in Nat /\ y2.revision \in Nat /\ y2'.revision \in Nat
  BY <1>1, ThreadFields DEF E!TypeOK, E!TurnType
<1>3. CASE y2' = y2
  BY <1>1, <1>2, <1>3 DEF TurnMoves
<1>4. CASE y2' # y2
  <2>1. y15'.turn = E!Later(y15.turn, y2.revision + 1)
    BY <1>1, <1>4
  <2>2. y15'.turn \in Nat /\ y15.turn <= y15'.turn /\ y2.revision < y15'.turn
    BY <1>2, <2>1 DEF E!Later
  <2>3. y2'.revision <= y2.revision \/ y2'.revision < y15.turn
    BY <1>1 DEF E!Version
  <2>4. ~(y2'.revision >= y15'.turn)
    BY <1>2, <2>2, <2>3
  <2>5. QED
    BY <2>2, <2>4 DEF TurnMoves, E!TurnStands
<1>5. QED
  BY <1>3, <1>4

LEMMA PutBackQueue ==
  ASSUME E!TypeOK, NEW t \in Threads, E!PutBack(t), E!QueueNoted(y4[t].queue)
  PROVE  y15'.queue \in Nat /\ QueueMoves
<1>1. /\ y3' = y4[t].queue
      /\ y15'.queue = IF y3' = y3 THEN y15.queue ELSE E!Later(y15.queue, y3 + 1)
  BY DEF E!PutBack
<1>2. y15.queue \in Nat /\ y3 \in Nat /\ y3' \in Nat
  BY <1>1, ThreadFields DEF E!TypeOK
<1>3. CASE y3' = y3
  BY <1>1, <1>2, <1>3 DEF QueueMoves
<1>4. CASE y3' # y3
  <2>1. y15'.queue = E!Later(y15.queue, y3 + 1)
    BY <1>1, <1>4
  <2>2. y15'.queue \in Nat /\ y15.queue <= y15'.queue /\ y3 < y15'.queue
    BY <1>2, <2>1 DEF E!Later
  <2>3. y3' <= y3 \/ y3' < y15.queue
    BY <1>1 DEF E!QueueNoted
  <2>4. y3' < y15'.queue
    BY <1>2, <2>2, <2>3
  <2>5. QED
    BY <2>2, <2>4 DEF QueueMoves
<1>5. QED
  BY <1>3, <1>4

LEMMA PutBackEffect ==
  ASSUME E!TypeOK, NEW t \in Threads, E!PutBack(t)
  PROVE  /\ UNCHANGED <<y1, y5, y6, y7, y8, y9, y10, y11, y12, y13, y14>>
         /\ y4' \in [Threads -> E!ThreadType] /\ \A x \in Threads \ {t} : y4'[x] = y4[x]
         /\ E!HasCopy(t) /\ y4'[t].pc = "idle"
         /\ y2' = y4[t].turn /\ y2' \in E!TurnType /\ y3' = y4[t].queue /\ y3' \in Nat
         /\ y15' \in [turn : Nat, queue : Nat, end : BOOLEAN]
         /\ ~y15'.end => ~y15.end /\ (y2.of = E!Projections => y2'.of = E!Projections)
<1>1. /\ y4[t].pc \in {"saves", "stops"} /\ y2' = y4[t].turn /\ y3' = y4[t].queue
      /\ E!Becomes(t, E!Idle)
      /\ UNCHANGED <<y1, y5, y6, y7, y8, y9, y10, y11, y12, y13, y14>>
  BY DEF E!PutBack, E!pageVars
<1>2. y4' \in [Threads -> E!ThreadType] /\ y4'[t] = E!Idle /\ \A x \in Threads \ {t} : y4'[x] = y4[x]
  BY <1>1, BecomesEffect, DeliveryConstants
<1>3. y2' \in E!TurnType /\ y3' \in Nat
  BY <1>1, ThreadFields
<1>4. PICK a, b, c :
         /\ a = IF y2' = y2 THEN y15.turn ELSE E!Later(y15.turn, y2.revision + 1)
         /\ b = IF y3' = y3 THEN y15.queue ELSE E!Later(y15.queue, y3 + 1)
         /\ c = (y15.end \/ (y2.of = E!Projections /\ y2'.of # E!Projections))
         /\ y15' = [turn |-> a, queue |-> b, end |-> c]
  BY DEF E!PutBack
<1>5. y15.turn \in Nat /\ y15.queue \in Nat /\ y2.revision \in Nat /\ y3 \in Nat
  BY DEF E!TypeOK, E!TurnType
<1>6. a \in Nat /\ b \in Nat
  BY <1>4, <1>5 DEF E!Later
<1>7. c \in BOOLEAN
  BY <1>4, Zenon
<1>8. y15' \in [turn : Nat, queue : Nat, end : BOOLEAN] /\ y15'.end = c
  BY <1>4, <1>6, <1>7
<1>9. ~c => ~y15.end /\ (y2.of = E!Projections => y2'.of = E!Projections)
  BY <1>4, Zenon
<1>10. QED
  BY <1>1, <1>2, <1>3, <1>8, <1>9, DeliveryConstants DEF E!HasCopy

(* The steps that send an event.                                           *)
LEMMA PublishEffect ==
  ASSUME E!TypeOK, NEW t \in Threads, E!PublishTurn(t) \/ E!PublishQueue(t)
  PROVE  \E e \in E!EventType :
           /\ y5' = y5 + 1 /\ e.seq = y5 + 1 /\ E!Send(e)
           /\ UNCHANGED <<y1, y2, y3, y6, y9, y10, y11, y12, y14, y15>>
           /\ y4' \in [Threads -> E!ThreadType] /\ \A x \in Threads \ {t} : y4'[x] = y4[x]
           /\ y4'[t].pc \in {"idle", "read queue"}
           /\ \/ /\ y4[t].pc = "publish turn" /\ y13' = y13
                 /\ e.kind = "turn" /\ e.body.turn = y4[t].turn
              \/ /\ y4[t].pc = "publish queue" /\ y13' = y4[t].queue
                 /\ e.kind = "queue" /\ e.body.queue = y4[t].queue
<1>0. /\ y5 \in Nat /\ y4[t].turn \in E!TurnType /\ y4[t].queue \in Nat /\ y5 + 1 \in Nat
  BY ThreadFields DEF E!TypeOK
<1>1. CASE E!PublishTurn(t)
  <2>1. PICK e : e = [kind |-> "turn", seq |-> y5 + 1, body |-> [E!NotKnown EXCEPT !.turn = y4[t].turn]]
    OBVIOUS
  <2>2. e \in E!EventType /\ e.kind = "turn" /\ e.seq = y5 + 1
    BY <1>0, <2>1, SentEvents
  <2>3. e.body.turn = y4[t].turn
    <3>1. e.body = [E!NotKnown EXCEPT !.turn = y4[t].turn]
      BY <2>1
    <3>2. QED
      BY <1>0, <3>1, SentEvents
  <2>4. PICK v : v = IF E!IsFinished(y4[t].of) THEN [E!Idle EXCEPT !.pc = "read queue"] ELSE E!Idle
    OBVIOUS
  <2>5. v \in E!ThreadType /\ v.pc \in {"idle", "read queue"}
    BY <2>4, DeliveryConstants DEF E!ThreadType
  <2>6. /\ y4[t].pc = "publish turn" /\ y5' = y5 + 1 /\ E!Send(e) /\ E!Becomes(t, v)
        /\ UNCHANGED <<y1, y2, y3, y6, y9, y10, y11, y12, y13, y14, y15>>
    BY <1>1, <2>1, <2>4 DEF E!PublishTurn, E!Publish, E!pageVars
  <2>7. y4' \in [Threads -> E!ThreadType] /\ y4'[t] = v /\ \A x \in Threads \ {t} : y4'[x] = y4[x]
    BY <2>5, <2>6, BecomesEffect
  <2>8. y4'[t].pc \in {"idle", "read queue"}
    BY <2>5, <2>7
  <2>9. QED
    BY <2>2, <2>3, <2>6, <2>7, <2>8
<1>2. CASE E!PublishQueue(t)
  <2>1. PICK e : e = [kind |-> "queue", seq |-> y5 + 1, body |-> [E!NotKnown EXCEPT !.queue = y4[t].queue]]
    OBVIOUS
  <2>2. e \in E!EventType /\ e.kind = "queue" /\ e.seq = y5 + 1
    <3>1. ASSUME NEW w \in E!TurnType
          PROVE  [kind |-> "queue", seq |-> y5 + 1, body |-> [E!NotKnown EXCEPT !.queue = y4[t].queue]]
                   \in E!EventType
      BY <1>0, SentEvents
    <3>2. QED
      BY <1>0, <2>1, <3>1
  <2>3. e.body.queue = y4[t].queue
    <3>1. e.body = [E!NotKnown EXCEPT !.queue = y4[t].queue]
      BY <2>1
    <3>2. QED
      BY <1>0, <3>1, SentEvents
  <2>6. /\ y4[t].pc = "publish queue" /\ y5' = y5 + 1 /\ E!Send(e) /\ E!Becomes(t, E!Idle)
        /\ y13' = y4[t].queue
        /\ UNCHANGED <<y1, y2, y3, y6, y9, y10, y11, y12, y14, y15>>
    BY <1>2, <2>1 DEF E!PublishQueue, E!Publish, E!pageVars
  <2>7. y4' \in [Threads -> E!ThreadType] /\ y4'[t] = E!Idle /\ \A x \in Threads \ {t} : y4'[x] = y4[x]
    BY <2>6, BecomesEffect, DeliveryConstants
  <2>8. y4'[t].pc \in {"idle", "read queue"}
    BY <2>7, DeliveryConstants
  <2>9. QED
    BY <2>2, <2>3, <2>6, <2>7, <2>8
<1>3. QED
  BY <1>1, <1>2

(* The copy of a Stop is published: it has the turn there is, or a thread  *)
(* will publish that, or the turn counts as undone.                        *)
LEMMA PublishStopEffect ==
  ASSUME E!TypeOK, NEW t \in Threads, E!PublishStop(t)
  PROVE  \E e \in E!EventType :
           /\ y5' = y5 + 1 /\ e.seq = y5 + 1 /\ E!Send(e)
           /\ UNCHANGED <<y1, y2, y3, y6, y9, y10, y11, y12, y14>>
           /\ y4' \in [Threads -> E!ThreadType] /\ \A x \in Threads \ {t} : y4'[x] = y4[x]
           /\ y4[t].pc = "stops" /\ y4'[t].pc = "idle"
           /\ e.kind = "session" /\ e.body.turn = y4[t].turn /\ e.body.queue = y4[t].queue
           /\ y13' = y4[t].queue
           /\ y15' \in [turn : Nat, queue : Nat, end : BOOLEAN]
           /\ y15.turn <= y15'.turn /\ y15'.queue = y15.queue /\ y15'.end = y15.end
           /\ y4[t].turn = y2 \/ E!ToPublish \/ ~E!TurnStands'
<1>0. /\ y5 \in Nat /\ y4[t].turn \in E!TurnType /\ y4[t].queue \in Nat /\ y5 + 1 \in Nat
      /\ y15 \in [turn : Nat, queue : Nat, end : BOOLEAN] /\ y2.revision \in Nat
  BY ThreadFields DEF E!TypeOK, E!TurnType
<1>1. PICK b : b = [turn |-> y4[t].turn, queue |-> y4[t].queue]
  OBVIOUS
<1>2. b.turn = y4[t].turn /\ b.queue = y4[t].queue
  BY <1>1
<1>3. PICK e : e = [kind |-> "session", seq |-> y5 + 1, body |-> b]
  OBVIOUS
<1>4. e \in E!EventType
  BY <1>0, <1>1, <1>3, SentEvents
<1>5. e.kind = "session" /\ e.seq = y5 + 1 /\ e.body = b
  BY <1>3
<1>6. /\ y4[t].pc = "stops" /\ y5' = y5 + 1 /\ E!Send(e) /\ E!Becomes(t, E!Idle) /\ y13' = y4[t].queue
      /\ UNCHANGED <<y1, y2, y3, y6, y9, y10, y11, y12, y14>>
  BY <1>1, <1>3 DEF E!PublishStop, E!Publish, E!pageVars
<1>7. y4' \in [Threads -> E!ThreadType] /\ y4'[t] = E!Idle /\ \A x \in Threads \ {t} : y4'[x] = y4[x]
  BY <1>6, BecomesEffect, DeliveryConstants
<1>8. /\ y15' \in [turn : Nat, queue : Nat, end : BOOLEAN]
      /\ y15.turn <= y15'.turn /\ y15'.queue = y15.queue /\ y15'.end = y15.end
      /\ y4[t].turn = y2 \/ E!ToPublish \/ ~E!TurnStands'
  <2>1. CASE y4[t].turn = y2 \/ E!ToPublish
    <3>1. y15' = y15
      BY <2>1 DEF E!PublishStop
    <3>2. QED
      BY <1>0, <2>1, <3>1
  <2>2. CASE ~(y4[t].turn = y2 \/ E!ToPublish)
    <3>1. y15' = [y15 EXCEPT !.turn = E!Later(y15.turn, y2.revision + 1)]
      BY <2>2 DEF E!PublishStop
    <3>2. PICK n \in Nat : n = E!Later(y15.turn, y2.revision + 1)
      BY <1>0 DEF E!Later
    <3>3. y15.turn <= n /\ y2.revision < n
      BY <1>0, <3>2 DEF E!Later
    <3>4. /\ y15' \in [turn : Nat, queue : Nat, end : BOOLEAN]
          /\ y15'.turn = n /\ y15'.queue = y15.queue /\ y15'.end = y15.end
      BY <1>0, <3>1, <3>2
    <3>5. ~(y2.revision >= n)
      BY <1>0, <3>3
    <3>6. QED
      BY <1>6, <3>3, <3>4, <3>5 DEF E!TurnStands
  <2>3. QED
    BY <2>1, <2>2
<1>9. QED
  BY <1>2, <1>4, <1>5, <1>6, <1>7, <1>8, DeliveryConstants

LEMMA BaselineEffect ==
  ASSUME E!TypeOK
  PROVE  /\ E!Baseline(y5) \in E!EventType /\ E!Baseline(y5).kind = "hello" /\ E!Baseline(y5).seq = y5
         /\ E!Baseline(y5).body.turn = y2 /\ E!Baseline(y5).body.queue = y3
         /\ E!Baseline(y5).body = [turn |-> y2, queue |-> y3]
         /\ [turn |-> y2, queue |-> y3] \in E!StateType
<1>0. y5 \in Nat /\ y2 \in E!TurnType /\ y3 \in Nat
  BY DEF E!TypeOK
<1>1. E!Baseline(y5) = [kind |-> "hello", seq |-> y5, body |-> [turn |-> y2, queue |-> y3]]
  BY DEF E!Baseline
<1>2. E!Baseline(y5).body = [turn |-> y2, queue |-> y3] /\ [turn |-> y2, queue |-> y3] \in E!StateType
  BY <1>0, <1>1 DEF E!StateType
<1>3. E!Baseline(y5) \in E!EventType
  <2>1. ASSUME NEW w \in E!StateType PROVE [kind |-> "hello", seq |-> y5, body |-> w] \in E!EventType
    BY <1>0 DEF E!EventType
  <2>2. QED
    BY <1>1, <1>2, <2>1
<1>4. PICK w : w = [turn |-> y2, queue |-> y3]
  OBVIOUS
<1>5. w.turn = y2 /\ w.queue = y3
  BY <1>4
<1>6. E!Baseline(y5).body.turn = y2 /\ E!Baseline(y5).body.queue = y3
  BY <1>2, <1>4, <1>5
<1>7. E!Baseline(y5).kind = "hello" /\ E!Baseline(y5).seq = y5
  BY <1>1
<1>8. QED
  BY <1>2, <1>3, <1>6, <1>7

LEMMA BroadcastEffect ==
  ASSUME E!TypeOK, E!BroadcastBaseline
  PROVE  /\ E!Send(E!Baseline(y5)) /\ y11' \in Nat
         /\ UNCHANGED <<y1, y2, y3, y4, y5, y6, y9, y10, y12, y13, y14, y15>>
<1>1. y11' = y11 + 1 /\ y11 \in Nat
  BY DEF E!BroadcastBaseline, E!NewCommand, E!TypeOK
<1>2. QED
  BY <1>1 DEF E!BroadcastBaseline, E!hostVars, E!pageVars

(* What the page does with the next event. *)
LEMMA ReceiveEffect ==
  ASSUME E!TypeOK, E!Receive
  PROVE  /\ y6.pc = "open" /\ ~y8 /\ y7 # <<>> /\ y7[1] \in E!EventType
         /\ y7' \in Seq(E!EventType) /\ Len(y7') = Len(y7) - 1
         /\ \A i \in 1..(Len(y7) - 1) : y7'[i] = y7[i + 1]
         /\ UNCHANGED <<y1, y2, y3, y4, y5, y8, y11, y12, y13, y15>>
         /\ \/ ~E!IsHello(1) /\ y7[1].seq <= y6.last /\ UNCHANGED <<y6, y9, y10, y14>>
            \/ /\ E!IsHello(1) \/ ~(y7[1].seq <= y6.last)
               /\ y6' \in E!SocketType /\ y6'.pc = "open" /\ y6'.last = y7[1].seq
               /\ y9' \in E!StateType /\ y10' = y7[1].seq
               /\ \/ E!IsHello(1) /\ y9' = y7[1].body /\ y14' = y14
                  \/ /\ ~E!IsHello(1) /\ y14' = (y14 \/ y7[1].seq > y10 + 1)
                     /\ \/ y7[1].kind = "session" /\ y9' = y7[1].body
                        \/ /\ y7[1].kind # "session"
                           /\ y9'.turn = IF E!Newer(y7[1]) THEN y7[1].body.turn ELSE y9.turn
                           /\ y9'.queue = IF y7[1].kind = "queue" THEN y7[1].body.queue ELSE y9.queue
<1>0. /\ y7 \in Seq(E!EventType) /\ y6 \in E!SocketType /\ y9 \in E!StateType
  BY DEF E!TypeOK
<1>1. y6.pc = "open" /\ ~y8 /\ y7 # <<>> /\ y7' = Tail(y7)
      /\ UNCHANGED <<y1, y2, y3, y4, y5, y8, y11, y12, y13, y15>>
  BY DEF E!Receive, E!hostVars
<1>2. PICK e : e = y7[1]
  OBVIOUS
<1>3. e \in E!EventType /\ e = Head(y7)
  BY <1>0, <1>1, <1>2
<1>4. /\ y7' \in Seq(E!EventType) /\ Len(y7') = Len(y7) - 1
      /\ \A i \in 1..(Len(y7) - 1) : y7'[i] = y7[i + 1]
  BY <1>0, <1>1
<1>5. /\ IF e.kind # "hello" /\ e.seq <= y6.last THEN UNCHANGED <<y9, y10, y14>>
         ELSE IF e.kind = "hello" THEN E!Adopt(e) ELSE E!Reduce(e)
      /\ y6' = IF e.kind # "hello" /\ e.seq <= y6.last THEN y6 ELSE [y6 EXCEPT !.last = e.seq]
  BY <1>3 DEF E!Receive, E!pageVars
<1>6. e.seq \in Nat /\ e.body \in E!StateType /\ e.body.turn \in E!TurnType /\ e.body.queue \in Nat
  BY <1>3, EventFields
<1>7. /\ [y6 EXCEPT !.last = e.seq] \in E!SocketType /\ [y6 EXCEPT !.last = e.seq].pc = y6.pc
      /\ [y6 EXCEPT !.last = e.seq].last = e.seq
  BY <1>0, <1>6 DEF E!SocketType
<1>8. CASE e.kind # "hello" /\ e.seq <= y6.last
  BY <1>1, <1>2, <1>3, <1>4, <1>5, <1>8 DEF E!IsHello
<1>9. CASE e.kind = "hello"
  <2>1. y9' = e.body /\ y10' = e.seq /\ y14' = y14
    BY <1>5, <1>9 DEF E!Adopt
  <2>2. QED
    BY <1>1, <1>2, <1>3, <1>4, <1>5, <1>6, <1>7, <1>9, <2>1 DEF E!IsHello
<1>10. CASE e.kind # "hello" /\ ~(e.seq <= y6.last)
  <2>1. /\ y14' = (y14 \/ e.seq > y10 + 1) /\ y10' = e.seq
        /\ y9' = CASE E!Newer(e) -> [y9 EXCEPT !.turn = e.body.turn]
                   [] e.kind = "queue" -> [y9 EXCEPT !.queue = e.body.queue]
                   [] e.kind = "session" -> e.body
                   [] OTHER -> y9
    BY <1>5, <1>10 DEF E!Reduce, E!ShownAfter
  <2>2. E!Newer(e) => e.kind = "turn"
    BY DEF E!Newer
  <2>3. /\ [y9 EXCEPT !.turn = e.body.turn] \in E!StateType
        /\ [y9 EXCEPT !.turn = e.body.turn].turn = e.body.turn
        /\ [y9 EXCEPT !.turn = e.body.turn].queue = y9.queue
        /\ [y9 EXCEPT !.queue = e.body.queue] \in E!StateType
        /\ [y9 EXCEPT !.queue = e.body.queue].turn = y9.turn
        /\ [y9 EXCEPT !.queue = e.body.queue].queue = e.body.queue
    BY <1>0, <1>6 DEF E!StateType
  <2>4. /\ y9' \in E!StateType
        /\ \/ e.kind = "session" /\ y9' = e.body
           \/ /\ e.kind # "session"
              /\ y9'.turn = IF E!Newer(e) THEN e.body.turn ELSE y9.turn
              /\ y9'.queue = IF e.kind = "queue" THEN e.body.queue ELSE y9.queue
    <3>1. CASE E!Newer(e)
      BY <2>1, <2>2, <2>3, <3>1
    <3>2. CASE ~E!Newer(e) /\ e.kind = "queue"
      BY <2>1, <2>2, <2>3, <3>2
    <3>3. CASE ~E!Newer(e) /\ e.kind = "session"
      BY <1>6, <2>1, <3>3
    <3>4. CASE ~E!Newer(e) /\ e.kind \notin {"queue", "session"}
      BY <1>0, <2>1, <2>2, <2>3, <3>4
    <3>5. QED
      BY <3>1, <3>2, <3>3, <3>4
  <2>5. /\ y6' \in E!SocketType /\ y6'.pc = "open" /\ y6'.last = e.seq
    BY <1>1, <1>5, <1>7, <1>10
  <2>6. QED
    BY <1>1, <1>2, <1>3, <1>4, <1>10, <2>1, <2>4, <2>5 DEF E!IsHello
<1>11. QED
  BY <1>8, <1>9, <1>10

(* The steps of the socket that send no event. *)
LEMMA SocketEffect ==
  ASSUME E!TypeOK, E!Subscribe \/ E!ReadBaseline \/ E!SendHello \/ E!Lagged \/ E!Disconnect
  PROVE  /\ UNCHANGED <<y1, y2, y3, y4, y5, y11, y13, y14, y15>> /\ y6' \in E!SocketType /\ y12' \in Nat
         /\ \/ y6.pc = "closed" /\ y6'.pc = "subscribed" /\ y6'.last = 0 /\ y7' = <<>> /\ y8' = FALSE
               /\ UNCHANGED <<y9, y10>>
            \/ y6.pc = "subscribed" /\ y6'.pc = "baseline" /\ y6'.last = y5 /\ UNCHANGED <<y7, y8, y9, y10>>
            \/ y6.pc = "baseline" /\ y6'.pc = "open" /\ y6'.last = y6.last /\ UNCHANGED <<y7, y8>>
               /\ y9' = [turn |-> y2, queue |-> y3] /\ y10' = y6.last
            \/ y6.pc = "open" /\ y6'.pc = "subscribed" /\ y6'.last = y6.last /\ y8' = FALSE
               /\ UNCHANGED <<y7, y9, y10>>
            \/ y6' = E!Closed /\ y7' = <<>> /\ y8' = FALSE /\ y9' = E!NotKnown /\ y10' = 0
<1>0. y6 \in E!SocketType /\ y12 \in Nat /\ y5 \in Nat
  BY DEF E!TypeOK
<1>1. CASE E!Subscribe
  <2>1. [E!Closed EXCEPT !.pc = "subscribed"] = [pc |-> "subscribed", last |-> 0]
    BY DEF E!Closed
  <2>2. y12' = y12 + 1 /\ y6' = [pc |-> "subscribed", last |-> 0] /\ y6.pc = "closed"
        /\ y7' = <<>> /\ y8' = FALSE /\ UNCHANGED <<y1, y2, y3, y4, y5, y11, y13, y14, y15, y9, y10>>
    BY <1>1, <2>1 DEF E!Subscribe, E!hostVars, E!pageVars
  <2>3. y12' \in Nat /\ y6' \in E!SocketType /\ y6'.pc = "subscribed" /\ y6'.last = 0
    BY <1>0, <2>2 DEF E!SocketType
  <2>4. QED
    BY <2>2, <2>3
<1>2. CASE E!ReadBaseline
  BY <1>0, <1>2 DEF E!ReadBaseline, E!hostVars, E!pageVars, E!SocketType
<1>3. CASE E!SendHello
  <2>1. E!Baseline(y6.last).body = [turn |-> y2, queue |-> y3] /\ E!Baseline(y6.last).seq = y6.last
    BY DEF E!Baseline
  <2>2. QED
    BY <1>0, <1>3, <2>1 DEF E!SendHello, E!Adopt, E!SubscribedFirst, E!hostVars, E!SocketType
<1>4. CASE E!Lagged
  BY <1>0, <1>4 DEF E!Lagged, E!hostVars, E!pageVars, E!SocketType
<1>5. CASE E!Disconnect
  BY <1>0, <1>5, DeliveryConstants DEF E!Disconnect, E!hostVars
<1>6. QED
  BY <1>1, <1>2, <1>3, <1>4, <1>5

LEMMA DeliveryTypes == E!TypeOK /\ [E!Next]_E!vars => E!TypeOK'
<1>. SUFFICES ASSUME E!TypeOK, [E!Next]_E!vars PROVE E!TypeOK'
  OBVIOUS
<1>1. ASSUME NEW t \in Threads,
             E!TakeProjection(t) \/ E!Apply(t) \/ E!ChangeQueue(t) \/ E!Stop(t) \/ E!ReadQueue(t)
      PROVE  E!TypeOK'
  <2>1. y3 \in Nat /\ y3 + 1 \in Nat
    BY DEF E!TypeOK
  <2>2. y1' \in 0..E!Projections /\ y2' \in E!TurnType /\ y3' \in Nat
    BY <1>1, <2>1, HostEffect DEF E!TypeOK
  <2>3. /\ UNCHANGED <<y5, y6, y7, y8, y9, y10, y12, y13, y14, y15>> /\ y11' \in Nat
        /\ y4' \in [Threads -> E!ThreadType]
    BY <1>1, HostEffect
  <2>4. QED
    BY <2>2, <2>3 DEF E!TypeOK
<1>2. ASSUME NEW t \in Threads, E!PublishTurn(t) \/ E!PublishQueue(t) PROVE E!TypeOK'
  <2>1. PICK e \in E!EventType :
           /\ y5' = y5 + 1 /\ E!Send(e)
           /\ UNCHANGED <<y1, y2, y3, y6, y9, y10, y11, y12, y14, y15>>
           /\ y4' \in [Threads -> E!ThreadType] /\ (y13' = y13 \/ y13' = y4[t].queue)
    BY <1>2, PublishEffect
  <2>2. y7' \in Seq(E!EventType) /\ y8' \in BOOLEAN
    BY <2>1, SendEffect DEF E!TypeOK
  <2>3. y13' \in Nat /\ y5' \in Nat
    BY <2>1, ThreadFields DEF E!TypeOK
  <2>4. QED
    BY <2>1, <2>2, <2>3 DEF E!TypeOK
<1>3. CASE E!BroadcastBaseline
  <2>1. y7' \in Seq(E!EventType) /\ y8' \in BOOLEAN
    BY <1>3, BroadcastEffect, BaselineEffect, SendEffect
  <2>2. QED
    BY <1>3, <2>1, BroadcastEffect DEF E!TypeOK
<1>4. CASE E!Receive
  <2>1. /\ y7' \in Seq(E!EventType) /\ UNCHANGED <<y1, y2, y3, y4, y5, y8, y11, y12, y13, y15>>
    BY <1>4, ReceiveEffect
  <2>2. y7[1].seq \in Nat
    BY <1>4, ReceiveEffect, EventFields
  <2>3. y6' \in E!SocketType /\ y9' \in E!StateType /\ y10' \in Nat
    BY <1>4, <2>2, ReceiveEffect DEF E!TypeOK
  <2>4. y14' \in BOOLEAN
    <3>1. y14' = y14 \/ y14' = (y14 \/ y7[1].seq > y10 + 1)
      BY <1>4, ReceiveEffect
    <3>2. QED
      BY <3>1, Zenon DEF E!TypeOK
  <2>5. QED
    BY <2>1, <2>3, <2>4 DEF E!TypeOK
<1>5. CASE E!Subscribe \/ E!ReadBaseline \/ E!SendHello \/ E!Lagged \/ E!Disconnect
  <2>1. /\ UNCHANGED <<y1, y2, y3, y4, y5, y11, y13, y14, y15>> /\ y6' \in E!SocketType /\ y12' \in Nat
    BY <1>5, SocketEffect
  <2>2. /\ y7' = y7 \/ y7' = <<>>
        /\ y8' = y8 \/ y8' = FALSE
        /\ y9' = y9 \/ y9' = [turn |-> y2, queue |-> y3] \/ y9' = E!NotKnown
        /\ y10' = y10 \/ y10' = y6.last \/ y10' = 0
    BY <1>5, SocketEffect
  <2>3. [turn |-> y2, queue |-> y3] \in E!StateType /\ E!NotKnown \in E!StateType /\ y6.last \in Nat
    BY BaselineEffect, DeliveryConstants DEF E!TypeOK, E!SocketType
  <2>4. y7' \in Seq(E!EventType) /\ y9' \in E!StateType /\ y10' \in Nat
    <3>1. y7 \in Seq(E!EventType) /\ y9 \in E!StateType /\ y10 \in Nat /\ <<>> \in Seq(E!EventType)
      BY DEF E!TypeOK
    <3>2. y7' \in Seq(E!EventType)
      BY <2>2, <3>1, Zenon
    <3>3. y9' \in E!StateType
      BY <2>2, <2>3, <3>1, Zenon
    <3>4. y10' \in Nat
      BY <2>2, <2>3, <3>1
    <3>5. QED
      BY <3>2, <3>3, <3>4
  <2>5. y8' \in BOOLEAN
    BY <2>2 DEF E!TypeOK
  <2>6. QED
    BY <2>1, <2>4, <2>5 DEF E!TypeOK
<1>6. ASSUME NEW t \in Threads, E!PutBack(t) PROVE E!TypeOK'
  BY <1>6, PutBackEffect DEF E!TypeOK
<1>7. ASSUME NEW t \in Threads, E!PublishStop(t) PROVE E!TypeOK'
  <2>1. PICK e \in E!EventType :
           /\ y5' = y5 + 1 /\ E!Send(e)
           /\ UNCHANGED <<y1, y2, y3, y6, y9, y10, y11, y12, y14>>
           /\ y4' \in [Threads -> E!ThreadType] /\ y13' = y4[t].queue
           /\ y15' \in [turn : Nat, queue : Nat, end : BOOLEAN]
    BY <1>7, PublishStopEffect
  <2>2. y7' \in Seq(E!EventType) /\ y8' \in BOOLEAN
    BY <2>1, SendEffect DEF E!TypeOK
  <2>3. y13' \in Nat /\ y5' \in Nat
    BY <2>1, ThreadFields DEF E!TypeOK
  <2>4. QED
    BY <2>1, <2>2, <2>3 DEF E!TypeOK
<1>8. CASE UNCHANGED E!vars
  BY <1>8 DEF E!TypeOK, E!vars
<1>9. QED
  BY <1>1, <1>2, <1>3, <1>4, <1>5, <1>6, <1>7, <1>8 DEF E!Next

(* Of the last turn only its end is not refused, and nothing after it.     *)
LEMMA EndIsNotStale ==
  ASSUME NEW n \in Nat, NEW p \in 0..(3 * n)
  PROVE  /\ ((p + 2) \div 3 = (3 * n + 2) \div 3 /\ p % 3 = 0) => p = 3 * n
         /\ (p + 2) \div 3 <= (3 * n + 2) \div 3
         /\ (3 * n) % 3 = 0
         /\ ~((3 * n + 2) \div 3 < (p + 2) \div 3)
<1>1. (3 * n) % 3 = 0 /\ (3 * n + 2) \div 3 = n
  OBVIOUS
<1>2. PICK q \in Nat, r \in 0..2 : p + 2 = 3 * q + r
  <2>1. p + 2 = 3 * ((p + 2) \div 3) + ((p + 2) % 3) /\ (p + 2) % 3 \in 0..2 /\ (p + 2) \div 3 \in Nat
    OBVIOUS
  <2>2. QED
    BY <2>1
<1>3. (p + 2) \div 3 = q
  BY <1>2
<1>4. q <= n
  BY <1>2
<1>5. q = n /\ p % 3 = 0 => p = 3 * n
  BY <1>2
<1>6. QED
  BY <1>1, <1>3, <1>4, <1>5

LEMMA LastIsNotRefused ==
  ASSUME E!TypeOK
  PROVE  /\ E!Stale(E!Projections) => y2.of = E!Projections
         /\ \A p \in 0..E!Projections :
               y2.of = E!Projections => p = E!Projections \/ E!Stale(p)
<1>1. y2.of \in 0..(3 * Turns) /\ Turns \in Nat
  BY DeliveryAssumption DEF E!TypeOK, E!TurnType, E!Projections
<1>2. ASSUME NEW p \in 0..(3 * Turns)
      PROVE  /\ ((p + 2) \div 3 = (3 * Turns + 2) \div 3 /\ p % 3 = 0) => p = 3 * Turns
             /\ (p + 2) \div 3 <= (3 * Turns + 2) \div 3
             /\ (3 * Turns) % 3 = 0
             /\ (p + 2) \div 3 \in Nat /\ (3 * Turns + 2) \div 3 \in Nat
  <2>1. (p + 2) \div 3 \in Nat /\ (3 * Turns + 2) \div 3 \in Nat
    BY <1>1
  <2>2. QED
    BY <1>1, <2>1, EndIsNotStale
<1>3. E!Stale(E!Projections) => y2.of = E!Projections
  <2>. SUFFICES ASSUME E!Stale(E!Projections) PROVE y2.of = E!Projections
    OBVIOUS
  <2>1. \/ (3 * Turns + 2) \div 3 < (y2.of + 2) \div 3
        \/ (3 * Turns + 2) \div 3 = (y2.of + 2) \div 3 /\ y2.of % 3 = 0
    BY DEF E!Stale, E!Epoch, E!IsFinished, E!Projections
  <2>2. QED
    BY <1>1, <1>2, <2>1 DEF E!Projections
<1>4. ASSUME NEW p \in 0..E!Projections, y2.of = E!Projections, p # E!Projections
      PROVE  E!Stale(p)
  <2>1. p \in 0..(3 * Turns) /\ y2.of = 3 * Turns /\ 3 * Turns # 0
    BY <1>1, <1>4 DEF E!Projections
  <2>2. \/ (p + 2) \div 3 < (3 * Turns + 2) \div 3
        \/ (p + 2) \div 3 = (3 * Turns + 2) \div 3 /\ (3 * Turns) % 3 = 0
    BY <1>2, <2>1
  <2>3. QED
    BY <2>1, <2>2 DEF E!Stale, E!Epoch, E!IsFinished
<1>5. QED
  BY <1>3, <1>4

LEMMA VersionFields ==
  ASSUME E!TypeOK
  PROVE  /\ y2.revision \in Nat /\ y9.turn.revision \in Nat
         /\ \A t \in Threads : y4[t].turn.revision \in Nat
         /\ \A i \in DOMAIN y7 : /\ y7[i] \in E!EventType /\ y7[i].seq \in Nat
                                 /\ y7[i].body.turn.revision \in Nat /\ y7[i].body.queue \in Nat
         /\ DOMAIN y7 = 1..Len(y7) /\ Len(y7) \in Nat
         /\ y6.last \in Nat /\ y5 \in Nat /\ y3 \in Nat /\ y13 \in Nat /\ y9.queue \in Nat
         /\ y15.turn \in Nat /\ y15.queue \in Nat
<1>1. y2.revision \in Nat /\ y9.turn.revision \in Nat /\ y9.queue \in Nat
  BY DEF E!TypeOK, E!TurnType, E!StateType
<1>2. \A t \in Threads : y4[t].turn.revision \in Nat
  BY ThreadFields DEF E!TurnType
<1>3. y7 \in Seq(E!EventType)
  BY DEF E!TypeOK
<1>4. \A i \in DOMAIN y7 : y7[i] \in E!EventType
  BY <1>3
<1>5. DOMAIN y7 = 1..Len(y7) /\ Len(y7) \in Nat
  BY <1>3
<1>6. /\ y6.last \in Nat /\ y5 \in Nat /\ y3 \in Nat /\ y13 \in Nat
      /\ y15.turn \in Nat /\ y15.queue \in Nat
  BY DEF E!TypeOK, E!SocketType
<1>7. QED
  BY <1>1, <1>2, <1>4, <1>5, <1>6, EventFields

(* What a version, and a reading of the queue, are after the step. *)
StillVersion(v) ==
  /\ v.revision <= y2'.revision \/ v.revision < y15'.turn
  /\ E!TurnStands' /\ v.revision = y2'.revision => v = y2'

StillNoted(n) == n <= y3' \/ n < y15'.queue

LEMMA VersionsStay ==
  ASSUME E!TypeOK, E!TypeOK', TurnMoves
  PROVE  /\ \A v : v.revision \in Nat /\ E!Version(v) => StillVersion(v)
         /\ StillVersion(y2) /\ StillVersion(y2')
         /\ y2' = y2 /\ E!TurnStands' => E!TurnStands
<1>1. y2.revision \in Nat /\ y15.turn \in Nat /\ y2'.revision \in Nat /\ y15'.turn \in Nat
  BY DEF E!TypeOK, E!TurnType
<1>2. /\ y15.turn <= y15'.turn
      /\ \/ y2' = y2
         \/ y2'.revision = y2.revision + 1 /\ y15'.turn = y15.turn
         \/ y2.revision < y15'.turn /\ ~E!TurnStands'
  BY DEF TurnMoves
<1>3. E!TurnStands' => y2'.revision >= y15'.turn
  BY DEF E!TurnStands
<1>4. ASSUME NEW v, v.revision \in Nat, E!Version(v) PROVE StillVersion(v)
  <2>0. /\ v.revision <= y2.revision \/ v.revision < y15.turn
        /\ E!TurnStands /\ v.revision = y2.revision => v = y2
    BY <1>4 DEF E!Version
  <2>1. CASE y2' = y2
    <3>1. v.revision <= y2.revision \/ v.revision < y15'.turn
      BY <1>1, <1>2, <1>4, <2>0
    <3>2. E!TurnStands' => E!TurnStands
      BY <1>1, <1>2, <2>1 DEF E!TurnStands
    <3>3. QED
      BY <2>0, <2>1, <3>1, <3>2 DEF StillVersion
  <2>2. CASE y2'.revision = y2.revision + 1 /\ y15'.turn = y15.turn
    <3>1. v.revision <= y2'.revision \/ v.revision < y15'.turn
      BY <1>1, <1>4, <2>0, <2>2
    <3>2. ~(E!TurnStands' /\ v.revision = y2'.revision)
      BY <1>1, <1>3, <1>4, <2>0, <2>2
    <3>3. QED
      BY <3>1, <3>2 DEF StillVersion
  <2>3. CASE y2.revision < y15'.turn /\ ~E!TurnStands'
    <3>1. v.revision < y15'.turn
      BY <1>1, <1>2, <1>4, <2>0, <2>3
    <3>2. QED
      BY <2>3, <3>1 DEF StillVersion
  <2>4. QED
    BY <1>2, <2>1, <2>2, <2>3
<1>5. E!Version(y2)
  BY <1>1 DEF E!Version
<1>6. StillVersion(y2')
  BY <1>1 DEF StillVersion
<1>7. y2' = y2 /\ E!TurnStands' => E!TurnStands
  BY <1>1, <1>2 DEF E!TurnStands
<1>8. QED
  BY <1>1, <1>4, <1>5, <1>6, <1>7

LEMMA ReadingsStay ==
  ASSUME E!TypeOK, E!TypeOK', QueueMoves
  PROVE  /\ \A n \in Nat : E!QueueNoted(n) => StillNoted(n)
         /\ StillNoted(y3)
         /\ E!QueueNoted(y13) /\ y13' = y13 /\ E!QueueStands' => y3' = y3 /\ E!QueueStands
<1>1. y3 \in Nat /\ y15.queue \in Nat /\ y3' \in Nat /\ y15'.queue \in Nat /\ y13 \in Nat
  BY DEF E!TypeOK
<1>2. /\ y15.queue <= y15'.queue
      /\ \/ y3' = y3
         \/ y3' = y3 + 1 /\ y15'.queue = y15.queue
         \/ y3 < y15'.queue /\ y3' < y15'.queue
  BY DEF QueueMoves
<1>3. ASSUME NEW n \in Nat, E!QueueNoted(n) PROVE StillNoted(n)
  BY <1>1, <1>2, <1>3 DEF E!QueueNoted, StillNoted
<1>4. E!QueueNoted(y3)
  BY <1>1 DEF E!QueueNoted
<1>5. ASSUME E!QueueNoted(y13), y13' = y13, E!QueueStands' PROVE y3' = y3 /\ E!QueueStands
  <2>1. y3' >= y15'.queue /\ y13 = y3'
    BY <1>5 DEF E!QueueStands
  <2>2. y13 <= y3 \/ y13 < y15.queue
    BY <1>5 DEF E!QueueNoted
  <2>3. y3' = y3
    BY <1>1, <1>2, <2>1, <2>2
  <2>4. QED
    BY <1>1, <1>2, <2>1, <2>3 DEF E!QueueStands
<1>6. QED
  BY <1>1, <1>3, <1>4, <1>5

(* A step of a thread that publishes nothing. *)
HostStep(t) ==
  /\ UNCHANGED <<y5, y6, y7, y8, y9, y10, y13, y14>>
  /\ \A x \in Threads \ {t} : y4'[x] = y4[x]
  /\ TurnMoves /\ QueueMoves
  /\ y4[t].pc # "publish turn"
  /\ y2' = y2 \/ ~E!TurnStands' \/ (y4'[t].pc = "publish turn" /\ y4'[t].turn = y2')
  /\ y4'[t].pc \in {"publish turn", "saves", "stops"} => y4'[t].turn \in {y2, y2'}
  /\ y4'[t].pc \in {"publish queue", "saves", "stops"} => y4'[t].queue = y3

LEMMA HostKeepsVersions ==
  ASSUME E!DeliveryInv, E!TypeOK', NEW t \in Threads, HostStep(t)
  PROVE  E!Versions'
<1>0. E!TypeOK /\ E!Versions
  BY DEF E!DeliveryInv
<1>1. UNCHANGED <<y7, y9>> /\ TurnMoves /\ \A x \in Threads \ {t} : y4'[x] = y4[x]
  BY DEF HostStep
<1>2. /\ \A v : v.revision \in Nat /\ E!Version(v) => StillVersion(v)
      /\ StillVersion(y2) /\ StillVersion(y2')
  BY <1>0, <1>1, VersionsStay
<1>3. E!Version(E!Nothing)' /\ E!Version(y9.turn)'
  <2>1. E!Nothing.revision \in Nat /\ y9.turn.revision \in Nat
    BY <1>0, DeliveryConstants, VersionFields
  <2>2. StillVersion(E!Nothing) /\ StillVersion(y9.turn)
    BY <1>0, <1>2, <2>1 DEF E!Versions
  <2>3. QED
    BY <1>1, <2>2 DEF E!Version, StillVersion
<1>4. ASSUME NEW x \in Threads, y4'[x].pc \in {"publish turn", "saves", "stops"}
      PROVE  E!Version(y4[x].turn)'
  <2>1. StillVersion(y4'[x].turn)
    <3>1. CASE x = t
      <4>1. y4'[t].turn = y2 \/ y4'[t].turn = y2'
        BY <1>4, <3>1 DEF HostStep
      <4>2. QED
        BY <1>2, <3>1, <4>1
    <3>2. CASE x # t
      <4>1. y4'[x] = y4[x]
        BY <1>1, <3>2
      <4>2. y4[x].turn.revision \in Nat /\ E!Version(y4[x].turn)
        BY <1>0, <1>4, <4>1, VersionFields DEF E!Versions, E!HasCopy
      <4>3. QED
        BY <1>2, <4>1, <4>2
    <3>3. QED
      BY <3>1, <3>2
  <2>2. QED
    BY <2>1 DEF E!Version, StillVersion
<1>5. ASSUME NEW i \in DOMAIN y7, y7[i].kind # "queue" PROVE E!Version(y7[i].body.turn)'
  <2>1. y7[i].body.turn.revision \in Nat /\ E!Version(y7[i].body.turn)
    BY <1>0, <1>5, VersionFields DEF E!Versions
  <2>2. StillVersion(y7[i].body.turn)
    BY <1>2, <2>1
  <2>3. QED
    BY <1>1, <2>2 DEF E!Version, StillVersion
<1>6. QED
  BY <1>1, <1>3, <1>4, <1>5 DEF E!Versions, E!HasCopy

LEMMA HostKeepsTurn ==
  ASSUME E!DeliveryInv, E!TypeOK', NEW t \in Threads, HostStep(t)
  PROVE  E!TurnComes'
<1>0. E!TypeOK /\ E!TurnComes /\ UNCHANGED <<y6, y7, y8, y9>> /\ TurnMoves /\ y4[t].pc # "publish turn"
      /\ \A x \in Threads \ {t} : y4'[x] = y4[x]
  BY DEF E!DeliveryInv, HostStep
<1>1. CASE y2' = y2
  <2>1. E!ToPublish => E!ToPublish'
    BY <1>0, <1>1 DEF E!ToPublish
  <2>2. \A i \in DOMAIN y7 : /\ E!Carries(i)' <=> E!Carries(i)
                             /\ E!IsHello(i)' <=> E!IsHello(i)
                             /\ E!Replaces(i)' <=> E!Replaces(i)
    BY <1>0, <1>1 DEF E!Carries, E!IsHello, E!Replaces
  <2>3. E!TurnStands' => E!TurnStands
    BY <1>0, <1>1, VersionsStay
  <2>4. QED
    BY <1>0, <1>1, <2>1, <2>2, <2>3 DEF E!TurnComes
<1>2. CASE ~E!TurnStands'
  BY <1>2 DEF E!TurnComes
<1>3. CASE y4'[t].pc = "publish turn" /\ y4'[t].turn = y2'
  <2>1. E!ToPublish'
    BY <1>3 DEF E!ToPublish
  <2>2. QED
    BY <2>1 DEF E!TurnComes
<1>4. QED
  BY <1>1, <1>2, <1>3 DEF HostStep

LEMMA HostKeepsQueue ==
  ASSUME E!DeliveryInv, E!TypeOK', NEW t \in Threads, HostStep(t)
  PROVE  E!QueueComes'
<1>0. E!TypeOK /\ E!QueueComes /\ UNCHANGED <<y6, y7, y8, y9, y13>> /\ QueueMoves
      /\ \A x \in Threads \ {t} : y4'[x] = y4[x]
  BY DEF E!DeliveryInv, HostStep
<1>1. /\ \A n \in Nat : E!QueueNoted(n) => StillNoted(n)
      /\ StillNoted(y3)
      /\ E!QueueNoted(y13) /\ y13' = y13 /\ E!QueueStands' => y3' = y3 /\ E!QueueStands
  BY <1>0, ReadingsStay
<1>2. E!QueueNoted(y13) /\ y13 \in Nat
  BY <1>0, VersionFields DEF E!QueueComes
<1>3. E!QueueStands' => y3' = y3 /\ E!QueueStands
  BY <1>0, <1>1, <1>2
<1>4. E!QueueNoted(y13)'
  <2>1. StillNoted(y13)
    BY <1>1, <1>2
  <2>2. QED
    BY <1>0, <2>1 DEF E!QueueNoted, StillNoted
<1>5. ASSUME NEW x \in Threads, y4'[x].pc \in {"publish queue", "saves", "stops"}
      PROVE  E!QueueNoted(y4[x].queue)'
  <2>1. StillNoted(y4'[x].queue)
    <3>1. CASE x = t
      <4>1. y4'[t].queue = y3
        BY <1>5, <3>1 DEF HostStep
      <4>2. QED
        BY <1>1, <3>1, <4>1
    <3>2. CASE x # t
      <4>1. y4'[x] = y4[x]
        BY <1>0, <3>2
      <4>2. y4[x].queue \in Nat /\ E!QueueNoted(y4[x].queue)
        BY <1>0, <1>5, <4>1, ThreadFields DEF E!QueueComes, E!HasCopy
      <4>3. QED
        BY <1>1, <4>1, <4>2
    <3>3. QED
      BY <3>1, <3>2
  <2>2. QED
    BY <2>1 DEF E!QueueNoted, StillNoted
<1>6. \A i \in DOMAIN y7 : /\ E!LastOfQueue(i)' <=> E!LastOfQueue(i)
                           /\ E!ToldOfQueue(i)' <=> E!ToldOfQueue(i)
                           /\ E!IsHello(i)' <=> E!IsHello(i)
  BY <1>0 DEF E!LastOfQueue, E!ToldOfQueue, E!IsHello
<1>7. QED
  BY <1>0, <1>3, <1>4, <1>5, <1>6 DEF E!QueueComes, E!HasCopy

(* The steps of a thread that publish nothing. *)
LEMMA HostKeepsDelivery ==
  ASSUME E!DeliveryInv, E!TypeOK', NEW t \in Threads, HostStep(t), E!EndComes'
  PROVE  E!DeliveryInv'
<1>1. UNCHANGED <<y5, y6, y7, y8, y9, y10, y14>>
  BY DEF HostStep
<1>2. E!NoEventIsMissing' /\ E!Numbered' /\ E!GoesOn'
  BY <1>1 DEF E!DeliveryInv, E!NoEventIsMissing, E!Numbered, E!GoesOn, E!IsHello
<1>3. QED
  BY <1>2, HostKeepsVersions, HostKeepsTurn, HostKeepsQueue DEF E!DeliveryInv

LEMMA ThreadKeepsDelivery ==
  ASSUME E!DeliveryInv, E!TypeOK', NEW t \in Threads,
         E!TakeProjection(t) \/ E!Apply(t) \/ E!ChangeQueue(t) \/ E!Stop(t) \/ E!ReadQueue(t)
  PROVE  E!DeliveryInv'
<1>0. E!TypeOK /\ E!EndComes
  BY DEF E!DeliveryInv
<1>1. /\ UNCHANGED <<y5, y6, y7, y8, y9, y10, y13, y14, y15>>
      /\ \A x \in Threads \ {t} : y4'[x] = y4[x]
  BY <1>0, HostEffect
<1>2. /\ y3' \in {y3, y3 + 1} /\ y4[t].pc # "publish turn"
      /\ \/ y2' = y2 /\ y4'[t].pc # "publish turn"
         \/ y2'.revision = y2.revision + 1 /\ y4'[t].pc = "publish turn" /\ y4'[t].turn = y2'
      /\ y4'[t].pc \in {"saves", "stops"} => y4'[t].turn = y2
      /\ y4'[t].pc \in {"publish queue", "saves", "stops"} => y4'[t].queue = y3
  BY <1>0, HostEffect
<1>3. TurnMoves /\ QueueMoves
  <2>1. y15.turn \in Nat /\ y15.queue \in Nat
    BY <1>0, VersionFields
  <2>2. y15.turn <= y15'.turn /\ y15.queue <= y15'.queue /\ y15' = y15
    BY <1>1, <2>1
  <2>3. QED
    BY <1>2, <2>2 DEF TurnMoves, QueueMoves
<1>4. HostStep(t)
  BY <1>1, <1>2, <1>3 DEF HostStep
<1>5. E!EndComes'
  <2>1. CASE y1 # E!Projections /\ y4'[t].pc = "apply" /\ y4'[t].of = y1'
    BY <2>1 DEF E!EndComes
  <2>2. CASE /\ y1' = y1 /\ y4[t].pc = "apply" /\ y2' = y2
             /\ y2.of = y4[t].of \/ E!Stale(y4[t].of)
    BY <1>0, <1>1, <2>2, LastIsNotRefused DEF E!EndComes
  <2>3. CASE /\ y1' = y1 /\ y4[t].pc = "apply" /\ y2'.of = y4[t].of
             /\ y2.of # y4[t].of /\ ~E!Stale(y4[t].of)
    BY <1>0, <1>1, <2>3, LastIsNotRefused, ThreadFields DEF E!EndComes
  <2>4. CASE y1' = y1 /\ y2' = y2 /\ y4[t].pc # "apply"
    BY <1>0, <1>1, <2>4 DEF E!EndComes
  <2>5. QED
    BY <1>0, <2>1, <2>2, <2>3, <2>4, HostEffect
<1>6. QED
  BY <1>4, <1>5, HostKeepsDelivery

LEMMA PutBackKeepsDelivery ==
  ASSUME E!DeliveryInv, E!TypeOK', NEW t \in Threads, E!PutBack(t)
  PROVE  E!DeliveryInv'
<1>0. E!TypeOK /\ E!Versions /\ E!QueueComes /\ E!EndComes
  BY DEF E!DeliveryInv
<1>1. /\ UNCHANGED <<y1, y5, y6, y7, y8, y9, y10, y13, y14>>
      /\ \A x \in Threads \ {t} : y4'[x] = y4[x]
      /\ y4[t].pc \in {"saves", "stops"} /\ y4'[t].pc = "idle"
      /\ ~y15'.end => ~y15.end /\ (y2.of = E!Projections => y2'.of = E!Projections)
  BY <1>0, PutBackEffect DEF E!HasCopy
<1>2. E!Version(y4[t].turn) /\ E!QueueNoted(y4[t].queue)
  BY <1>0, <1>1 DEF E!Versions, E!QueueComes, E!HasCopy
<1>3. TurnMoves /\ QueueMoves
  BY <1>0, <1>2, PutBackTurn, PutBackQueue
<1>4. y2' = y2 \/ ~E!TurnStands'
  <2>1. CASE y2' = y2
    BY <2>1
  <2>2. CASE y2' # y2
    <3>1. y2' = y4[t].turn /\ y15'.turn = E!Later(y15.turn, y2.revision + 1)
      BY <2>2 DEF E!PutBack
    <3>2. y15.turn \in Nat /\ y2.revision \in Nat /\ y2'.revision \in Nat
      BY <1>0, <3>1, VersionFields
    <3>3. y2'.revision <= y2.revision \/ y2'.revision < y15.turn
      BY <1>2, <3>1 DEF E!Version
    <3>4. ~(y2'.revision >= y15'.turn)
      BY <3>1, <3>2, <3>3 DEF E!Later
    <3>5. QED
      BY <3>4 DEF E!TurnStands
  <2>3. QED
    BY <2>1, <2>2
<1>5. HostStep(t)
  BY <1>1, <1>3, <1>4 DEF HostStep
<1>6. E!EndComes'
  BY <1>0, <1>1 DEF E!EndComes
<1>7. QED
  BY <1>5, <1>6, HostKeepsDelivery

(* What is sent: an event with the next number, or a baseline with the     *)
(* number of the last event.                                               *)
Sends(e) ==
  /\ e \in E!EventType /\ E!Send(e)
  /\ UNCHANGED <<y1, y2, y3, y6, y9, y10, y14>>
  /\ y15.turn <= y15'.turn /\ y15'.queue = y15.queue /\ y15'.end = y15.end
  /\ e.kind = "hello" => y5' = y5 /\ e.seq = y5 /\ e.body.turn = y2 /\ e.body.queue = y3
  /\ e.kind # "hello" => y5' = y5 + 1 /\ e.seq = y5 + 1
  /\ e.kind \in {"turn", "session"} =>
        \E x \in Threads : y4[x].pc \in {"publish turn", "stops"} /\ e.body.turn = y4[x].turn
  /\ e.kind = "session" => e.body.turn = y2 \/ E!ToPublish \/ ~E!TurnStands'
  /\ e.kind \in {"queue", "session"} =>
        /\ \E x \in Threads : y4[x].pc \in {"publish queue", "stops"} /\ e.body.queue = y4[x].queue
        /\ y13' = e.body.queue
  /\ e.kind \notin {"queue", "session"} => y13' = y13
  /\ \A x \in Threads :
        /\ y4'[x].pc \in {"publish turn", "publish queue", "saves", "stops"} => y4'[x] = y4[x]
        /\ y4[x].pc = "apply" => y4'[x] = y4[x]
        /\ y4[x].pc = "publish turn" => y4'[x] = y4[x] \/ (e.kind = "turn" /\ e.body.turn = y4[x].turn)

LEMMA SendersSend ==
  ASSUME E!TypeOK,
         \/ \E t \in Threads : E!PublishTurn(t) \/ E!PublishQueue(t) \/ E!PublishStop(t)
         \/ E!BroadcastBaseline
  PROVE  \E e \in E!EventType : Sends(e)
<1>0. y15.turn \in Nat /\ y15.turn <= y15.turn
  BY VersionFields
<1>1. ASSUME NEW t \in Threads, E!PublishTurn(t) \/ E!PublishQueue(t)
      PROVE  \E e \in E!EventType : Sends(e)
  <2>1. PICK e \in E!EventType :
           /\ y5' = y5 + 1 /\ e.seq = y5 + 1 /\ E!Send(e)
           /\ UNCHANGED <<y1, y2, y3, y6, y9, y10, y11, y12, y14, y15>>
           /\ y4' \in [Threads -> E!ThreadType] /\ \A x \in Threads \ {t} : y4'[x] = y4[x]
           /\ y4'[t].pc \in {"idle", "read queue"}
           /\ \/ /\ y4[t].pc = "publish turn" /\ y13' = y13
                 /\ e.kind = "turn" /\ e.body.turn = y4[t].turn
              \/ /\ y4[t].pc = "publish queue" /\ y13' = y4[t].queue
                 /\ e.kind = "queue" /\ e.body.queue = y4[t].queue
    BY <1>1, PublishEffect
  <2>2. ASSUME NEW x \in Threads
        PROVE  /\ y4'[x].pc \in {"publish turn", "publish queue", "saves", "stops"} => y4'[x] = y4[x]
               /\ y4[x].pc = "apply" => y4'[x] = y4[x]
               /\ y4[x].pc = "publish turn" => y4'[x] = y4[x] \/ (e.kind = "turn" /\ e.body.turn = y4[x].turn)
    <3>1. CASE x = t
      BY <2>1, <3>1
    <3>2. CASE x # t
      BY <2>1, <3>2
    <3>3. QED
      BY <3>1, <3>2
  <2>3. Sends(e)
    BY <1>0, <2>1, <2>2 DEF Sends
  <2>4. QED
    BY <2>3
<1>2. ASSUME NEW t \in Threads, E!PublishStop(t)
      PROVE  \E e \in E!EventType : Sends(e)
  <2>1. PICK e \in E!EventType :
           /\ y5' = y5 + 1 /\ e.seq = y5 + 1 /\ E!Send(e)
           /\ UNCHANGED <<y1, y2, y3, y6, y9, y10, y11, y12, y14>>
           /\ y4' \in [Threads -> E!ThreadType] /\ \A x \in Threads \ {t} : y4'[x] = y4[x]
           /\ y4[t].pc = "stops" /\ y4'[t].pc = "idle"
           /\ e.kind = "session" /\ e.body.turn = y4[t].turn /\ e.body.queue = y4[t].queue
           /\ y13' = y4[t].queue
           /\ y15' \in [turn : Nat, queue : Nat, end : BOOLEAN]
           /\ y15.turn <= y15'.turn /\ y15'.queue = y15.queue /\ y15'.end = y15.end
           /\ y4[t].turn = y2 \/ E!ToPublish \/ ~E!TurnStands'
    BY <1>2, PublishStopEffect
  <2>2. ASSUME NEW x \in Threads
        PROVE  /\ y4'[x].pc \in {"publish turn", "publish queue", "saves", "stops"} => y4'[x] = y4[x]
               /\ y4[x].pc \in {"apply", "publish turn"} => y4'[x] = y4[x]
    <3>1. CASE x = t
      BY <2>1, <3>1
    <3>2. CASE x # t
      BY <2>1, <3>2
    <3>3. QED
      BY <3>1, <3>2
  <2>3. Sends(e)
    BY <2>1, <2>2 DEF Sends
  <2>4. QED
    BY <2>3
<1>3. CASE E!BroadcastBaseline
  <2>1. PICK e : e = E!Baseline(y5)
    OBVIOUS
  <2>2. /\ e \in E!EventType /\ e.kind = "hello" /\ e.seq = y5
        /\ e.body.turn = y2 /\ e.body.queue = y3 /\ E!Send(e)
    BY <1>3, <2>1, BaselineEffect, BroadcastEffect
  <2>3. UNCHANGED <<y1, y2, y3, y4, y5, y6, y9, y10, y12, y13, y14, y15>>
    BY <1>3, BroadcastEffect
  <2>4. Sends(e)
    BY <1>0, <2>2, <2>3 DEF Sends
  <2>5. QED
    BY <2>2, <2>4
<1>4. QED
  BY <1>1, <1>2, <1>3

(* A sent event leaves the turn, and its versions, as they are. *)
LEMMA SendMoves ==
  ASSUME E!TypeOK, NEW e \in E!EventType, Sends(e)
  PROVE  TurnMoves /\ QueueMoves
<1>1. y15.turn \in Nat /\ y15.queue \in Nat
  BY VersionFields
<1>2. y2' = y2 /\ y3' = y3 /\ y15.turn <= y15'.turn /\ y15'.queue = y15.queue
  BY DEF Sends
<1>3. y15.queue <= y15'.queue
  BY <1>1, <1>2
<1>4. QED
  BY <1>2, <1>3 DEF TurnMoves, QueueMoves

(* The event is the last in the receiver, after those that are kept. *)
LEMMA PlacesKept ==
  ASSUME E!TypeOK, NEW e \in E!EventType, E!Send(e), y6.pc # "closed"
  PROVE  \E k \in {0, 1}, n \in Nat :
            /\ Len(y7') = n + 1 /\ Len(y7) = n + k /\ DOMAIN y7' = 1..(n + 1) /\ DOMAIN y7 = 1..(n + k)
            /\ y7'[n + 1] = e /\ y7' # <<>> /\ (y8' \/ (k = 0 /\ ~y8))
            /\ \A i \in 1..n : i + k \in DOMAIN y7 /\ y7'[i] = y7[i + k]
            /\ \A m \in DOMAIN y7 : m > k => m - k \in 1..n /\ y7'[m - k] = y7[m]
<1>1. SentTo(e) /\ y7' \in Seq(E!EventType) /\ y7 \in Seq(E!EventType)
  BY SendEffect DEF E!TypeOK
<1>2. PICK k \in {0, 1} :
        /\ Len(y7') = Len(y7) + 1 - k
        /\ \A i \in 1..(Len(y7') - 1) : i + k \in DOMAIN y7 /\ y7'[i] = y7[i + k]
        /\ ~y8' => k = 0 /\ ~y8
  BY <1>1 DEF SentTo
<1>3. Len(y7') \in Nat /\ Len(y7) \in Nat /\ Len(y7') > 0 /\ y7'[Len(y7')] = e
      /\ DOMAIN y7' = 1..Len(y7') /\ DOMAIN y7 = 1..Len(y7)
  BY <1>1, SMTT(30) DEF SentTo
<1>4. PICK n \in Nat : n = Len(y7') - 1
  <2>1. ASSUME NEW m \in Nat, m > 0 PROVE \E n \in Nat : n = m - 1
    <3>1. m - 1 \in Nat
      BY <2>1
    <3>2. QED
      BY <3>1
  <2>2. QED
    BY <1>3, <2>1
<1>5. Len(y7') = n + 1 /\ Len(y7) = n + k
  BY <1>2, <1>3, <1>4
<1>6. \A i \in 1..n : i + k \in DOMAIN y7 /\ y7'[i] = y7[i + k]
  BY <1>2, <1>4
<1>7. ASSUME NEW m \in DOMAIN y7, m > k PROVE m - k \in 1..n /\ y7'[m - k] = y7[m]
  <2>1. m - k \in 1..n /\ (m - k) + k = m
    BY <1>3, <1>5, <1>7
  <2>2. QED
    BY <1>6, <2>1
<1>8. y7' # <<>>
  BY <1>3
<1>9. QED
  BY <1>2, <1>3, <1>5, <1>6, <1>7, <1>8

LEMMA SendKeepsNumbers ==
  ASSUME E!DeliveryInv, NEW e \in E!EventType, Sends(e)
  PROVE  E!Numbered' /\ E!GoesOn'
<1>0. E!TypeOK /\ E!Numbered /\ E!GoesOn /\ E!Send(e) /\ y6' = y6 /\ y10' = y10
  BY DEF E!DeliveryInv, Sends
<1>1. y5 \in Nat /\ y6.last \in Nat /\ e.seq \in Nat /\ \A i \in DOMAIN y7 : y7[i].seq \in Nat
  BY <1>0, VersionFields, EventFields
<1>2. (y5' = y5 /\ e.seq = y5) \/ (y5' = y5 + 1 /\ e.seq = y5 + 1)
  BY DEF Sends
<1>3. e.kind # "hello" => e.seq = y5 + 1
  BY DEF Sends
<1>4. CASE y6.pc = "closed"
  <2>1. y7' = y7 /\ y8' = y8 /\ y7 = <<>> /\ DOMAIN y7 = {}
    <3>1. y7' = y7 /\ y8' = y8
      BY <1>0, <1>4 DEF E!Send
    <3>2. y7 = <<>>
      BY <1>0, <1>4 DEF E!Numbered
    <3>3. QED
      BY <3>1, <3>2
  <2>2. E!Numbered'
    BY <1>0, <2>1 DEF E!Numbered
  <2>3. y6.last <= y5'
    <3>1. y6.last <= y5
      BY <1>0 DEF E!GoesOn
    <3>2. QED
      BY <1>1, <1>2, <3>1
  <2>4. E!GoesOn'
    BY <1>0, <1>4, <2>3 DEF E!GoesOn
  <2>5. QED
    BY <2>2, <2>4
<1>5. CASE y6.pc # "closed"
  <2>1. PICK k \in {0, 1}, n \in Nat :
            /\ Len(y7') = n + 1 /\ Len(y7) = n + k /\ DOMAIN y7' = 1..(n + 1) /\ DOMAIN y7 = 1..(n + k)
            /\ y7'[n + 1] = e /\ y7' # <<>> /\ (y8' \/ (k = 0 /\ ~y8))
            /\ \A i \in 1..n : i + k \in DOMAIN y7 /\ y7'[i] = y7[i + k]
            /\ \A m \in DOMAIN y7 : m > k => m - k \in 1..n /\ y7'[m - k] = y7[m]
    BY <1>0, <1>5, PlacesKept
  <2>2. /\ \A i \in DOMAIN y7 : y7[i].seq <= y5
        /\ \A i, j \in DOMAIN y7 : i < j =>
              y7[i].seq <= y7[j].seq /\ (~E!IsHello(j) => y7[i].seq < y7[j].seq)
        /\ \A i, j \in DOMAIN y7 : j = i + 1 => y7[j].seq <= y7[i].seq + 1
        /\ y7 # <<>> => y7[Len(y7)].seq = y5
    BY <1>0 DEF E!Numbered
  <2>3. E!IsHello(n + 1)' \/ e.seq = y5 + 1
    BY <1>3, <2>1 DEF E!IsHello
  <2>4. \A i \in 1..n : (E!IsHello(i)' <=> E!IsHello(i + k)) /\ y7'[i].seq = y7[i + k].seq
    BY <2>1 DEF E!IsHello
  <2>. HIDE DEF E!IsHello
  <2>5. ASSUME NEW i \in 1..(n + 1) PROVE y7'[i].seq <= y5'
    <3>1. CASE i = n + 1
      BY <1>1, <1>2, <2>1, <3>1
    <3>2. CASE i # n + 1
      <4>1. i \in 1..n
        BY <3>2
      <4>2. y7'[i].seq \in Nat /\ y7'[i].seq <= y5
        BY <1>1, <2>1, <2>2, <2>4, <4>1
      <4>3. QED
        BY <1>1, <1>2, <4>2
    <3>3. QED
      BY <3>1, <3>2
  <2>6. ASSUME NEW i \in 1..(n + 1), NEW j \in 1..(n + 1), i < j
        PROVE  y7'[i].seq <= y7'[j].seq /\ (~E!IsHello(j)' => y7'[i].seq < y7'[j].seq)
    <3>0. i \in 1..n
      BY <2>6
    <3>1. CASE j = n + 1
      <4>1. y7'[i].seq \in Nat /\ y7'[i].seq <= y5 /\ y7'[j].seq = e.seq
        BY <1>1, <2>1, <2>2, <2>4, <3>0, <3>1
      <4>2. E!IsHello(j)' \/ e.seq = y5 + 1
        BY <2>3, <3>1
      <4>3. y7'[i].seq <= y7'[j].seq
        BY <1>1, <1>2, <4>1
      <4>4. e.seq = y5 + 1 => y7'[i].seq < y7'[j].seq
        BY <1>1, <4>1
      <4>5. QED
        BY <4>2, <4>3, <4>4
    <3>2. CASE j # n + 1
      <4>1. j \in 1..n /\ i + k < j + k
        BY <2>6, <3>2
      <4>2. i + k \in DOMAIN y7 /\ j + k \in DOMAIN y7
        BY <2>1, <3>0, <4>1
      <4>3. y7[i + k].seq <= y7[j + k].seq /\ (~E!IsHello(j + k) => y7[i + k].seq < y7[j + k].seq)
        BY <2>2, <4>1, <4>2
      <4>4. QED
        BY <2>4, <3>0, <4>1, <4>3
    <3>3. QED
      BY <3>1, <3>2
  <2>7. ASSUME NEW i \in 1..(n + 1), NEW j \in 1..(n + 1), j = i + 1
        PROVE  y7'[j].seq <= y7'[i].seq + 1
    <3>0. i \in 1..n
      BY <2>7
    <3>1. CASE j = n + 1
      <4>1. i = n /\ n + k = Len(y7) /\ n + k \in DOMAIN y7
        BY <2>1, <2>7, <3>1, <3>0
      <4>2. y7 # <<>>
        BY <4>1
      <4>3. y7'[i].seq = y5 /\ y7'[j].seq = e.seq
        BY <2>1, <2>2, <2>4, <3>0, <3>1, <4>1, <4>2
      <4>4. QED
        BY <1>1, <1>2, <4>3
    <3>2. CASE j # n + 1
      <4>1. j \in 1..n /\ j + k = (i + k) + 1
        BY <2>7, <3>2
      <4>2. i + k \in DOMAIN y7 /\ j + k \in DOMAIN y7
        BY <2>1, <3>0, <4>1
      <4>3. y7[j + k].seq <= y7[i + k].seq + 1
        BY <2>2, <4>1, <4>2
      <4>4. QED
        BY <2>4, <3>0, <4>1, <4>3
    <3>3. QED
      BY <3>1, <3>2
  <2>8. y7'[Len(y7')].seq = y5'
    BY <1>1, <1>2, <2>1
  <2>9. E!Numbered'
    BY <1>0, <1>5, <2>1, <2>5, <2>6, <2>7, <2>8 DEF E!Numbered
  <2>10. y6.last <= y5'
    <3>1. y6.last <= y5
      BY <1>0 DEF E!GoesOn
    <3>2. QED
      BY <1>1, <1>2, <3>1
  <2>11. ASSUME y6.pc \in {"baseline", "open"}, ~y8'
         PROVE  E!IsHello(1)' \/ y7'[1].seq <= y6.last + 1
    <3>1. k = 0 /\ ~y8
      BY <2>1, <2>11
    <3>2. /\ y7 = <<>> => y6.last = y5
          /\ y7 # <<>> => E!IsHello(1) \/ y7[1].seq <= y6.last + 1
      BY <1>0, <2>11, <3>1 DEF E!GoesOn
    <3>3. CASE n = 0
      <4>1. y7 = <<>>
        BY <1>0, <2>1, <3>1, <3>3 DEF E!TypeOK
      <4>2. y7'[1] = e /\ y6.last = y5
        BY <2>1, <3>2, <3>3, <4>1
      <4>3. y7'[1].seq <= y6.last + 1
        BY <1>1, <1>2, <4>2
      <4>4. QED
        BY <4>3
    <3>4. CASE n # 0
      <4>1. 1 \in 1..n
        BY <3>4
      <4>2. y7'[1] = y7[1] /\ y7 # <<>>
        <5>1. 1 + 0 = 1 /\ 1 \in DOMAIN y7
          BY <2>1, <3>1, <4>1
        <5>2. y7'[1] = y7[1]
          BY <2>1, <3>1, <4>1, <5>1
        <5>3. QED
          BY <5>1, <5>2
      <4>3. QED
        BY <3>2, <4>2 DEF E!IsHello
    <3>5. QED
      BY <3>3, <3>4
  <2>12. y6.pc = "open" => y10 = y6.last
    BY <1>0 DEF E!GoesOn
  <2>13. E!GoesOn'
    BY <1>0, <2>1, <2>10, <2>11, <2>12 DEF E!GoesOn
  <2>14. QED
    BY <2>9, <2>13
<1>6. QED
  BY <1>4, <1>5

LEMMA SendKeepsVersions ==
  ASSUME E!DeliveryInv, E!TypeOK', NEW e \in E!EventType, Sends(e)
  PROVE  E!Versions'
<1>0. E!TypeOK /\ E!Versions /\ E!Send(e) /\ y2' = y2 /\ y9' = y9
  BY DEF E!DeliveryInv, Sends
<1>1. /\ \A v : v.revision \in Nat /\ E!Version(v) => StillVersion(v)
      /\ StillVersion(y2)
  BY <1>0, SendMoves, VersionsStay
<1>2. E!Version(E!Nothing)' /\ E!Version(y9.turn)'
  <2>1. E!Nothing.revision \in Nat /\ y9.turn.revision \in Nat
    BY <1>0, DeliveryConstants, VersionFields
  <2>2. StillVersion(E!Nothing) /\ StillVersion(y9.turn)
    BY <1>0, <1>1, <2>1 DEF E!Versions
  <2>3. QED
    BY <1>0, <2>2 DEF E!Version, StillVersion
<1>3. \A x \in Threads : y4[x].pc \in {"publish turn", "saves", "stops"} => StillVersion(y4[x].turn)
  <2>1. ASSUME NEW x \in Threads, y4[x].pc \in {"publish turn", "saves", "stops"}
        PROVE  y4[x].turn.revision \in Nat /\ E!Version(y4[x].turn)
    BY <1>0, <2>1, VersionFields DEF E!Versions, E!HasCopy
  <2>2. QED
    BY <1>1, <2>1
<1>4. ASSUME NEW x \in Threads, y4'[x].pc \in {"publish turn", "saves", "stops"}
      PROVE  E!Version(y4[x].turn)'
  <2>1. y4'[x] = y4[x]
    BY <1>4 DEF Sends
  <2>2. StillVersion(y4'[x].turn)
    BY <1>3, <1>4, <2>1
  <2>3. QED
    BY <2>2 DEF E!Version, StillVersion
<1>5. \A i \in DOMAIN y7 : y7[i].kind # "queue" => StillVersion(y7[i].body.turn)
  <2>1. ASSUME NEW i \in DOMAIN y7, y7[i].kind # "queue"
        PROVE  y7[i].body.turn.revision \in Nat /\ E!Version(y7[i].body.turn)
    BY <1>0, <2>1, VersionFields DEF E!Versions
  <2>2. QED
    BY <1>1, <2>1
<1>6. e.kind # "queue" => StillVersion(e.body.turn)
  <2>1. CASE e.kind \in {"turn", "session"}
    <3>1. PICK x \in Threads : y4[x].pc \in {"publish turn", "stops"} /\ e.body.turn = y4[x].turn
      BY <2>1 DEF Sends
    <3>2. QED
      BY <1>3, <3>1
  <2>2. CASE e.kind = "hello"
    <3>1. e.body.turn = y2
      BY <2>2 DEF Sends
    <3>2. QED
      BY <1>1, <3>1
  <2>3. QED
    BY <2>1, <2>2, EventFields
<1>7. ASSUME NEW i \in DOMAIN y7', y7'[i].kind # "queue" PROVE E!Version(y7[i].body.turn)'
  <2>1. StillVersion(y7'[i].body.turn)
    <3>1. CASE y6.pc = "closed"
      <4>1. y7' = y7
        BY <1>0, <3>1 DEF E!Send
      <4>2. QED
        BY <1>5, <1>7, <4>1
    <3>2. CASE y6.pc # "closed"
      <4>1. PICK k \in {0, 1}, n \in Nat :
                /\ DOMAIN y7' = 1..(n + 1) /\ y7'[n + 1] = e
                /\ \A j \in 1..n : j + k \in DOMAIN y7 /\ y7'[j] = y7[j + k]
        BY <1>0, <3>2, PlacesKept
      <4>2. CASE i = n + 1
        BY <1>6, <1>7, <4>1, <4>2
      <4>3. CASE i # n + 1
        <5>1. i \in 1..n
          BY <4>1, <4>3
        <5>2. i + k \in DOMAIN y7 /\ y7'[i] = y7[i + k]
          BY <4>1, <5>1
        <5>3. QED
          BY <1>5, <1>7, <5>2
      <4>4. QED
        BY <4>2, <4>3
    <3>3. QED
      BY <3>1, <3>2
  <2>2. QED
    BY <2>1 DEF E!Version, StillVersion
<1>8. QED
  BY <1>2, <1>4, <1>7 DEF E!Versions, E!HasCopy

LEMMA SendKeepsTurn ==
  ASSUME E!DeliveryInv, E!TypeOK', NEW e \in E!EventType, Sends(e)
  PROVE  E!TurnComes'
<1>. SUFFICES ASSUME E!TurnStands'
              PROVE  /\ \A i \in DOMAIN y7' : E!Replaces(i)' =>
                            E!ToPublish' \/ \E j \in DOMAIN y7' : j >= i /\ E!Carries(j)'
                     /\ y6'.pc = "open" /\ ~y8' =>
                            \/ y9'.turn = y2' \/ E!ToPublish'
                            \/ \E j \in DOMAIN y7' : E!Carries(j)' /\ (E!IsHello(j)' \/ y7'[j].seq > y6'.last)
  BY DEF E!TurnComes
<1>0. E!TypeOK /\ E!TurnComes /\ E!GoesOn /\ E!Send(e) /\ y2' = y2 /\ y9' = y9 /\ y6' = y6
  BY DEF E!DeliveryInv, Sends
<1>a. E!TurnStands
  BY <1>0, SendMoves, VersionsStay
<1>1. CASE y6.pc = "closed"
  <2>1. y7' = y7 /\ y7 = <<>>
    BY <1>0, <1>1 DEF E!Send, E!DeliveryInv, E!Numbered
  <2>2. DOMAIN y7' = {} /\ y6'.pc # "open"
    BY <1>0, <1>1, <2>1
  <2>3. QED
    BY <2>2
<1>2. CASE y6.pc # "closed"
  <2>1. PICK k \in {0, 1}, n \in Nat :
            /\ Len(y7') = n + 1 /\ Len(y7) = n + k /\ DOMAIN y7' = 1..(n + 1) /\ DOMAIN y7 = 1..(n + k)
            /\ y7'[n + 1] = e /\ y7' # <<>> /\ (y8' \/ (k = 0 /\ ~y8))
            /\ \A i \in 1..n : i + k \in DOMAIN y7 /\ y7'[i] = y7[i + k]
            /\ \A m \in DOMAIN y7 : m > k => m - k \in 1..n /\ y7'[m - k] = y7[m]
    BY <1>0, <1>2, PlacesKept
  <2>2. E!ToPublish => E!ToPublish' \/ (E!Carries(n + 1)' /\ e.kind = "turn")
    <3>1. ASSUME NEW x \in Threads, y4[x].pc = "publish turn", y4[x].turn = y2
          PROVE  E!ToPublish' \/ (E!Carries(n + 1)' /\ e.kind = "turn")
      <4>1. y4'[x] = y4[x] \/ (e.kind = "turn" /\ e.body.turn = y4[x].turn)
        BY <3>1 DEF Sends
      <4>2. CASE y4'[x] = y4[x]
        BY <1>0, <3>1, <4>2 DEF E!ToPublish
      <4>3. CASE e.kind = "turn" /\ e.body.turn = y4[x].turn
        BY <1>0, <2>1, <3>1, <4>3 DEF E!Carries
      <4>4. QED
        BY <4>1, <4>2, <4>3
    <3>2. QED
      BY <3>1 DEF E!ToPublish
  <2>3. \A i \in 1..n : E!Replaces(i)' => E!Replaces(i + k)
    BY <2>1 DEF E!Replaces
  <2>4. \A m \in DOMAIN y7 : m > k => (E!Carries(m) => E!Carries(m - k)')
    BY <1>0, <2>1 DEF E!Carries
  <2>5. ASSUME NEW i \in 1..(n + 1), E!Replaces(i)'
        PROVE  E!ToPublish' \/ \E j \in 1..(n + 1) : j >= i /\ E!Carries(j)'
    <3>1. CASE i = n + 1
      <4>1. e.kind \in {"session", "hello"}
        BY <2>1, <2>5, <3>1 DEF E!Replaces
      <4>2. e.body.turn = y2 \/ E!ToPublish
        BY <4>1 DEF Sends
      <4>3. E!Carries(n + 1)' \/ E!ToPublish'
        <5>1. CASE e.body.turn = y2
          BY <1>0, <2>1, <4>1, <5>1 DEF E!Carries
        <5>2. CASE E!ToPublish
          BY <2>2, <5>2
        <5>3. QED
          BY <4>2, <5>1, <5>2
      <4>4. n + 1 \in 1..(n + 1) /\ n + 1 >= i
        BY <3>1
      <4>5. QED
        BY <4>3, <4>4
    <3>2. CASE i # n + 1
      <4>1. i \in 1..n /\ i + k \in DOMAIN y7 /\ i + k > k
        BY <2>1, <3>2
      <4>2. E!ToPublish \/ \E j \in DOMAIN y7 : j >= i + k /\ E!Carries(j)
        BY <1>0, <1>a, <2>3, <2>5, <4>1 DEF E!TurnComes
      <4>3. CASE E!ToPublish
        <5>1. n + 1 \in 1..(n + 1) /\ n + 1 >= i
          BY <4>1
        <5>2. QED
          BY <2>2, <4>3, <5>1
      <4>4. ASSUME NEW j \in DOMAIN y7, j >= i + k, E!Carries(j)
            PROVE  \E h \in 1..(n + 1) : h >= i /\ E!Carries(h)'
        <5>1. j > k /\ j - k \in 1..(n + 1) /\ j - k >= i
          BY <2>1, <4>1, <4>4
        <5>2. E!Carries(j - k)'
          BY <2>4, <4>4, <5>1
        <5>3. QED
          BY <5>1, <5>2
      <4>5. QED
        BY <4>2, <4>3, <4>4
    <3>3. QED
      BY <3>1, <3>2
  <2>6. ASSUME y6.pc = "open", ~y8'
        PROVE  \/ y9.turn = y2 \/ E!ToPublish'
               \/ \E j \in 1..(n + 1) : E!Carries(j)' /\ (E!IsHello(j)' \/ y7'[j].seq > y6.last)
    <3>1. k = 0 /\ ~y8
      BY <2>1, <2>6
    <3>2. \/ y9.turn = y2 \/ E!ToPublish
          \/ \E j \in DOMAIN y7 : E!Carries(j) /\ (E!IsHello(j) \/ y7[j].seq > y6.last)
      BY <1>0, <1>a, <2>6, <3>1 DEF E!TurnComes
    <3>3. CASE E!ToPublish
      <4>1. CASE E!ToPublish'
        BY <4>1
      <4>2. CASE E!Carries(n + 1)' /\ e.kind = "turn"
        <5>1. e.seq = y5 + 1
          BY <4>2 DEF Sends
        <5>2. y6.last <= y5 /\ y6.last \in Nat /\ y5 \in Nat
          BY <1>0, VersionFields DEF E!GoesOn
        <5>3. e.seq > y6.last
          BY <5>1, <5>2
        <5>4. n + 1 \in 1..(n + 1) /\ y7'[n + 1] = e
          BY <2>1
        <5>5. QED
          BY <4>2, <5>3, <5>4
      <4>3. QED
        BY <2>2, <3>3, <4>1, <4>2
    <3>4. ASSUME NEW j \in DOMAIN y7, E!Carries(j), E!IsHello(j) \/ y7[j].seq > y6.last
          PROVE  \E h \in 1..(n + 1) : E!Carries(h)' /\ (E!IsHello(h)' \/ y7'[h].seq > y6.last)
      <4>1. j > k /\ j - k = j /\ j \in 1..(n + 1)
        BY <2>1, <3>1
      <4>2. y7'[j] = y7[j] /\ E!Carries(j)'
        BY <2>1, <2>4, <3>4, <4>1
      <4>3. E!IsHello(j)' <=> E!IsHello(j)
        BY <4>2 DEF E!IsHello
      <4>4. QED
        BY <3>4, <4>1, <4>2, <4>3
    <3>5. QED
      BY <3>2, <3>3, <3>4
  <2>7. QED
    BY <1>0, <2>1, <2>5, <2>6
<1>3. QED
  BY <1>1, <1>2

LEMMA SendKeepsQueue ==
  ASSUME E!DeliveryInv, E!TypeOK', NEW e \in E!EventType, Sends(e)
  PROVE  E!QueueComes'
<1>0. /\ E!TypeOK /\ E!QueueComes /\ E!GoesOn /\ E!Send(e)
      /\ y3' = y3 /\ y9' = y9 /\ y6' = y6 /\ y15'.queue = y15.queue
  BY DEF E!DeliveryInv, Sends
<1>1. \A n : StillNoted(n) <=> E!QueueNoted(n)
  BY <1>0 DEF StillNoted, E!QueueNoted
<1>2. \A x \in Threads : y4[x].pc \in {"publish queue", "saves", "stops"} => E!QueueNoted(y4[x].queue)
  BY <1>0 DEF E!QueueComes, E!HasCopy
<1>3. E!QueueNoted(y13)'
  <2>1. StillNoted(y13')
    <3>1. CASE e.kind \in {"queue", "session"}
      <4>1. PICK x \in Threads : y4[x].pc \in {"publish queue", "stops"} /\ e.body.queue = y4[x].queue
        BY <3>1 DEF Sends
      <4>2. y13' = e.body.queue
        BY <3>1 DEF Sends
      <4>3. QED
        BY <1>1, <1>2, <4>1, <4>2
    <3>2. CASE e.kind \notin {"queue", "session"}
      <4>1. y13' = y13 /\ E!QueueNoted(y13)
        BY <1>0, <3>2 DEF Sends, E!QueueComes
      <4>2. QED
        BY <1>1, <4>1
    <3>3. QED
      BY <3>1, <3>2
  <2>2. QED
    BY <2>1 DEF StillNoted, E!QueueNoted
<1>4. ASSUME NEW x \in Threads, y4'[x].pc \in {"publish queue", "saves", "stops"}
      PROVE  E!QueueNoted(y4[x].queue)'
  <2>1. y4'[x] = y4[x]
    BY <1>4 DEF Sends
  <2>2. StillNoted(y4'[x].queue)
    BY <1>1, <1>2, <1>4, <2>1
  <2>3. QED
    BY <2>2 DEF StillNoted, E!QueueNoted
<1>5. CASE y6.pc = "closed"
  <2>1. y7' = y7 /\ y7 = <<>>
    BY <1>0, <1>5 DEF E!Send, E!DeliveryInv, E!Numbered
  <2>2. DOMAIN y7' = {} /\ y6'.pc # "open"
    BY <1>0, <1>5, <2>1
  <2>3. QED
    BY <1>3, <1>4, <2>2 DEF E!QueueComes, E!HasCopy
<1>6. CASE y6.pc # "closed"
  <2>1. PICK k \in {0, 1}, n \in Nat :
            /\ Len(y7') = n + 1 /\ Len(y7) = n + k /\ DOMAIN y7' = 1..(n + 1) /\ DOMAIN y7 = 1..(n + k)
            /\ y7'[n + 1] = e /\ y7' # <<>> /\ (y8' \/ (k = 0 /\ ~y8))
            /\ \A i \in 1..n : i + k \in DOMAIN y7 /\ y7'[i] = y7[i + k]
            /\ \A m \in DOMAIN y7 : m > k => m - k \in 1..n /\ y7'[m - k] = y7[m]
    BY <1>0, <1>6, PlacesKept
  <2>2. ASSUME NEW i \in 1..(n + 1), E!LastOfQueue(i)'
        PROVE  /\ E!ToldOfQueue(i)' => y7'[i].body.queue = y13'
               /\ E!IsHello(i)' /\ E!QueueStands' => y7'[i].body.queue = y3'
    <3>1. CASE i = n + 1
      <4>1. y7'[i] = e
        BY <2>1, <3>1
      <4>2. E!ToldOfQueue(i)' => y7'[i].body.queue = y13'
        BY <4>1 DEF E!ToldOfQueue, Sends
      <4>3. E!IsHello(i)' => y7'[i].body.queue = y3'
        BY <1>0, <4>1 DEF E!IsHello, Sends
      <4>4. QED
        BY <4>2, <4>3
    <3>2. CASE i # n + 1
      <4>1. i \in 1..n /\ i < n + 1 /\ n + 1 \in 1..(n + 1)
        BY <3>2
      <4>2. i + k \in DOMAIN y7 /\ y7'[i] = y7[i + k]
        BY <2>1, <4>1
      <4>3. e.kind \notin {"queue", "session"} /\ y13' = y13
        <5>1. ~E!ToldOfQueue(n + 1)'
          BY <2>1, <2>2, <4>1 DEF E!LastOfQueue
        <5>2. e.kind \notin {"queue", "session"}
          BY <2>1, <5>1 DEF E!ToldOfQueue
        <5>3. QED
          BY <5>2 DEF Sends
      <4>4. E!LastOfQueue(i + k)
        <5>1. ASSUME NEW j \in DOMAIN y7, j > i + k PROVE ~E!ToldOfQueue(j)
          <6>1. j > k /\ j - k \in 1..(n + 1) /\ j - k > i
            <7>1. j \in 1..(n + k) /\ i \in Nat /\ i > 0
              BY <2>1, <4>1
            <7>2. QED
              BY <5>1, <7>1
          <6>2. y7'[j - k] = y7[j]
            BY <2>1, <6>1
          <6>3. ~E!ToldOfQueue(j - k)'
            BY <2>1, <2>2, <6>1 DEF E!LastOfQueue
          <6>4. QED
            BY <6>2, <6>3 DEF E!ToldOfQueue
        <5>2. QED
          BY <5>1 DEF E!LastOfQueue
      <4>5. E!QueueStands' <=> E!QueueStands
        BY <1>0, <4>3 DEF E!QueueStands
      <4>6. (E!IsHello(i)' <=> E!IsHello(i + k)) /\ (E!ToldOfQueue(i)' <=> E!ToldOfQueue(i + k))
        BY <4>2 DEF E!IsHello, E!ToldOfQueue
      <4>7. QED
        BY <1>0, <4>2, <4>3, <4>4, <4>5, <4>6 DEF E!QueueComes
    <3>3. QED
      BY <3>1, <3>2
  <2>3. ASSUME y6.pc = "open", ~y8', E!QueueStands',
               \A j \in 1..(n + 1) : ~E!IsHello(j)' /\ (E!ToldOfQueue(j)' => y7'[j].seq <= y6.last)
        PROVE  y9.queue = y3
    <3>1. k = 0 /\ ~y8
      BY <2>1, <2>3
    <3>2. n + 1 \in 1..(n + 1)
      OBVIOUS
    <3>3. ~(e.seq <= y6.last) \/ e.kind = "hello"
      <4>1. e.kind # "hello" => e.seq = y5 + 1
        BY DEF Sends
      <4>2. y6.last <= y5 /\ y6.last \in Nat /\ y5 \in Nat
        BY <1>0, VersionFields DEF E!GoesOn
      <4>3. e.seq = y5 + 1 => ~(e.seq <= y6.last)
        BY <4>2
      <4>4. QED
        BY <4>1, <4>3
    <3>4. e.kind \notin {"queue", "session"}
      BY <2>1, <2>3, <3>2, <3>3 DEF E!ToldOfQueue
    <3>5. y13' = y13
      BY <3>4 DEF Sends
    <3>6. E!QueueStands
      BY <1>0, <2>3, <3>5 DEF E!QueueStands
    <3>7. ASSUME NEW j \in DOMAIN y7
          PROVE  ~E!IsHello(j) /\ (E!ToldOfQueue(j) => y7[j].seq <= y6.last)
      <4>1. j > k /\ j - k = j /\ j \in 1..(n + 1)
        BY <2>1, <3>1
      <4>2. y7'[j] = y7[j]
        BY <2>1, <4>1
      <4>3. QED
        BY <2>3, <4>1, <4>2 DEF E!IsHello, E!ToldOfQueue
    <3>8. QED
      BY <1>0, <2>3, <3>1, <3>6, <3>7 DEF E!QueueComes
  <2>4. QED
    BY <1>0, <1>3, <1>4, <2>1, <2>2, <2>3 DEF E!QueueComes, E!HasCopy
<1>7. QED
  BY <1>5, <1>6

(* Publishing and broadcasting. *)
LEMMA SendKeepsDelivery ==
  ASSUME E!DeliveryInv, E!TypeOK', NEW e \in E!EventType, Sends(e)
  PROVE  E!DeliveryInv'
<1>1. E!NoEventIsMissing'
  BY DEF E!DeliveryInv, E!NoEventIsMissing, Sends
<1>2. E!EndComes'
  <2>1. ASSUME y1' = E!Projections, ~y15'.end, y2'.of # E!Projections
        PROVE  \E t \in Threads : y4'[t].pc = "apply" /\ y4'[t].of = E!Projections
    <3>1. PICK t \in Threads : y4[t].pc = "apply" /\ y4[t].of = E!Projections
      BY <2>1 DEF E!DeliveryInv, E!EndComes, Sends
    <3>2. y4'[t] = y4[t]
      BY <3>1, ZenonT(60) DEF Sends
    <3>3. QED
      BY <3>1, <3>2
  <2>2. QED
    BY <2>1 DEF E!EndComes
<1>3. QED
  BY <1>1, <1>2, SendKeepsNumbers, SendKeepsVersions, SendKeepsTurn, SendKeepsQueue DEF E!DeliveryInv

(* What is left in the receiver when its first event is taken. *)
LEMMA PlacesLeft ==
  ASSUME E!TypeOK, E!Receive
  PROVE  \E n \in Nat :
            /\ Len(y7) = n + 1 /\ Len(y7') = n /\ DOMAIN y7 = 1..(n + 1) /\ DOMAIN y7' = 1..n
            /\ (n = 0 => y7' = <<>>) /\ (n # 0 => y7' # <<>>)
            /\ \A i \in 1..n : i + 1 \in 1..(n + 1) /\ y7'[i] = y7[i + 1]
            /\ \A m \in 2..(n + 1) : m - 1 \in 1..n /\ y7'[m - 1] = y7[m]
<1>1. /\ y7 # <<>> /\ y7 \in Seq(E!EventType) /\ y7' \in Seq(E!EventType) /\ Len(y7') = Len(y7) - 1
      /\ \A i \in 1..(Len(y7) - 1) : y7'[i] = y7[i + 1]
  BY ReceiveEffect DEF E!TypeOK
<1>2. Len(y7) \in Nat /\ Len(y7) > 0 /\ DOMAIN y7 = 1..Len(y7) /\ DOMAIN y7' = 1..Len(y7') /\ Len(y7') \in Nat
  BY <1>1, SMTT(30)
<1>3. PICK n \in Nat : n = Len(y7')
  BY <1>2
<1>4. Len(y7) = n + 1
  BY <1>1, <1>2, <1>3
<1>5. (n = 0 => y7' = <<>>) /\ (n # 0 => y7' # <<>>)
  BY <1>1, <1>3
<1>6. \A i \in 1..n : i + 1 \in 1..(n + 1) /\ y7'[i] = y7[i + 1]
  BY <1>1, <1>4
<1>7. ASSUME NEW m \in 2..(n + 1) PROVE m - 1 \in 1..n /\ y7'[m - 1] = y7[m]
  <2>1. m - 1 \in 1..n /\ (m - 1) + 1 = m
    BY <1>7
  <2>2. QED
    BY <1>6, <2>1
<1>8. QED
  BY <1>2, <1>3, <1>4, <1>5, <1>6, <1>7

LEMMA ReceiveKeepsNumbers ==
  ASSUME E!DeliveryInv, E!Receive
  PROVE  E!Numbered' /\ E!GoesOn' /\ E!NoEventIsMissing'
<1>0. E!TypeOK /\ E!Numbered /\ E!GoesOn /\ E!NoEventIsMissing
  BY DEF E!DeliveryInv
<1>1. PICK n \in Nat :
            /\ Len(y7) = n + 1 /\ Len(y7') = n /\ DOMAIN y7 = 1..(n + 1) /\ DOMAIN y7' = 1..n
            /\ (n = 0 => y7' = <<>>) /\ (n # 0 => y7' # <<>>)
            /\ \A i \in 1..n : i + 1 \in 1..(n + 1) /\ y7'[i] = y7[i + 1]
            /\ \A m \in 2..(n + 1) : m - 1 \in 1..n /\ y7'[m - 1] = y7[m]
  BY <1>0, PlacesLeft
<1>2. y6.pc = "open" /\ ~y8 /\ y8' = y8 /\ y7 # <<>> /\ y5' = y5
  BY <1>0, ReceiveEffect
<1>3. /\ \A i \in 1..(n + 1) : y7[i].seq \in Nat /\ y7[i].seq <= y5
      /\ \A i, j \in 1..(n + 1) : i < j =>
              y7[i].seq <= y7[j].seq /\ (~E!IsHello(j) => y7[i].seq < y7[j].seq)
      /\ \A i, j \in 1..(n + 1) : j = i + 1 => y7[j].seq <= y7[i].seq + 1
      /\ y7[n + 1].seq = y5
  <2>1. \A i \in 1..(n + 1) : y7[i].seq \in Nat
    BY <1>0, <1>1, VersionFields
  <2>2. QED
    BY <1>0, <1>1, <1>2, <2>1 DEF E!Numbered
<1>4. y6.last \in Nat /\ y5 \in Nat /\ y6.last <= y5 /\ y10 = y6.last
      /\ (E!IsHello(1) \/ y7[1].seq <= y6.last + 1)
  <2>1. y6.last \in Nat /\ y5 \in Nat
    BY <1>0, VersionFields
  <2>2. QED
    BY <1>0, <1>2, <2>1 DEF E!GoesOn
<1>5. \A i \in 1..n : (E!IsHello(i)' <=> E!IsHello(i + 1)) /\ y7'[i].seq = y7[i + 1].seq
  BY <1>1 DEF E!IsHello
<1>. HIDE DEF E!IsHello
<1>6. E!Numbered'
  <2>1. y6'.pc = "open" /\ ~y8'
    BY <1>0, <1>2, ReceiveEffect
  <2>2. ASSUME NEW i \in 1..n PROVE y7'[i].seq <= y5
    BY <1>1, <1>3, <1>5
  <2>3. ASSUME NEW i \in 1..n, NEW j \in 1..n, i < j
        PROVE  y7'[i].seq <= y7'[j].seq /\ (~E!IsHello(j)' => y7'[i].seq < y7'[j].seq)
    <3>1. i + 1 \in 1..(n + 1) /\ j + 1 \in 1..(n + 1) /\ i + 1 < j + 1
      BY <2>3
    <3>2. y7[i + 1].seq <= y7[j + 1].seq /\ (~E!IsHello(j + 1) => y7[i + 1].seq < y7[j + 1].seq)
      BY <1>3, <3>1
    <3>3. QED
      BY <1>5, <3>2
  <2>4. ASSUME NEW i \in 1..n, NEW j \in 1..n, j = i + 1 PROVE y7'[j].seq <= y7'[i].seq + 1
    <3>1. i + 1 \in 1..(n + 1) /\ j + 1 \in 1..(n + 1) /\ j + 1 = (i + 1) + 1
      BY <2>4
    <3>2. y7[j + 1].seq <= y7[i + 1].seq + 1
      BY <1>3, <3>1
    <3>3. QED
      BY <1>5, <3>2
  <2>5. y7' # <<>> => y7'[n].seq = y5
    <3>1. y7' # <<>> => n \in 1..n
      BY <1>1
    <3>2. QED
      BY <1>3, <1>5, <3>1
  <2>6. QED
    BY <1>1, <1>2, <2>1, <2>2, <2>3, <2>4, <2>5 DEF E!Numbered
<1>7. CASE ~E!IsHello(1) /\ y7[1].seq <= y6.last /\ UNCHANGED <<y6, y9, y10, y14>>
  <2>1. y7' = <<>> => y6.last = y5
    <3>1. n = 0 => y7[1].seq = y5
      BY <1>3
    <3>2. n = 0 => y6.last = y5
      BY <1>4, <1>7, <3>1
    <3>3. QED
      BY <1>1, <3>2
  <2>2. y7' # <<>> => E!IsHello(1)' \/ y7'[1].seq <= y6.last + 1
    <3>1. ASSUME n # 0 PROVE y7'[1].seq <= y6.last + 1
      <4>1. 1 \in 1..n /\ 1 \in 1..(n + 1) /\ 2 \in 1..(n + 1) /\ 2 = 1 + 1
        BY <3>1
      <4>2. y7'[1].seq = y7[2].seq
        BY <1>5, <4>1
      <4>3. y7[2].seq <= y7[1].seq + 1 /\ y7[2].seq \in Nat /\ y7[1].seq \in Nat
        BY <1>3, <4>1
      <4>4. QED
        BY <1>4, <1>7, <4>2, <4>3
    <3>2. QED
      BY <1>1, <3>1
  <2>3. E!GoesOn'
    BY <1>2, <1>4, <1>7, <2>1, <2>2 DEF E!GoesOn
  <2>4. E!NoEventIsMissing'
    BY <1>0, <1>7 DEF E!NoEventIsMissing
  <2>5. QED
    BY <1>6, <2>3, <2>4
<1>8. CASE /\ y6'.pc = "open" /\ y6'.last = y7[1].seq /\ y10' = y7[1].seq
           /\ \/ y14' = y14
              \/ ~E!IsHello(1) /\ y14' = (y14 \/ y7[1].seq > y10 + 1)
  <2>0. 1 \in 1..(n + 1) /\ y7[1].seq \in Nat /\ y7[1].seq <= y5
    <3>1. 1 \in 1..(n + 1)
      OBVIOUS
    <3>2. QED
      BY <1>3, <3>1
  <2>1. y7' = <<>> => y7[1].seq = y5
    <3>1. n = 0 => y7[1].seq = y5
      BY <1>3
    <3>2. QED
      BY <1>1, <3>1
  <2>2. y7' # <<>> => y7'[1].seq <= y7[1].seq + 1
    <3>1. ASSUME n # 0 PROVE y7'[1].seq <= y7[1].seq + 1
      <4>1. 1 \in 1..n /\ 1 \in 1..(n + 1) /\ 2 \in 1..(n + 1) /\ 2 = 1 + 1
        BY <3>1
      <4>2. y7'[1].seq = y7[2].seq
        BY <1>5, <4>1
      <4>3. y7[2].seq <= y7[1].seq + 1
        BY <1>3, <4>1
      <4>4. QED
        BY <4>2, <4>3
    <3>2. QED
      BY <1>1, <3>1
  <2>3. E!GoesOn'
    BY <1>2, <1>8, <2>0, <2>1, <2>2 DEF E!GoesOn
  <2>4. E!NoEventIsMissing'
    <3>1. CASE y14' = y14
      BY <1>0, <3>1 DEF E!NoEventIsMissing
    <3>2. CASE ~E!IsHello(1) /\ y14' = (y14 \/ y7[1].seq > y10 + 1)
      <4>1. y7[1].seq <= y10 + 1 /\ y10 \in Nat
        BY <1>4, <3>2
      <4>2. ~(y7[1].seq > y10 + 1)
        BY <2>0, <4>1
      <4>3. ~y14
        BY <1>0 DEF E!NoEventIsMissing
      <4>4. ~y14'
        BY <3>2, <4>2, <4>3, Zenon
      <4>5. QED
        BY <4>4 DEF E!NoEventIsMissing
    <3>3. QED
      BY <1>8, <3>1, <3>2
  <2>5. QED
    BY <1>6, <2>3, <2>4
<1>9. QED
  BY <1>0, <1>7, <1>8, ReceiveEffect

LEMMA ReceiveKeepsVersions ==
  ASSUME E!DeliveryInv, E!Receive
  PROVE  E!Versions'
<1>0. E!TypeOK /\ E!Versions
  BY DEF E!DeliveryInv
<1>1. PICK n \in Nat :
            /\ DOMAIN y7 = 1..(n + 1) /\ DOMAIN y7' = 1..n
            /\ \A i \in 1..n : i + 1 \in 1..(n + 1) /\ y7'[i] = y7[i + 1]
  BY <1>0, PlacesLeft
<1>2. y2' = y2 /\ y4' = y4 /\ y15' = y15
  BY <1>0, ReceiveEffect
<1>3. E!Version(y9'.turn)
  <2>1. y7[1].kind # "queue" => E!Version(y7[1].body.turn)
    <3>1. 1 \in 1..(n + 1)
      OBVIOUS
    <3>2. QED
      BY <1>0, <1>1, <3>1 DEF E!Versions
  <2>2. E!Version(y9.turn)
    BY <1>0 DEF E!Versions
  <2>3. \/ y9'.turn = y9.turn
        \/ y7[1].kind # "queue" /\ y9'.turn = y7[1].body.turn
    BY <1>0, ReceiveEffect DEF E!Newer, E!IsHello
  <2>4. QED
    BY <2>1, <2>2, <2>3
<1>4. E!Version(E!Nothing)' /\ E!Version(y9.turn)'
  BY <1>0, <1>2, <1>3 DEF E!Versions, E!Version, E!TurnStands
<1>5. \A t \in Threads : E!HasCopy(t)' \/ y4'[t].pc = "publish turn" => E!Version(y4[t].turn)'
  BY <1>0, <1>2 DEF E!Versions, E!Version, E!TurnStands, E!HasCopy
<1>6. ASSUME NEW i \in DOMAIN y7', y7'[i].kind # "queue" PROVE E!Version(y7[i].body.turn)'
  <2>1. i + 1 \in DOMAIN y7 /\ y7'[i] = y7[i + 1]
    BY <1>1
  <2>2. E!Version(y7[i + 1].body.turn)
    BY <1>0, <1>6, <2>1 DEF E!Versions
  <2>3. QED
    BY <1>2, <2>1, <2>2 DEF E!Version, E!TurnStands
<1>7. QED
  BY <1>4, <1>5, <1>6 DEF E!Versions

(* A turn the page refuses is not newer than the one it shows. *)
LEMMA ShownIsNewest ==
  ASSUME E!TypeOK, E!Versions, E!TurnStands,
         NEW e \in E!EventType, e.kind = "turn", E!Version(e.body.turn)
  PROVE  /\ y9.turn = y2 => ~E!Newer(e)
         /\ e.body.turn = y2 /\ ~E!Newer(e) => y9.turn = y2
<1>1. /\ y2.revision \in Nat /\ y9.turn.revision \in Nat /\ e.body.turn.revision \in Nat
      /\ y15.turn \in Nat /\ y2.revision >= y15.turn
  BY VersionFields, EventFields DEF E!TurnStands
<1>2. E!Newer(e) <=> e.body.turn.revision > y9.turn.revision
  BY DEF E!Newer
<1>3. e.body.turn.revision <= y2.revision
  BY <1>1 DEF E!Version
<1>4. y9.turn.revision <= y2.revision /\ (y9.turn.revision = y2.revision => y9.turn = y2)
  <2>1. E!Version(y9.turn)
    BY DEF E!Versions
  <2>2. QED
    BY <1>1, <2>1 DEF E!Version
<1>5. ASSUME y9.turn = y2 PROVE ~(e.body.turn.revision > y9.turn.revision)
  <2>1. y9.turn.revision = y2.revision
    BY <1>5
  <2>2. QED
    BY <1>1, <1>3, <2>1
<1>6. ASSUME e.body.turn = y2, ~(e.body.turn.revision > y9.turn.revision) PROVE y9.turn = y2
  <2>1. e.body.turn.revision = y2.revision
    BY <1>6
  <2>2. y9.turn.revision = y2.revision
    BY <1>1, <1>4, <1>6, <2>1
  <2>3. QED
    BY <1>4, <2>2
<1>7. QED
  BY <1>2, <1>5, <1>6

LEMMA ReceiveKeepsTurn ==
  ASSUME E!DeliveryInv, E!Receive
  PROVE  E!TurnComes'
<1>. SUFFICES ASSUME E!TurnStands'
              PROVE  /\ \A i \in DOMAIN y7' : E!Replaces(i)' =>
                            E!ToPublish' \/ \E j \in DOMAIN y7' : j >= i /\ E!Carries(j)'
                     /\ y6'.pc = "open" /\ ~y8' =>
                            \/ y9'.turn = y2' \/ E!ToPublish'
                            \/ \E j \in DOMAIN y7' : E!Carries(j)' /\ (E!IsHello(j)' \/ y7'[j].seq > y6'.last)
  BY DEF E!TurnComes
<1>0. E!TypeOK /\ E!TurnComes /\ E!Versions /\ E!Numbered
  BY DEF E!DeliveryInv
<1>1. PICK n \in Nat :
            /\ Len(y7) = n + 1 /\ Len(y7') = n /\ DOMAIN y7 = 1..(n + 1) /\ DOMAIN y7' = 1..n
            /\ (n = 0 => y7' = <<>>) /\ (n # 0 => y7' # <<>>)
            /\ \A i \in 1..n : i + 1 \in 1..(n + 1) /\ y7'[i] = y7[i + 1]
            /\ \A m \in 2..(n + 1) : m - 1 \in 1..n /\ y7'[m - 1] = y7[m]
  BY <1>0, PlacesLeft
<1>2. y6.pc = "open" /\ ~y8 /\ y8' = y8 /\ y2' = y2 /\ y4' = y4 /\ 1 \in 1..(n + 1) /\ y7[1] \in E!EventType
  BY <1>0, ReceiveEffect
<1>3. (E!ToPublish' <=> E!ToPublish) /\ E!TurnStands
  BY <1>0, <1>2, ReceiveEffect DEF E!ToPublish, E!TurnStands
<1>4. /\ \A i \in 1..n : E!Replaces(i)' => E!Replaces(i + 1)
      /\ \A m \in 2..(n + 1) : /\ E!IsHello(m) => E!IsHello(m - 1)'
                               /\ E!Carries(m) => E!Carries(m - 1)'
  BY <1>1, <1>2 DEF E!IsHello, E!Carries, E!Replaces
<1>5. \A m \in 2..(n + 1) : E!IsHello(m) \/ y7[1].seq < y7[m].seq
  <2>1. ASSUME NEW m \in 2..(n + 1) PROVE m \in 1..(n + 1) /\ 1 < m
    OBVIOUS
  <2>2. QED
    BY <1>0, <1>1, <1>2, <2>1 DEF E!Numbered
<1>6. \A m \in 1..(n + 1) : y7[m].seq \in Nat
  BY <1>0, <1>1, VersionFields
<1>7. ASSUME NEW i \in 1..n, E!Replaces(i)'
      PROVE  E!ToPublish' \/ \E j \in 1..n : j >= i /\ E!Carries(j)'
  <2>1. E!Replaces(i + 1) /\ i + 1 \in DOMAIN y7
    BY <1>1, <1>4, <1>7
  <2>2. E!ToPublish \/ \E j \in DOMAIN y7 : j >= i + 1 /\ E!Carries(j)
    BY <1>0, <1>3, <2>1 DEF E!TurnComes
  <2>3. ASSUME NEW j \in DOMAIN y7, j >= i + 1, E!Carries(j)
        PROVE  \E h \in 1..n : h >= i /\ E!Carries(h)'
    <3>1. j \in 2..(n + 1) /\ j - 1 \in 1..n /\ j - 1 >= i
      BY <1>1, <2>3
    <3>2. E!Carries(j - 1)'
      BY <1>4, <2>3, <3>1
    <3>3. QED
      BY <3>1, <3>2
  <2>4. QED
    BY <1>3, <2>2, <2>3
<1>8. \/ y9'.turn = y2 \/ E!ToPublish
      \/ \E j \in 1..n : E!Carries(j)' /\ (E!IsHello(j)' \/ y7'[j].seq > y6'.last)
  <2>1. \/ y9.turn = y2 \/ E!ToPublish
        \/ \E j \in DOMAIN y7 : E!Carries(j) /\ (E!IsHello(j) \/ y7[j].seq > y6.last)
    BY <1>0, <1>2, <1>3 DEF E!TurnComes
  <2>2. CASE ~E!IsHello(1) /\ y7[1].seq <= y6.last /\ UNCHANGED <<y6, y9, y10, y14>>
    <3>1. ASSUME NEW j \in DOMAIN y7, E!Carries(j), E!IsHello(j) \/ y7[j].seq > y6.last
          PROVE  \E h \in 1..n : E!Carries(h)' /\ (E!IsHello(h)' \/ y7'[h].seq > y6'.last)
      <4>1. j # 1
        <5>1. y6.last \in Nat /\ y7[1].seq \in Nat
          BY <1>0, <1>2, <1>6, VersionFields
        <5>2. ~(y7[1].seq > y6.last)
          BY <2>2, <5>1
        <5>3. QED
          BY <2>2, <3>1, <5>2
      <4>2. j \in 2..(n + 1) /\ j - 1 \in 1..n
        BY <1>1, <4>1
      <4>3. y7'[j - 1] = y7[j] /\ E!Carries(j - 1)' /\ (E!IsHello(j) => E!IsHello(j - 1)')
        BY <1>1, <1>4, <3>1, <4>2
      <4>4. QED
        BY <2>2, <3>1, <4>2, <4>3
    <3>2. QED
      BY <2>1, <2>2, <3>1
  <2>3. CASE y6'.last = y7[1].seq
    <3>1. ASSUME NEW j \in 2..(n + 1), E!Carries(j)
          PROVE  \E h \in 1..n : E!Carries(h)' /\ (E!IsHello(h)' \/ y7'[h].seq > y6'.last)
      <4>1. j - 1 \in 1..n /\ y7'[j - 1] = y7[j] /\ E!Carries(j - 1)' /\ (E!IsHello(j) => E!IsHello(j - 1)')
        BY <1>1, <1>4, <3>1
      <4>2. E!IsHello(j) \/ y7[j].seq > y7[1].seq
        <5>1. j \in 1..(n + 1)
          OBVIOUS
        <5>2. y7[j].seq \in Nat /\ y7[1].seq \in Nat
          BY <1>2, <1>6, <5>1
        <5>3. y7[1].seq < y7[j].seq => y7[j].seq > y7[1].seq
          BY <5>2
        <5>4. QED
          BY <1>5, <5>3
      <4>3. QED
        BY <2>3, <4>1, <4>2
    <3>2. \A j \in 1..(n + 1) : j = 1 \/ j \in 2..(n + 1)
      OBVIOUS
    <3>3. CASE E!Replaces(1) /\ y9' = y7[1].body
      <4>1. E!ToPublish \/ \E j \in DOMAIN y7 : E!Carries(j)
        BY <1>0, <1>1, <1>2, <1>3, <3>3 DEF E!TurnComes
      <4>2. E!Carries(1) => y9'.turn = y2
        BY <3>3 DEF E!Carries
      <4>3. QED
        BY <1>1, <3>1, <3>2, <4>1, <4>2
    <3>4. CASE /\ ~E!Replaces(1)
               /\ y9'.turn = IF E!Newer(y7[1]) THEN y7[1].body.turn ELSE y9.turn
      <4>1. y7[1].kind = "turn" => E!Version(y7[1].body.turn)
        BY <1>0, <1>1, <1>2 DEF E!Versions
      <4>2. E!Newer(y7[1]) => y7[1].kind = "turn"
        BY DEF E!Newer
      <4>3. ASSUME y9.turn = y2 PROVE y9'.turn = y2
        <5>1. ~E!Newer(y7[1])
          BY <1>0, <1>2, <1>3, <4>1, <4>2, <4>3, ShownIsNewest
        <5>2. QED
          BY <3>4, <4>3, <5>1
      <4>4. ASSUME E!Carries(1) PROVE y9'.turn = y2
        <5>1. y7[1].kind = "turn" /\ y7[1].body.turn = y2
          BY <1>2, <3>4, <4>4, EventFields DEF E!Carries, E!Replaces
        <5>2. ~E!Newer(y7[1]) => y9.turn = y2
          BY <1>0, <1>2, <1>3, <4>1, <5>1, ShownIsNewest
        <5>3. QED
          BY <3>4, <5>1, <5>2
      <4>5. QED
        BY <1>1, <2>1, <3>1, <3>2, <4>3, <4>4
    <3>5. QED
      <4>1. \/ E!Replaces(1) /\ y9' = y7[1].body
            \/ /\ ~E!Replaces(1)
               /\ y9'.turn = IF E!Newer(y7[1]) THEN y7[1].body.turn ELSE y9.turn
            \/ ~E!IsHello(1) /\ y7[1].seq <= y6.last /\ UNCHANGED <<y6, y9, y10, y14>>
        BY <1>0, ReceiveEffect DEF E!IsHello, E!Replaces
      <4>2. QED
        BY <2>2, <3>3, <3>4, <4>1
  <2>4. QED
    BY <1>0, <2>2, <2>3, ReceiveEffect
<1>9. QED
  BY <1>1, <1>2, <1>3, <1>7, <1>8

LEMMA ReceiveKeepsQueue ==
  ASSUME E!DeliveryInv, E!Receive
  PROVE  E!QueueComes'
<1>0. E!TypeOK /\ E!QueueComes /\ E!Numbered
  BY DEF E!DeliveryInv
<1>1. PICK n \in Nat :
            /\ Len(y7) = n + 1 /\ Len(y7') = n /\ DOMAIN y7 = 1..(n + 1) /\ DOMAIN y7' = 1..n
            /\ (n = 0 => y7' = <<>>) /\ (n # 0 => y7' # <<>>)
            /\ \A i \in 1..n : i + 1 \in 1..(n + 1) /\ y7'[i] = y7[i + 1]
            /\ \A m \in 2..(n + 1) : m - 1 \in 1..n /\ y7'[m - 1] = y7[m]
  BY <1>0, PlacesLeft
<1>2. y6.pc = "open" /\ ~y8 /\ y8' = y8 /\ y3' = y3 /\ y4' = y4 /\ y13' = y13 /\ y15' = y15
      /\ 1 \in 1..(n + 1) /\ y7[1] \in E!EventType
  BY <1>0, ReceiveEffect
<1>3. \A m \in 2..(n + 1) : E!IsHello(m) \/ y7[1].seq < y7[m].seq
  <2>1. ASSUME NEW m \in 2..(n + 1) PROVE m \in 1..(n + 1) /\ 1 < m
    OBVIOUS
  <2>2. QED
    BY <1>0, <1>1, <1>2, <2>1 DEF E!Numbered
<1>4. \A m \in 1..(n + 1) : y7[m].seq \in Nat
  BY <1>0, <1>1, VersionFields
<1>5. E!QueueStands' <=> E!QueueStands
  BY <1>2 DEF E!QueueStands
<1>6. ASSUME NEW i \in 1..n, E!LastOfQueue(i)'
      PROVE  /\ E!ToldOfQueue(i)' => y7'[i].body.queue = y13
             /\ E!IsHello(i)' /\ E!QueueStands => y7'[i].body.queue = y3
  <2>1. i + 1 \in DOMAIN y7 /\ y7'[i] = y7[i + 1]
    BY <1>1
  <2>2. E!LastOfQueue(i + 1)
    <3>1. ASSUME NEW j \in DOMAIN y7, j > i + 1 PROVE ~E!ToldOfQueue(j)
      <4>1. j \in 2..(n + 1) /\ j - 1 \in 1..n /\ j - 1 > i
        BY <1>1, <3>1
      <4>2. y7'[j - 1] = y7[j]
        BY <1>1, <4>1
      <4>3. ~E!ToldOfQueue(j - 1)'
        BY <1>1, <1>6, <4>1 DEF E!LastOfQueue
      <4>4. QED
        BY <4>2, <4>3 DEF E!ToldOfQueue
    <3>2. QED
      BY <3>1 DEF E!LastOfQueue
  <2>3. (E!IsHello(i)' <=> E!IsHello(i + 1)) /\ (E!ToldOfQueue(i)' <=> E!ToldOfQueue(i + 1))
    BY <2>1 DEF E!IsHello, E!ToldOfQueue
  <2>4. QED
    BY <1>0, <2>1, <2>2, <2>3 DEF E!QueueComes
<1>7. ASSUME E!QueueStands,
             \A j \in 1..n : ~E!IsHello(j)' /\ (E!ToldOfQueue(j)' => y7'[j].seq <= y6'.last)
      PROVE  y9'.queue = y3
  <2>1. ASSUME NEW m \in 2..(n + 1)
        PROVE  ~E!IsHello(m) /\ (E!ToldOfQueue(m) => y7[m].seq <= y6'.last)
    <3>1. m - 1 \in 1..n /\ y7'[m - 1] = y7[m]
      BY <1>1
    <3>2. ~E!IsHello(m - 1)' /\ (E!ToldOfQueue(m - 1)' => y7'[m - 1].seq <= y6'.last)
      BY <1>7, <3>1
    <3>3. QED
      BY <3>1, <3>2 DEF E!IsHello, E!ToldOfQueue
  <2>2. \A j \in 1..(n + 1) : j = 1 \/ j \in 2..(n + 1)
    OBVIOUS
  <2>3. CASE ~E!IsHello(1) /\ y7[1].seq <= y6.last /\ UNCHANGED <<y6, y9, y10, y14>>
    <3>1. \A j \in DOMAIN y7 : ~E!IsHello(j) /\ (E!ToldOfQueue(j) => y7[j].seq <= y6.last)
      BY <1>1, <2>1, <2>2, <2>3
    <3>2. QED
      BY <1>0, <1>2, <1>7, <2>3, <3>1 DEF E!QueueComes
  <2>4. CASE y6'.last = y7[1].seq /\ (E!IsHello(1) \/ ~(y7[1].seq <= y6.last))
    <3>1. ASSUME NEW m \in 2..(n + 1) PROVE ~E!IsHello(m) /\ ~E!ToldOfQueue(m)
      <4>1. ~E!IsHello(m) /\ y7[1].seq < y7[m].seq
        BY <1>3, <2>1
      <4>2. m \in 1..(n + 1)
        OBVIOUS
      <4>3. y7[1].seq \in Nat /\ y7[m].seq \in Nat
        BY <1>2, <1>4, <4>2
      <4>4. ~(y7[m].seq <= y7[1].seq)
        BY <4>1, <4>3
      <4>5. QED
        BY <2>1, <2>4, <4>1, <4>4
    <3>2. E!LastOfQueue(1)
      <4>1. \A j \in DOMAIN y7 : j > 1 => j \in 2..(n + 1)
        BY <1>1
      <4>2. QED
        BY <3>1, <4>1 DEF E!LastOfQueue
    <3>3. y13 = y3
      BY <1>7 DEF E!QueueStands
    <3>4. CASE E!IsHello(1) /\ y9' = y7[1].body
      BY <1>0, <1>1, <1>2, <1>7, <3>2, <3>4 DEF E!QueueComes
    <3>5. CASE E!ToldOfQueue(1) /\ y9'.queue = y7[1].body.queue
      BY <1>0, <1>1, <1>2, <3>2, <3>3, <3>5 DEF E!QueueComes
    <3>6. CASE ~E!IsHello(1) /\ ~E!ToldOfQueue(1) /\ y9'.queue = y9.queue
      <4>1. \A j \in DOMAIN y7 : ~E!IsHello(j) /\ (E!ToldOfQueue(j) => y7[j].seq <= y6.last)
        BY <1>1, <2>2, <3>1, <3>6
      <4>2. QED
        BY <1>0, <1>2, <1>7, <3>6, <4>1 DEF E!QueueComes
    <3>7. QED
      <4>1. \/ E!IsHello(1) /\ y9' = y7[1].body
            \/ ~E!IsHello(1) /\ y7[1].seq <= y6.last /\ UNCHANGED <<y6, y9, y10, y14>>
            \/ E!ToldOfQueue(1) /\ y9'.queue = y7[1].body.queue
            \/ ~E!IsHello(1) /\ ~E!ToldOfQueue(1) /\ y9'.queue = y9.queue
        BY <1>0, ReceiveEffect DEF E!IsHello, E!ToldOfQueue
      <4>2. QED
        BY <2>3, <3>4, <3>5, <3>6, <4>1
  <2>5. QED
    BY <1>0, <2>3, <2>4, ReceiveEffect
<1>8. E!QueueNoted(y13)' /\ \A t \in Threads :
        E!HasCopy(t)' \/ y4'[t].pc = "publish queue" => E!QueueNoted(y4[t].queue)'
  BY <1>0, <1>2 DEF E!QueueComes, E!QueueNoted, E!HasCopy
<1>9. QED
  BY <1>1, <1>2, <1>5, <1>6, <1>7, <1>8 DEF E!QueueComes

LEMMA ReceiveKeepsDelivery ==
  ASSUME E!DeliveryInv, E!TypeOK', E!Receive
  PROVE  E!DeliveryInv'
<1>1. UNCHANGED <<y1, y2, y4, y15>>
  BY ReceiveEffect DEF E!DeliveryInv
<1>2. E!EndComes'
  BY <1>1 DEF E!DeliveryInv, E!EndComes
<1>3. QED
  BY <1>2, ReceiveKeepsNumbers, ReceiveKeepsVersions, ReceiveKeepsTurn, ReceiveKeepsQueue
     DEF E!DeliveryInv

(* A socket that connects, reads its baseline, lags or ends. *)
LEMMA SocketKeepsDelivery ==
  ASSUME E!DeliveryInv, E!TypeOK',
         E!Subscribe \/ E!ReadBaseline \/ E!SendHello \/ E!Lagged \/ E!Disconnect
  PROVE  E!DeliveryInv'
<1>0. E!TypeOK /\ E!Numbered /\ E!GoesOn /\ E!Versions /\ E!TurnComes /\ E!QueueComes
  BY DEF E!DeliveryInv
<1>1. UNCHANGED <<y1, y2, y3, y4, y5, y13, y14, y15>>
  BY <1>0, SocketEffect
<1>2. /\ E!NoEventIsMissing' /\ E!EndComes' /\ (E!ToPublish' <=> E!ToPublish)
      /\ E!TurnStands' <=> E!TurnStands
      /\ E!QueueStands' <=> E!QueueStands
      /\ E!QueueNoted(y13)' /\ \A t \in Threads :
            E!HasCopy(t)' \/ y4'[t].pc = "publish queue" => E!QueueNoted(y4[t].queue)'
  BY <1>0, <1>1 DEF E!DeliveryInv, E!NoEventIsMissing, E!EndComes, E!ToPublish, E!TurnStands,
                    E!QueueStands, E!QueueComes, E!QueueNoted, E!HasCopy
<1>3. /\ y5 \in Nat /\ y6.last \in Nat /\ y6.last <= y5 /\ y2.revision \in Nat
      /\ DOMAIN y7 = 1..Len(y7) /\ Len(y7) \in Nat /\ \A i \in DOMAIN y7 : y7[i].seq \in Nat
  BY <1>0, VersionFields DEF E!GoesOn
<1>4. 0 <= y5 /\ y5 <= y5 /\ y2.revision <= y2.revision
  BY <1>3
<1>5. ASSUME E!Version(y9'.turn), \/ y7' = y7 \/ y7' = <<>> PROVE E!Versions'
  <2>1. E!Version(E!Nothing)' /\ E!Version(y9.turn)'
    BY <1>0, <1>1, <1>5 DEF E!Versions, E!Version, E!TurnStands
  <2>2. \A t \in Threads : E!HasCopy(t)' \/ y4'[t].pc = "publish turn" => E!Version(y4[t].turn)'
    BY <1>0, <1>1 DEF E!Versions, E!Version, E!TurnStands, E!HasCopy
  <2>3. \A i \in DOMAIN y7' : y7'[i].kind # "queue" => E!Version(y7[i].body.turn)'
    <3>1. CASE y7' = y7
      BY <1>0, <1>1, <3>1 DEF E!Versions, E!Version, E!TurnStands
    <3>2. CASE y7' = <<>>
      <4>1. DOMAIN y7' = {}
        BY <3>2
      <4>2. QED
        BY <4>1
    <3>3. QED
      BY <1>5, <3>1, <3>2
  <2>4. QED
    BY <2>1, <2>2, <2>3 DEF E!Versions
<1>6. ASSUME y7' = <<>>, y8' = FALSE, y6'.pc \in {"subscribed", "closed"}, y6'.last = 0,
             E!Version(y9'.turn)
      PROVE  E!DeliveryInv'
  <2>1. DOMAIN y7' = {}
    BY <1>6
  <2>2. E!Numbered'
    BY <1>6, <2>1 DEF E!Numbered
  <2>3. E!GoesOn'
    BY <1>1, <1>4, <1>6 DEF E!GoesOn
  <2>4. E!TurnComes'
    BY <1>6, <2>1 DEF E!TurnComes
  <2>5. E!QueueComes'
    BY <1>2, <1>6, <2>1 DEF E!QueueComes
  <2>6. QED
    BY <1>2, <1>5, <1>6, <2>2, <2>3, <2>4, <2>5 DEF E!DeliveryInv
<1>7. ASSUME y7' = y7 PROVE
        /\ \A i \in DOMAIN y7 : /\ E!IsHello(i)' <=> E!IsHello(i)
                                /\ E!Carries(i)' <=> E!Carries(i)
                                /\ E!Replaces(i)' <=> E!Replaces(i)
                                /\ E!ToldOfQueue(i)' <=> E!ToldOfQueue(i)
                                /\ E!LastOfQueue(i)' <=> E!LastOfQueue(i)
  BY <1>1, <1>7 DEF E!IsHello, E!Carries, E!Replaces, E!ToldOfQueue, E!LastOfQueue
<1>8. ASSUME y7' = y7, y6'.pc # "closed", y8' => y7 # <<>> PROVE E!Numbered'
  BY <1>0, <1>1, <1>8 DEF E!Numbered, E!IsHello
<1>9. E!Version(y9.turn) /\ E!Version(E!Nothing) /\ E!Version(y2)
  <2>1. E!Version(y2)
    BY <1>4 DEF E!Version
  <2>2. QED
    BY <1>0, <2>1 DEF E!Versions
<1>10. ASSUME y7' = y7, y6'.pc # "open" PROVE E!TurnComes'
  BY <1>0, <1>2, <1>7, <1>10 DEF E!TurnComes
<1>11. ASSUME y7' = y7, y6'.pc # "open" PROVE E!QueueComes'
  BY <1>0, <1>1, <1>2, <1>7, <1>11 DEF E!QueueComes
<1>12. CASE /\ y6.pc = "closed" /\ y6'.pc = "subscribed" /\ y6'.last = 0 /\ y7' = <<>> /\ y8' = FALSE
            /\ UNCHANGED <<y9, y10>>
  BY <1>3, <1>6, <1>9, <1>12
<1>13. CASE y6.pc = "subscribed" /\ y6'.pc = "baseline" /\ y6'.last = y5 /\ UNCHANGED <<y7, y8, y9, y10>>
  <2>1. y8' => y7 # <<>>
    BY <1>0, <1>13 DEF E!Numbered
  <2>2. y7' # <<>> => y7'[1].seq <= y5 + 1
    <3>1. y7 # <<>> => 1 \in DOMAIN y7
      BY <1>0, SMTT(30) DEF E!TypeOK
    <3>2. y7 # <<>> => y7[1].seq <= y5 /\ y7[1].seq \in Nat
      BY <1>0, <1>3, <3>1 DEF E!Numbered
    <3>3. y7 # <<>> => y7[1].seq <= y5 + 1
      BY <1>3, <3>2
    <3>4. QED
      BY <1>13, <3>3
  <2>3. E!GoesOn'
    BY <1>1, <1>4, <1>13, <2>2 DEF E!GoesOn
  <2>4. E!Numbered' /\ E!TurnComes' /\ E!QueueComes' /\ E!Versions'
    BY <1>3, <1>5, <1>8, <1>9, <1>10, <1>11, <1>13, <2>1
  <2>5. QED
    BY <1>2, <2>3, <2>4 DEF E!DeliveryInv
<1>14. CASE /\ y6.pc = "baseline" /\ y6'.pc = "open" /\ y6'.last = y6.last /\ UNCHANGED <<y7, y8>>
            /\ y9' = [turn |-> y2, queue |-> y3] /\ y10' = y6.last
  <2>1. y8' => y7 # <<>>
    BY <1>0, <1>14 DEF E!Numbered
  <2>2. y9'.turn = y2 /\ y9'.queue = y3
    BY <1>14
  <2>3. E!GoesOn'
    <3>1. /\ ~y8 => /\ y7 = <<>> => y6.last = y5
                    /\ y7 # <<>> => E!IsHello(1) \/ y7[1].seq <= y6.last + 1
      BY <1>0, <1>14 DEF E!GoesOn
    <3>2. QED
      BY <1>1, <1>3, <1>14, <3>1 DEF E!GoesOn, E!IsHello
  <2>4. E!TurnComes'
    BY <1>0, <1>1, <1>2, <1>7, <1>14, <2>2 DEF E!TurnComes
  <2>5. E!QueueComes'
    BY <1>0, <1>1, <1>2, <1>7, <1>14, <2>2 DEF E!QueueComes
  <2>6. E!Numbered' /\ E!Versions'
    BY <1>5, <1>8, <1>9, <1>14, <2>1, <2>2
  <2>7. QED
    BY <1>2, <2>3, <2>4, <2>5, <2>6 DEF E!DeliveryInv
<1>15. CASE /\ y6.pc = "open" /\ y6'.pc = "subscribed" /\ y6'.last = y6.last /\ y8' = FALSE
            /\ UNCHANGED <<y7, y9, y10>>
  <2>1. E!GoesOn'
    BY <1>1, <1>3, <1>15 DEF E!GoesOn
  <2>2. E!Numbered' /\ E!TurnComes' /\ E!QueueComes' /\ E!Versions'
    BY <1>3, <1>5, <1>8, <1>9, <1>10, <1>11, <1>15
  <2>3. QED
    BY <1>2, <2>1, <2>2 DEF E!DeliveryInv
<1>16. CASE y6' = E!Closed /\ y7' = <<>> /\ y8' = FALSE /\ y9' = E!NotKnown /\ y10' = 0
  <2>1. E!Version(y9'.turn) /\ y6'.pc = "closed" /\ y6'.last = 0
    BY <1>9, <1>16, DeliveryConstants
  <2>2. QED
    BY <1>6, <1>16, <2>1
<1>17. QED
  BY <1>0, <1>12, <1>13, <1>14, <1>15, <1>16, SocketEffect

LEMMA StepKeepsDelivery == E!DeliveryInv /\ [E!Next]_E!vars => E!DeliveryInv'
<1>. SUFFICES ASSUME E!DeliveryInv, [E!Next]_E!vars PROVE E!DeliveryInv'
  OBVIOUS
<1>0. E!TypeOK /\ E!TypeOK'
  BY DeliveryTypes DEF E!DeliveryInv
<1>1. ASSUME NEW t \in Threads,
             E!TakeProjection(t) \/ E!Apply(t) \/ E!ChangeQueue(t) \/ E!Stop(t) \/ E!ReadQueue(t)
      PROVE  E!DeliveryInv'
  BY <1>0, <1>1, ThreadKeepsDelivery
<1>2. ASSUME \/ \E t \in Threads : E!PublishTurn(t) \/ E!PublishQueue(t) \/ E!PublishStop(t)
             \/ E!BroadcastBaseline
      PROVE  E!DeliveryInv'
  BY <1>0, <1>2, SendersSend, SendKeepsDelivery
<1>3. CASE E!Receive
  BY <1>0, <1>3, ReceiveKeepsDelivery
<1>4. CASE E!Subscribe \/ E!ReadBaseline \/ E!SendHello \/ E!Lagged \/ E!Disconnect
  BY <1>0, <1>4, SocketKeepsDelivery
<1>5. ASSUME NEW t \in Threads, E!PutBack(t) PROVE E!DeliveryInv'
  BY <1>0, <1>5, PutBackKeepsDelivery
<1>6. CASE UNCHANGED E!vars
  <2>1. UNCHANGED <<y1, y2, y3, y4, y5, y6, y7, y8, y9, y10, y13, y14, y15>>
    BY <1>6 DEF E!vars
  <2>2. E!Versions'
    BY <2>1 DEF E!DeliveryInv, E!Versions, E!Version, E!TurnStands, E!HasCopy
  <2>3. E!TurnComes'
    BY <2>1 DEF E!DeliveryInv, E!TurnComes, E!TurnStands, E!ToPublish, E!Carries, E!IsHello, E!Replaces
  <2>4. E!QueueComes'
    BY <2>1 DEF E!DeliveryInv, E!QueueComes, E!QueueNoted, E!QueueStands, E!LastOfQueue, E!ToldOfQueue,
                E!IsHello, E!HasCopy
  <2>5. E!Numbered' /\ E!GoesOn' /\ E!EndComes' /\ E!NoEventIsMissing'
    BY <2>1 DEF E!DeliveryInv, E!Numbered, E!GoesOn, E!EndComes, E!NoEventIsMissing, E!IsHello
  <2>6. QED
    BY <1>0, <2>2, <2>3, <2>4, <2>5 DEF E!DeliveryInv
<1>7. QED
  BY <1>1, <1>2, <1>3, <1>4, <1>5, <1>6 DEF E!Next

LEMMA DeliveryCatchesUp == E!DeliveryInv => E!PageCatchesUp
<1>. SUFFICES ASSUME E!DeliveryInv, E!HostIsQuiet, E!PageIsCurrent
              PROVE  /\ E!TurnStands => y9.turn = y2
                     /\ y1 = E!Projections /\ ~y15.end => y2.of = E!Projections
                     /\ E!QueueStands => y9.queue = y3
  BY DEF E!PageCatchesUp, E!TurnStands, E!QueueStands
<1>1. y6.pc = "open" /\ ~y8 /\ DOMAIN y7 = {} /\ \A t \in Threads : y4[t].pc = "idle"
  BY DEF E!HostIsQuiet, E!PageIsCurrent
<1>2. E!TurnStands => y9.turn = y2
  BY <1>1 DEF E!DeliveryInv, E!TurnComes, E!ToPublish
<1>3. y1 = E!Projections /\ ~y15.end => y2.of = E!Projections
  BY <1>1 DEF E!DeliveryInv, E!EndComes
<1>4. E!QueueStands => y9.queue = y3
  BY <1>1 DEF E!DeliveryInv, E!QueueComes
<1>5. QED
  BY <1>2, <1>3, <1>4

LEMMA DeliverySteps ==
  (hostPart = "delivery" => E!DeliveryInv) /\ [HostPartsNext]_<<hostPart, laneVars, HostFrom1>>
  => (hostPart = "delivery" => E!DeliveryInv)'
<1>. SUFFICES ASSUME hostPart = "delivery" => E!DeliveryInv,
                     [HostPartsNext]_<<hostPart, laneVars, HostFrom1>>, hostPart' = "delivery"
              PROVE  E!DeliveryInv'
  OBVIOUS
<1>1. hostPart = "delivery" /\ [E!Next]_E!vars
  BY DEF HostPartsNext, HostFrom1, HostFrom14, E!vars
<1>2. QED
  BY <1>1, StepKeepsDelivery

(***************************************************************************)
(* For any number of threads, turns, commands, Stops, failed saves,        *)
(* baselines and connections, and any capacity of the channel: the page    *)
(* never finds an event missing,                                           *)
(* though its receiver lags, its socket is closed and opened again, and    *)
(* baselines are broadcast in between (websocket_session subscribes before *)
(* it reads its baseline; publish_with numbers and sends under one lock).  *)
(***************************************************************************)
THEOREM EventsAreNumbered == HostPartsSpec => []NoEventIsMissing
<1>1. HostPartsInit => (hostPart = "delivery" => E!DeliveryInv)
  BY InitEstablishesDelivery DEF HostPartsInit
<1>2. (hostPart = "delivery" => E!DeliveryInv) => NoEventIsMissing
  BY DEF NoEventIsMissing, E!DeliveryInv
<1>3. QED
  BY <1>1, <1>2, DeliverySteps, PTL DEF HostPartsSpec

(***************************************************************************)
(* For the same constants: once the threads of the Host are idle and all   *)
(* that was published has been received, the page shows the turn the Host  *)
(* has, unless a save failed and the turn that was put back has no later   *)
(* revision than what was undone, or the copy of a Stop was published      *)
(* after a newer turn that no other has followed; a turn whose end was     *)
(* taken from the worker is ended, unless a put-back undid the end,        *)
(* whatever thread applied and published what first; and the queue is the  *)
(* Host's unless a put-back undid a change of it or an older reading was   *)
(* published last (TurnProjectionCache, TurnCancel, mutate_message_queue,  *)
(* publish_message_queue, applyTurnProjection, turn_cancelling).           *)
(***************************************************************************)
THEOREM ThePageCatchesUp == HostPartsSpec => []PageCatchesUp
<1>1. HostPartsInit => (hostPart = "delivery" => E!DeliveryInv)
  BY InitEstablishesDelivery DEF HostPartsInit
<1>2. (hostPart = "delivery" => E!DeliveryInv) => PageCatchesUp
  BY DeliveryCatchesUp DEF PageCatchesUp
<1>3. QED
  BY <1>1, <1>2, DeliverySteps, PTL DEF HostPartsSpec

(***************************************************************************)
(* The timers.                                                             *)
(***************************************************************************)
LEMMA ActorsApart ==
  /\ T!Lane \in T!Actors /\ T!Scheduler \in T!Actors /\ T!Lane # T!Scheduler
  /\ Handlers \subseteq T!Actors /\ T!Lane \notin Handlers /\ T!Scheduler \notin Handlers
  /\ \A t \in T!Timers : t \notin {"idle", "persists", "writes", "syncs", "sends", "merges", "delivers", "saves"}
  /\ UserTimers \subseteq T!Timers /\ ModelTimers \subseteq T!Timers
  /\ \A t \in UserTimers : t \notin ModelTimers /\ t \notin Unusable
BY TimersApart DEF T!Lane, T!Scheduler, T!Actors, T!Timers

LEMMA TimerValues ==
  /\ T!Absent \in {T!Absent} \cup [prompt : 1..2, enabled : BOOLEAN]
  /\ T!New \in {T!Absent} \cup [prompt : 1..2, enabled : BOOLEAN]
  /\ T!Absent.prompt = 0 /\ T!Absent.enabled = FALSE /\ T!New.prompt = 1 /\ T!New # T!Absent
  /\ T!Idle.pc = "idle" /\ T!Idle.copy = <<>> /\ T!Idle.delivered = FALSE /\ T!Idle.syncs = FALSE
  /\ T!Idle = T!Shape(T!Idle)
BY DEF T!Absent, T!New, T!Idle, T!Shape

(* A timer is absent when it has no prompt. *)
LEMMA Prompts ==
  ASSUME NEW h \in T!TimersType
  PROVE  /\ T!Specs(h) \in T!SpecsType
         /\ \A t \in T!Timers : /\ T!Specs(h)[t] = h[t].prompt /\ h[t].prompt \in 0..2
                                /\ h[t] = T!Absent <=> h[t].prompt = 0
                                /\ h[t] # T!Absent => h[t] \in [prompt : 1..2, enabled : BOOLEAN]
<1>1. ASSUME NEW t \in T!Timers
      PROVE  /\ h[t].prompt \in 0..2 /\ (h[t] = T!Absent <=> h[t].prompt = 0)
             /\ h[t] # T!Absent => h[t] \in [prompt : 1..2, enabled : BOOLEAN]
  <2>1. h[t] = T!Absent \/ h[t] \in [prompt : 1..2, enabled : BOOLEAN]
    BY DEF T!TimersType
  <2>2. CASE h[t] = T!Absent
    BY <2>2, TimerValues
  <2>3. CASE h[t] \in [prompt : 1..2, enabled : BOOLEAN]
    BY <2>3, TimerValues
  <2>4. QED
    BY <2>1, <2>2, <2>3
<1>2. QED
  BY <1>1 DEF T!Specs, T!SpecsType

(* A thread becomes what the last four say, and the others stay. *)
Moves(x, pc, copy, delivered, syncs) ==
  /\ y7'[x].pc = pc /\ y7'[x].copy = copy /\ y7'[x].delivered = delivered /\ y7'[x].syncs = syncs
  /\ \A y \in T!Actors \ {x} : y7'[y] = y7[y]
  /\ y7' = [y \in T!Actors |-> T!Shape(y7'[y])]

Is(v, pc, copy, delivered, syncs) ==
  v = [pc |-> pc, copy |-> copy, delivered |-> delivered, syncs |-> syncs]

LEMMA PutThread ==
  ASSUME T!TypeOK, NEW x \in T!Actors, NEW p, NEW k, NEW d, NEW s, NEW v, Is(v, p, k, d, s),
         y7' = [y7 EXCEPT ![x] = v]
  PROVE  Moves(x, p, k, d, s)
<1>1. v = [pc |-> p, copy |-> k, delivered |-> d, syncs |-> s]
  BY DEF Is
<1>2. v.pc = p /\ v.copy = k /\ v.delivered = d /\ v.syncs = s /\ v = T!Shape(v)
  BY <1>1 DEF T!Shape
<1>4. Moves(x, v.pc, v.copy, v.delivered, v.syncs)
  <2>1. y7 = [y \in T!Actors |-> T!Shape(y7[y])]
    BY DEF T!TypeOK
  <2>2. y7'[x] = v /\ \A y \in T!Actors \ {x} : y7'[y] = y7[y]
    BY <2>1
  <2>3. y7' = [y \in T!Actors |-> IF y = x THEN v ELSE y7[y]]
    BY <2>1
  <2>4. \A y \in T!Actors : y7[y] = T!Shape(y7[y])
    BY <2>1
  <2>5. \A y \in T!Actors : y7'[y] = T!Shape(y7'[y])
    BY <1>2, <2>2, <2>4
  <2>6. y7' = [y \in T!Actors |-> y7'[y]]
    BY <2>3
  <2>7. y7' = [y \in T!Actors |-> T!Shape(y7'[y])]
    BY <2>5, <2>6
  <2>8. QED
    BY <2>2, <2>7 DEF Moves
<1>5. QED
  BY <1>2, <1>4

(* The forms of EXCEPT that the actions use. *)
LEMMA ThreadForms ==
  ASSUME NEW v, NEW q, NEW k, NEW d, NEW s, Is(v, q, k, d, s), NEW c, NEW p, NEW b
  PROVE  /\ Is([v EXCEPT !.pc = p, !.copy = c], p, c, d, s)
         /\ Is([v EXCEPT !.pc = p, !.syncs = b], p, k, d, b)
         /\ Is([v EXCEPT !.pc = p, !.delivered = b], p, k, b, s)
         /\ Is([v EXCEPT !.pc = p], p, k, d, s)
<1>1. [v EXCEPT !.pc = p] = [pc |-> p, copy |-> k, delivered |-> d, syncs |-> s]
  BY DEF Is
<1>2. PICK w : w = [v EXCEPT !.pc = p]
  OBVIOUS
<1>3. w = [pc |-> p, copy |-> k, delivered |-> d, syncs |-> s]
  BY <1>1, <1>2
<1>4. [w EXCEPT !.copy = c] = [pc |-> p, copy |-> c, delivered |-> d, syncs |-> s]
  BY <1>3
<1>5. [w EXCEPT !.syncs = b] = [pc |-> p, copy |-> k, delivered |-> d, syncs |-> b]
  BY <1>3
<1>6. [w EXCEPT !.delivered = b] = [pc |-> p, copy |-> k, delivered |-> b, syncs |-> s]
  BY <1>3
<1>7. QED
  BY <1>1, <1>2, <1>4, <1>5, <1>6 DEF Is

LEMMA IdleForm == Is(T!Idle, "idle", <<>>, FALSE, FALSE)
BY DEF T!Idle, Is

LEMMA FormOf ==
  ASSUME T!TypeOK, NEW x \in T!Actors
  PROVE  Is(y7[x], y7[x].pc, y7[x].copy, y7[x].delivered, y7[x].syncs)
<1>1. y7 = [y \in T!Actors |-> T!Shape(y7[y])]
  BY DEF T!TypeOK
<1>2. y7[x] = T!Shape(y7[x])
  BY <1>1
<1>3. QED
  BY <1>2 DEF T!Shape, Is

LEMMA EndThread ==
  ASSUME T!TypeOK, NEW x \in T!Actors, y7' = [y7 EXCEPT ![x] = T!Idle]
  PROVE  Moves(x, "idle", <<>>, FALSE, FALSE)
BY IdleForm, PutThread, Zenon

(* The accidents only grow. *)
LEMMA Accidents ==
  ASSUME NEW S, y13 \subseteq y13', T!Without(S)'
  PROVE  T!Without(S)
BY DEF T!Without

LEMMA HappensEffect ==
  ASSUME NEW what, NEW when, T!Happens(what, when)
  PROVE  y13 \subseteq y13' /\ (when => what \in y13')
BY DEF T!Happens, T!Happen

LEMMA ClearOf ==
  ASSUME NEW S, NEW a \in S, a \in y13'
  PROVE  ~T!Without(S)'
BY DEF T!Without

LEMMA ThreadFieldsOf ==
  ASSUME T!TypeOK, NEW x \in T!Actors
  PROVE  /\ y7[x].syncs \in BOOLEAN /\ y7[x].delivered \in BOOLEAN
         /\ y7[x].pc \in T!Pcs
         /\ y7[x].pc \in {"writes", "delivers", "saves"} => y7[x].copy \in T!TimersType
         /\ y7[x].pc \in {"sends", "merges"} => y7[x].copy \in T!SpecsType
         /\ y7[x].pc \in {"syncs", "sends"} => y7[x].syncs
         /\ y7[x].syncs => y7[x].pc \in {"persists", "writes", "syncs", "sends"}
<1>1. y7 = [y \in T!Actors |-> T!Shape(y7[y])]
  BY DEF T!TypeOK
<1>2. QED
  BY <1>1 DEF T!TypeOK, T!HasTimers, T!HasSpecs

CommandStep(t) ==
  \/ t \in UserTimers /\ T!CreateTimer(t)
  \/ T!DeleteTimer(t) \/ T!ToggleTimer(t) \/ T!UpdateTimer(t)

(* A command of the user: it changes one timer. *)
LEMMA CommandEffect ==
  ASSUME T!TypeOK, NEW t \in T!Timers, CommandStep(t)
  PROVE  \E tells \in BOOLEAN :
           /\ y7[T!Lane].pc = "idle" /\ Moves(T!Lane, "persists", <<>>, FALSE, tells)
           /\ UNCHANGED <<y2, y3, y4, y5, y6, y8, y11>> /\ y9' \in Nat
           /\ y13 \subseteq y13' /\ (tells /\ T!TopicsUnderWay => "crossed" \in y13')
           /\ y1' \in T!TimersType /\ \A u \in T!Timers \ {t} : y1'[u] = y1[u]
           /\ \/ /\ t \in UserTimers /\ t \notin y10 /\ y10' = y10 \cup {t} /\ y12' = y12
                 /\ y1'[t] # T!Absent /\ tells
              \/ /\ y1[t] # T!Absent /\ y1'[t] = T!Absent /\ tells
                 /\ y10' = y10 /\ y12' = y12 \cup {t}
              \/ /\ y1[t] # T!Absent /\ y1'[t] # T!Absent /\ (tells \/ y1'[t].prompt = y1[t].prompt)
                 /\ y10' = y10 /\ y12' = y12
<1>0. y1 \in T!TimersType /\ y9 \in Nat /\ T!Lane \in T!Actors
  BY ActorsApart DEF T!TypeOK
<1>1. ASSUME NEW timers, NEW tells \in BOOLEAN, T!Command(timers, tells)
      PROVE  /\ y7[T!Lane].pc = "idle" /\ Moves(T!Lane, "persists", <<>>, FALSE, tells) /\ y1' = timers
             /\ UNCHANGED <<y2, y3, y4, y5, y6, y8, y11>> /\ y9' \in Nat
             /\ y13 \subseteq y13' /\ (tells /\ T!TopicsUnderWay => "crossed" \in y13')
  <2>1. /\ y7[T!Lane].pc = "idle" /\ y9' = y9 + 1 /\ y1' = timers
        /\ T!Happens("crossed", tells /\ T!TopicsUnderWay)
        /\ UNCHANGED <<y2, y3, y4, y5, y6, y8, y11>>
    BY <1>1 DEF T!Command, T!Event, T!coreVars
  <2>2. y7' = [y7 EXCEPT ![T!Lane] = [T!Idle EXCEPT !.pc = "persists", !.syncs = tells]]
    BY <1>1 DEF T!Command
  <2>3. Is([T!Idle EXCEPT !.pc = "persists", !.syncs = tells], "persists", <<>>, FALSE, tells)
    BY IdleForm, ThreadForms, Zenon
  <2>5. Moves(T!Lane, "persists", <<>>, FALSE, tells)
    BY <1>0, <2>2, <2>3, PutThread, Zenon
  <2>6. y9' \in Nat
    <3>1. y9' = y9 + 1
      BY <2>1
    <3>2. QED
      BY <1>0, <3>1
  <2>7. y13 \subseteq y13' /\ (tells /\ T!TopicsUnderWay => "crossed" \in y13')
    BY <2>1, HappensEffect
  <2>8. QED
    BY <2>1, <2>5, <2>6, <2>7
<1>2. ASSUME NEW v \in {T!Absent} \cup [prompt : 1..2, enabled : BOOLEAN], NEW tells \in BOOLEAN,
             T!Command([y1 EXCEPT ![t] = v], tells)
      PROVE  /\ y7[T!Lane].pc = "idle" /\ Moves(T!Lane, "persists", <<>>, FALSE, tells)
             /\ UNCHANGED <<y2, y3, y4, y5, y6, y8, y11>> /\ y9' \in Nat
             /\ y13 \subseteq y13' /\ (tells /\ T!TopicsUnderWay => "crossed" \in y13')
             /\ y1' \in T!TimersType /\ (\A u \in T!Timers \ {t} : y1'[u] = y1[u]) /\ y1'[t] = v
  <2>1. PICK w : w = [y1 EXCEPT ![t] = v]
    OBVIOUS
  <2>2. w \in T!TimersType /\ (\A u \in T!Timers \ {t} : w[u] = y1[u]) /\ w[t] = v
    BY <1>0, <2>1 DEF T!TimersType
  <2>3. T!Command(w, tells)
    BY <1>2, <2>1
  <2>4. QED
    BY <1>1, <2>2, <2>3, ZenonT(60)
<1>3. CASE t \in UserTimers /\ T!CreateTimer(t)
  <2>1. /\ t \notin y10 /\ y10' = y10 \cup {t} /\ y12' = y12
        /\ T!Command([y1 EXCEPT ![t] = T!New], TRUE)
    BY <1>3 DEF T!CreateTimer
  <2>2. PICK v : v = T!New
    OBVIOUS
  <2>3. v \in {T!Absent} \cup [prompt : 1..2, enabled : BOOLEAN] /\ v # T!Absent
    BY <2>2, TimerValues
  <2>4. T!Command([y1 EXCEPT ![t] = v], TRUE)
    BY <2>1, <2>2
  <2>5. QED
    BY <1>2, <1>3, <2>1, <2>3, <2>4
<1>4. CASE T!DeleteTimer(t)
  <2>1. /\ y1[t] # T!Absent /\ y10' = y10 /\ y12' = y12 \cup {t}
        /\ T!Command([y1 EXCEPT ![t] = T!Absent], TRUE)
    BY <1>4 DEF T!DeleteTimer
  <2>2. T!Absent \in {T!Absent} \cup [prompt : 1..2, enabled : BOOLEAN]
    OBVIOUS
  <2>3. QED
    BY <1>2, <2>1, <2>2
<1>5. CASE T!ToggleTimer(t)
  <2>1. /\ y1[t] # T!Absent /\ y10' = y10 /\ y12' = y12
        /\ T!Command([y1 EXCEPT ![t].enabled = ~@], FALSE)
    BY <1>5 DEF T!ToggleTimer
  <2>2. PICK v : v = [y1[t] EXCEPT !.enabled = ~y1[t].enabled]
    OBVIOUS
  <2>3. v \in [prompt : 1..2, enabled : BOOLEAN] /\ v.prompt = y1[t].prompt
    BY <1>0, <2>1, <2>2, Prompts
  <2>4. T!Command([y1 EXCEPT ![t] = v], FALSE)
    BY <2>1, <2>2
  <2>5. v # T!Absent
    BY <2>3, TimerValues
  <2>6. QED
    BY <1>2, <2>1, <2>3, <2>4, <2>5
<1>6. CASE T!UpdateTimer(t)
  <2>1. /\ y1[t].prompt = 1 /\ y10' = y10 /\ y12' = y12
        /\ T!Command([y1 EXCEPT ![t].prompt = 2], TRUE)
    BY <1>6 DEF T!UpdateTimer
  <2>2. y1[t] # T!Absent
    BY <2>1, TimerValues
  <2>3. PICK v : v = [y1[t] EXCEPT !.prompt = 2]
    OBVIOUS
  <2>4. v \in [prompt : 1..2, enabled : BOOLEAN] /\ v.prompt = 2
    BY <1>0, <2>2, <2>3, Prompts
  <2>5. T!Command([y1 EXCEPT ![t] = v], TRUE)
    BY <2>1, <2>3
  <2>6. v # T!Absent
    BY <2>4, TimerValues
  <2>7. QED
    BY <1>2, <2>1, <2>2, <2>4, <2>5, <2>6
<1>7. QED
  BY <1>3, <1>4, <1>5, <1>6 DEF CommandStep

(* Persisting and telling Core, by the lane, the scheduler or a handler.   *)
LEMMA PersistEffect ==
  ASSUME T!TypeOK, NEW x \in T!Actors, T!Persist(x)
  PROVE  /\ y7[x].pc = "persists" /\ Moves(x, "writes", y1, y7[x].delivered, y7[x].syncs)
         /\ UNCHANGED <<y1, y2, y3, y4, y5, y6, y8, y9, y10, y11, y12>>
         /\ y13 \subseteq y13' /\ (T!Races(x, "writes") => "raced" \in y13')
<1>1. /\ y7[x].pc = "persists" /\ y7' = [y7 EXCEPT ![x].pc = "writes", ![x].copy = y1]
      /\ T!Happens("raced", T!Races(x, "writes"))
      /\ UNCHANGED <<y1, y2, y3, y4, y5, y6, y8, y9, y10, y11, y12>>
  BY DEF T!Persist, T!coreVars, T!history
<1>2. Is([y7[x] EXCEPT !.pc = "writes", !.copy = y1], "writes", y1, y7[x].delivered, y7[x].syncs)
  BY FormOf, ThreadForms, Zenon
<1>3. y7' = [y7 EXCEPT ![x] = [y7[x] EXCEPT !.pc = "writes", !.copy = y1]]
  <2>1. y7 = [y \in T!Actors |-> T!Shape(y7[y])]
    BY DEF T!TypeOK
  <2>2. QED
    BY <1>1, <2>1
<1>6. Moves(x, "writes", y1, y7[x].delivered, y7[x].syncs)
  BY <1>2, <1>3, PutThread, Zenon
<1>7. y13 \subseteq y13' /\ (T!Races(x, "writes") => "raced" \in y13')
  BY <1>1, HappensEffect
<1>8. QED
  BY <1>1, <1>6, <1>7, Zenon

LEMMA WriteEffect ==
  ASSUME T!TypeOK, NEW x \in T!Actors, T!Write(x)
  PROVE  /\ y7[x].pc = "writes" /\ UNCHANGED <<y1, y3, y4, y5, y6, y8, y9, y10, y11, y12>>
         /\ y13 \subseteq y13' /\ (y2' = y7[x].copy \/ (y2' = y2 /\ "unsaved" \in y13'))
         /\ \/ y7[x].syncs /\ Moves(x, "syncs", <<>>, y7[x].delivered, y7[x].syncs)
            \/ (~y7[x].syncs \/ "unsaved" \in y13') /\ Moves(x, "idle", <<>>, FALSE, FALSE)
<1>1. y7[x].pc = "writes" /\ UNCHANGED <<y1, y3, y4, y5, y6, y8, y9, y10, y11, y12>>
  BY DEF T!Write, T!coreVars, T!history
<1>2. T!Happen({"unsaved"}) => y13 \subseteq y13' /\ "unsaved" \in y13'
  BY DEF T!Happen
<1>3. ASSUME y7' = [y7 EXCEPT ![x] = T!Idle] PROVE Moves(x, "idle", <<>>, FALSE, FALSE)
  BY <1>3, EndThread, Zenon
<1>4. ASSUME y7' = [y7 EXCEPT ![x] = T!AfterPersist(x)], y7[x].syncs
      PROVE  Moves(x, "syncs", <<>>, y7[x].delivered, y7[x].syncs)
  <2>1. Is([y7[x] EXCEPT !.pc = "syncs", !.copy = <<>>], "syncs", <<>>, y7[x].delivered, y7[x].syncs)
    BY FormOf, ThreadForms, Zenon
  <2>2. T!AfterPersist(x) = [y7[x] EXCEPT !.pc = "syncs", !.copy = <<>>]
    BY <1>4 DEF T!AfterPersist
  <2>3. y7' = [y7 EXCEPT ![x] = [y7[x] EXCEPT !.pc = "syncs", !.copy = <<>>]]
    BY <1>4, <2>2
  <2>4. QED
    BY <2>1, <2>3, PutThread, Zenon
<1>5. ~y7[x].syncs => T!AfterPersist(x) = T!Idle
  BY DEF T!AfterPersist
<1>6. \/ /\ y2' = y7[x].copy /\ y13' = y13
         /\ y7' = [y7 EXCEPT ![x] = T!AfterPersist(x)]
      \/ /\ y2' = y2 /\ T!Happen({"unsaved"})
         /\ y7' = [y7 EXCEPT ![x] = T!AfterPersist(x)] \/ y7' = [y7 EXCEPT ![x] = T!Idle]
  BY DEF T!Write
<1>7. QED
  BY <1>1, <1>2, <1>3, <1>4, <1>5, <1>6

LEMMA SyncEffect ==
  ASSUME T!TypeOK, NEW x \in T!Actors, T!Sync(x)
  PROVE  /\ y7[x].pc = "syncs" /\ Moves(x, "sends", T!Specs(y1), y7[x].delivered, y7[x].syncs)
         /\ UNCHANGED <<y1, y2, y3, y4, y5, y6, y8, y9, y10, y11, y12>>
         /\ y13 \subseteq y13' /\ (T!Races(x, "sends") => "raced" \in y13')
<1>1. /\ y7[x].pc = "syncs" /\ y7' = [y7 EXCEPT ![x].pc = "sends", ![x].copy = T!Specs(y1)]
      /\ T!Happens("raced", T!Races(x, "sends"))
      /\ UNCHANGED <<y1, y2, y3, y4, y5, y6, y8, y9, y10, y11, y12>>
  BY DEF T!Sync, T!coreVars, T!history
<1>2. Is([y7[x] EXCEPT !.pc = "sends", !.copy = T!Specs(y1)],
         "sends", T!Specs(y1), y7[x].delivered, y7[x].syncs)
  BY FormOf, ThreadForms, Zenon
<1>3. y7' = [y7 EXCEPT ![x] = [y7[x] EXCEPT !.pc = "sends", !.copy = T!Specs(y1)]]
  <2>1. y7 = [y \in T!Actors |-> T!Shape(y7[y])]
    BY DEF T!TypeOK
  <2>2. QED
    BY <1>1, <2>1
<1>6. Moves(x, "sends", T!Specs(y1), y7[x].delivered, y7[x].syncs)
  BY <1>2, <1>3, PutThread, Zenon
<1>7. y13 \subseteq y13' /\ (T!Races(x, "sends") => "raced" \in y13')
  BY <1>1, HappensEffect
<1>8. QED
  BY <1>1, <1>6, <1>7, Zenon

LEMMA SendsEffect ==
  ASSUME T!TypeOK, NEW x \in T!Actors, T!Send(x)
  PROVE  /\ y7[x].pc = "sends" /\ Moves(x, "idle", <<>>, FALSE, FALSE)
         /\ y5' = Append(y5, y7[x].copy) /\ y7[x].copy \in T!SpecsType
         /\ UNCHANGED <<y1, y2, y3, y4, y6, y8, y9, y10, y11, y12, y13>>
<1>1. /\ y7[x].pc = "sends" /\ y7' = [y7 EXCEPT ![x] = T!Idle] /\ y5' = Append(y5, y7[x].copy)
      /\ UNCHANGED <<y1, y2, y3, y4, y6, y8, y9, y10, y11, y12, y13>>
  BY DEF T!Send, T!coreVars, T!history
<1>2. Moves(x, "idle", <<>>, FALSE, FALSE)
  BY <1>1, EndThread, Zenon
<1>3. QED
  BY <1>1, <1>2, ThreadFieldsOf

(* The scheduler. *)
LEMMA TickEffect ==
  ASSUME T!TypeOK, T!Tick
  PROVE  /\ y7[T!Scheduler].pc = "idle" /\ y8 = {} /\ y9' \in Nat
         /\ y8' \subseteq T!Timers /\ (\A t \in y8' : y1[t] # T!Absent)
         /\ UNCHANGED <<y1, y2, y3, y4, y5, y6, y7, y10, y11, y12, y13>>
<1>1. /\ y7[T!Scheduler].pc = "idle" /\ y8 = {} /\ y9' = y9 + 1
      /\ UNCHANGED <<y1, y2, y3, y4, y5, y6, y7, y10, y11, y12, y13>>
  BY DEF T!Tick, T!Event, T!coreVars, T!history
<1>2. y8' \in SUBSET {t \in T!Timers : y1[t].enabled}
  BY DEF T!Tick
<1>3. y8' \subseteq T!Timers /\ (\A t \in y8' : y1[t] # T!Absent)
  BY <1>2, TimerValues
<1>4. y9' \in Nat
  <2>1. y9' = y9 + 1 /\ y9 \in Nat
    BY <1>1 DEF T!TypeOK
  <2>2. QED
    BY <2>1
<1>5. QED
  BY <1>1, <1>3, <1>4

LEMMA DeliverEffect ==
  ASSUME T!TypeOK, T!Deliver
  PROVE  /\ y7[T!Scheduler].pc = "idle"
         /\ Moves(T!Scheduler, "delivers", y1, y7[T!Scheduler].delivered, y7[T!Scheduler].syncs)
         /\ UNCHANGED <<y1, y2, y3, y4, y5, y6, y8, y9, y10, y11, y12, y13>>
<1>1. /\ y7[T!Scheduler].pc = "idle"
      /\ UNCHANGED <<y1, y2, y3, y4, y5, y6, y8, y9, y10, y11, y12, y13>>
  BY DEF T!Deliver, T!coreVars, T!history
<1>2. y7' = [y7 EXCEPT ![T!Scheduler] = [y7[T!Scheduler] EXCEPT !.pc = "delivers", !.copy = y1]]
  BY DEF T!Deliver
<1>3. Is([y7[T!Scheduler] EXCEPT !.pc = "delivers", !.copy = y1],
         "delivers", y1, y7[T!Scheduler].delivered, y7[T!Scheduler].syncs)
  BY ActorsApart, FormOf, ThreadForms, Zenon
<1>4. Moves(T!Scheduler, "delivers", y1, y7[T!Scheduler].delivered, y7[T!Scheduler].syncs)
  BY <1>2, <1>3, ActorsApart, PutThread, Zenon
<1>5. QED
  BY <1>1, <1>4

LEMMA DeliveredEffect ==
  ASSUME T!TypeOK, NEW t \in T!Timers, T!Delivered(t)
  PROVE  /\ y7[T!Scheduler].pc = "delivers" /\ t \in y8 /\ y8' = y8 \ {t}
         /\ UNCHANGED <<y2, y3, y4, y5, y6, y9, y10, y12>>
         /\ \/ /\ y11' = [y11 EXCEPT ![t] = y11[t] + 1] /\ y1' = y1 /\ y13' = y13
               /\ Moves(T!Scheduler, t, <<>>, TRUE, FALSE)
            \/ /\ y11' = y11 /\ y1' \in {y1, y7[T!Scheduler].copy} /\ y13 \subseteq y13'
               /\ (y1' # y1 => "raced" \in y13') /\ Moves(T!Scheduler, t, <<>>, FALSE, FALSE)
<1>1. /\ y7[T!Scheduler].pc = "delivers" /\ t \in y8 /\ y8' = y8 \ {t}
      /\ UNCHANGED <<y2, y3, y4, y5, y6, y9, y10, y12>>
  BY DEF T!Delivered, T!coreVars
<1>2. \/ /\ y11' = [y11 EXCEPT ![t] = y11[t] + 1] /\ y1' = y1 /\ y13' = y13
         /\ y7' = [y7 EXCEPT ![T!Scheduler] = [T!Idle EXCEPT !.pc = t, !.delivered = TRUE]]
      \/ /\ y11' = y11 /\ y1' \in {y1, y7[T!Scheduler].copy} /\ T!Happens("raced", y1' # y1)
         /\ y7' = [y7 EXCEPT ![T!Scheduler] = [T!Idle EXCEPT !.pc = t]]
  BY DEF T!Delivered
<1>3. ASSUME y7' = [y7 EXCEPT ![T!Scheduler] = [T!Idle EXCEPT !.pc = t, !.delivered = TRUE]]
      PROVE  Moves(T!Scheduler, t, <<>>, TRUE, FALSE)
  <2>1. Is([T!Idle EXCEPT !.pc = t, !.delivered = TRUE], t, <<>>, TRUE, FALSE)
    BY IdleForm, ThreadForms, Zenon
  <2>2. QED
    BY <1>3, <2>1, ActorsApart, PutThread, Zenon
<1>4. ASSUME y7' = [y7 EXCEPT ![T!Scheduler] = [T!Idle EXCEPT !.pc = t]]
      PROVE  Moves(T!Scheduler, t, <<>>, FALSE, FALSE)
  <2>1. Is([T!Idle EXCEPT !.pc = t], t, <<>>, FALSE, FALSE)
    BY IdleForm, ThreadForms, Zenon
  <2>2. QED
    BY <1>4, <2>1, ActorsApart, PutThread, Zenon
<1>5. QED
  BY <1>1, <1>2, <1>3, <1>4, HappensEffect

LEMMA SettleEffect ==
  ASSUME T!TypeOK, NEW t \in T!Timers, T!Settle(t)
  PROVE  /\ y7[T!Scheduler].pc = t /\ UNCHANGED <<y2, y3, y4, y5, y6, y8, y9, y10, y11>>
         /\ y13 \subseteq y13'
         /\ \/ /\ y1[t] = T!Absent /\ UNCHANGED <<y1, y12, y13>>
               /\ Moves(T!Scheduler, "idle", <<>>, FALSE, FALSE)
            \/ /\ y1[t] # T!Absent /\ y1' \in T!TimersType
               /\ \A u \in T!Timers \ {t} : y1'[u] = y1[u]
               /\ Moves(T!Scheduler, "persists", <<>>, FALSE, TRUE)
               /\ T!TopicsUnderWay => "crossed" \in y13'
               /\ \/ /\ y7[T!Scheduler].delivered /\ t \notin Repeats
                     /\ y1'[t] = T!Absent /\ y12' = y12 \cup {t}
                  \/ /\ ~y7[T!Scheduler].delivered \/ t \in Repeats
                     /\ y1'[t] # T!Absent /\ y1'[t].prompt = y1[t].prompt /\ y12' = y12
<1>0. y1 \in T!TimersType /\ T!Scheduler \in T!Actors /\ y7[T!Scheduler].delivered \in BOOLEAN
  BY ActorsApart, ThreadFieldsOf DEF T!TypeOK
<1>1. y7[T!Scheduler].pc = t /\ UNCHANGED <<y2, y3, y4, y5, y6, y8, y9, y10, y11>>
  BY DEF T!Settle, T!coreVars
<1>2. CASE y1[t] = T!Absent
  <2>1. y7' = [y7 EXCEPT ![T!Scheduler] = T!Idle] /\ UNCHANGED <<y1, y12, y13>>
    BY <1>2 DEF T!Settle
  <2>2. Moves(T!Scheduler, "idle", <<>>, FALSE, FALSE)
    BY <1>0, <2>1, EndThread, Zenon
  <2>3. QED
    BY <1>1, <1>2, <2>1, <2>2
<1>3. CASE y1[t] # T!Absent
  <2>1. /\ y1' = [y1 EXCEPT ![t] = T!AfterFire(t, y7[T!Scheduler].delivered)]
        /\ y12' = IF y7[T!Scheduler].delivered /\ t \notin Repeats THEN y12 \cup {t} ELSE y12
        /\ T!Happens("crossed", T!TopicsUnderWay)
    BY <1>3 DEF T!Settle
  <2>2. y7' = [y7 EXCEPT ![T!Scheduler] = [T!Idle EXCEPT !.pc = "persists", !.syncs = TRUE]]
    BY <1>3 DEF T!Settle
  <2>3. Is([T!Idle EXCEPT !.pc = "persists", !.syncs = TRUE], "persists", <<>>, FALSE, TRUE)
    BY IdleForm, ThreadForms, Zenon
  <2>4. Moves(T!Scheduler, "persists", <<>>, FALSE, TRUE)
    BY <1>0, <2>2, <2>3, PutThread, Zenon
  <2>5. PICK d : d = [y1[t] EXCEPT !.enabled = FALSE]
    OBVIOUS
  <2>6. y1[t] \in [prompt : 1..2, enabled : BOOLEAN]
    BY <1>0, <1>3, Prompts
  <2>7. d \in [prompt : 1..2, enabled : BOOLEAN] /\ d.prompt = y1[t].prompt
    BY <2>5, <2>6
  <2>8. PICK v : v = T!AfterFire(t, y7[T!Scheduler].delivered)
    OBVIOUS
  <2>9. \/ /\ y7[T!Scheduler].delivered /\ t \notin Repeats /\ v = T!Absent
        \/ /\ ~y7[T!Scheduler].delivered \/ t \in Repeats
           /\ v \in [prompt : 1..2, enabled : BOOLEAN] /\ v.prompt = y1[t].prompt
    BY <2>5, <2>6, <2>7, <2>8 DEF T!AfterFire
  <2>10. v \in {T!Absent} \cup [prompt : 1..2, enabled : BOOLEAN]
    BY <2>9
  <2>11. v \in [prompt : 1..2, enabled : BOOLEAN] => v # T!Absent
    BY TimerValues
  <2>12. y1' \in T!TimersType /\ (\A u \in T!Timers \ {t} : y1'[u] = y1[u]) /\ y1'[t] = v
    BY <1>0, <2>1, <2>8, <2>10 DEF T!TimersType
  <2>13. y13 \subseteq y13' /\ (T!TopicsUnderWay => "crossed" \in y13')
    BY <2>1, HappensEffect
  <2>14. QED
    BY <1>1, <1>3, <2>1, <2>4, <2>9, <2>11, <2>12, <2>13
<1>4. QED
  BY <1>2, <1>3

(* The worker. *)
CallStep(t) == (t \in ModelTimers /\ T!ModelCreates(t)) \/ T!ModelDeletes(t)

LEMMA CallEffect ==
  ASSUME T!TypeOK, NEW t \in T!Timers, CallStep(t)
  PROVE  /\ y4 /\ y9' \in Nat /\ y3' \in T!SpecsType /\ y6' = Append(y6, y3')
         /\ \A u \in T!Timers \ {t} : y3'[u] = y3[u]
         /\ UNCHANGED <<y1, y2, y4, y5, y7, y8, y11>>
         /\ y13 \subseteq y13' /\ (T!SyncsUnderWay => "crossed" \in y13')
         /\ \/ /\ t \in ModelTimers /\ t \notin y10 /\ y10' = y10 \cup {t} /\ y12' = y12
               /\ y3'[t] # 0
            \/ /\ y3[t] # 0 /\ y3'[t] = 0 /\ y10' = y10 /\ y12' = y12 \cup {t}
               /\ t \in UserTimers => "defied" \in y13'
<1>0. y3 \in T!SpecsType /\ y9 \in Nat
  BY DEF T!TypeOK
<1>1. ASSUME NEW v \in 0..2, T!Call([y3 EXCEPT ![t] = v])
      PROVE  /\ y4 /\ y9' \in Nat /\ y3' \in T!SpecsType /\ y6' = Append(y6, y3') /\ y3'[t] = v
             /\ \A u \in T!Timers \ {t} : y3'[u] = y3[u]
             /\ UNCHANGED <<y1, y2, y4, y5, y7, y8, y11>>
  <2>1. PICK w : w = [y3 EXCEPT ![t] = v]
    OBVIOUS
  <2>2. w \in T!SpecsType /\ w[t] = v /\ \A u \in T!Timers \ {t} : w[u] = y3[u]
    BY <1>0, <2>1 DEF T!SpecsType
  <2>3. /\ y4 /\ y9' = y9 + 1 /\ y3' = w /\ y6' = Append(y6, w)
        /\ UNCHANGED <<y1, y2, y4, y5, y7, y8, y11>>
    BY <1>1, <2>1 DEF T!Call, T!Event
  <2>4. y9' \in Nat
    <3>1. y9' = y9 + 1
      BY <2>3
    <3>2. QED
      BY <1>0, <3>1
  <2>5. QED
    BY <2>2, <2>3, <2>4
<1>2. CASE t \in ModelTimers /\ T!ModelCreates(t)
  <2>1. /\ t \notin y10 /\ y10' = y10 \cup {t} /\ y12' = y12 /\ T!Call([y3 EXCEPT ![t] = 1])
        /\ T!Happens("crossed", T!SyncsUnderWay)
    BY <1>2 DEF T!ModelCreates
  <2>2. y13 \subseteq y13' /\ (T!SyncsUnderWay => "crossed" \in y13')
    BY <2>1, HappensEffect
  <2>3. 1 \in 0..2 /\ 1 # 0
    OBVIOUS
  <2>4. QED
    BY <1>1, <1>2, <2>1, <2>2, <2>3
<1>3. CASE T!ModelDeletes(t)
  <2>1. /\ y3[t] # 0 /\ y10' = y10 /\ y12' = y12 \cup {t} /\ T!Call([y3 EXCEPT ![t] = 0])
        /\ T!Happen({a \in {"crossed"} : T!SyncsUnderWay} \cup {a \in {"defied"} : t \in UserTimers})
    BY <1>3 DEF T!ModelDeletes
  <2>2. /\ y13 \subseteq y13' /\ (T!SyncsUnderWay => "crossed" \in y13')
        /\ (t \in UserTimers => "defied" \in y13')
    BY <2>1 DEF T!Happen
  <2>3. 0 \in 0..2
    OBVIOUS
  <2>4. QED
    BY <1>1, <2>1, <2>2, <2>3
<1>4. QED
  BY <1>2, <1>3 DEF CallStep

LEMMA TakeSyncEffect ==
  ASSUME T!TakeSync
  PROVE  /\ ~y4 /\ y5 # <<>> /\ y3' = Head(y5) /\ y5' = Tail(y5)
         /\ UNCHANGED <<y1, y2, y4, y6, y7, y8, y9, y10, y11, y12, y13>>
BY DEF T!TakeSync, T!history

LEMMA TurnEffect ==
  ASSUME T!Turn
  PROVE  /\ y4' = ~y4 /\ UNCHANGED <<y1, y2, y3, y5, y6, y7, y8, y9, y10, y11, y12, y13>>
BY Zenon DEF T!Turn, T!history

(* The events of the worker. *)
LEMMA TakeTopicEffect ==
  ASSUME T!TypeOK, NEW h \in Handlers, T!TakeTopic(h)
  PROVE  /\ y7[h].pc = "idle" /\ y6 # <<>> /\ y6' = Tail(y6)
         /\ Moves(h, "merges", Head(y6), FALSE, FALSE)
         /\ UNCHANGED <<y1, y2, y3, y4, y5, y8, y9, y10, y11, y12>>
         /\ y13 \subseteq y13' /\ (T!Races(h, "merges") => "raced" \in y13')
<1>1. /\ y7[h].pc = "idle" /\ y6 # <<>> /\ y6' = Tail(y6) /\ T!Happens("raced", T!Races(h, "merges"))
      /\ UNCHANGED <<y1, y2, y3, y4, y5, y8, y9, y10, y11, y12>>
  BY DEF T!TakeTopic, T!history
<1>2. y7' = [y7 EXCEPT ![h] = [T!Idle EXCEPT !.pc = "merges", !.copy = Head(y6)]]
  BY DEF T!TakeTopic
<1>3. Is([T!Idle EXCEPT !.pc = "merges", !.copy = Head(y6)], "merges", Head(y6), FALSE, FALSE)
  BY IdleForm, ThreadForms, Zenon
<1>4. h \in T!Actors
  BY ActorsApart
<1>5. Moves(h, "merges", Head(y6), FALSE, FALSE)
  BY <1>2, <1>3, <1>4, PutThread, Zenon
<1>6. y13 \subseteq y13' /\ (T!Races(h, "merges") => "raced" \in y13')
  BY <1>1, HappensEffect
<1>7. QED
  BY <1>1, <1>5, <1>6

(* Other changes of the Session: a copy is kept, and put back. *)
LEMMA SavesEffect ==
  ASSUME T!TypeOK, NEW x \in T!Actors, T!Change(x) \/ T!Saved(x)
  PROVE  /\ y7[x].pc \in {"idle", "saves"}
         /\ \/ Moves(x, "idle", <<>>, FALSE, FALSE)
            \/ Moves(x, "saves", y1, FALSE, FALSE)
         /\ UNCHANGED <<y2, y3, y4, y5, y6, y8, y10, y11, y12>> /\ y9' \in Nat
         /\ y13 \subseteq y13'
         /\ y1' = y1 \/ (y7[x].pc = "saves" /\ y1' = y7[x].copy /\ "raced" \in y13')
<1>0. y9 \in Nat
  BY DEF T!TypeOK
<1>1. CASE T!Change(x)
  <2>1. /\ y7[x].pc = "idle" /\ y9' = y9 + 1
        /\ UNCHANGED <<y1, y2, y3, y4, y5, y6, y8, y10, y11, y12, y13>>
    BY <1>1 DEF T!Change, T!Event, T!coreVars, T!history
  <2>2. y7' = [y7 EXCEPT ![x] = [T!Idle EXCEPT !.pc = "saves", !.copy = y1]]
    BY <1>1 DEF T!Change
  <2>3. Is([T!Idle EXCEPT !.pc = "saves", !.copy = y1], "saves", y1, FALSE, FALSE)
    BY IdleForm, ThreadForms, Zenon
  <2>4. Moves(x, "saves", y1, FALSE, FALSE)
    BY <2>2, <2>3, PutThread, Zenon
  <2>5. y9' \in Nat
    BY <1>0, <2>1
  <2>6. QED
    BY <2>1, <2>4, <2>5
<1>2. CASE T!Saved(x)
  <2>1. /\ y7[x].pc = "saves" /\ y1' \in {y1, y7[x].copy} /\ T!Happens("raced", y1' # y1)
        /\ UNCHANGED <<y2, y3, y4, y5, y6, y8, y9, y10, y11, y12>>
    BY <1>2 DEF T!Saved, T!coreVars, T!history
  <2>2. y7' = [y7 EXCEPT ![x] = T!Idle]
    BY <1>2 DEF T!Saved
  <2>3. Moves(x, "idle", <<>>, FALSE, FALSE)
    BY <2>2, EndThread, Zenon
  <2>4. y13 \subseteq y13' /\ (y1' # y1 => "raced" \in y13')
    BY <2>1, HappensEffect
  <2>5. QED
    BY <1>0, <2>1, <2>3, <2>4
<1>3. QED
  BY <1>1, <1>2

(* The Host takes what it can read, or has. *)
LEMMA MergedTimers ==
  ASSUME T!TypeOK, NEW specs \in T!SpecsType
  PROVE  /\ T!Merged(specs) \in T!TimersType
         /\ \A t \in T!Timers :
              /\ specs[t] # 0 /\ t \notin Unusable => T!Merged(specs)[t].prompt = specs[t]
              /\ specs[t] = 0 /\ t \in UserTimers => T!Merged(specs)[t] = y1[t]
              /\ specs[t] = 0 /\ t \notin UserTimers => T!Merged(specs)[t] = T!Absent
              /\ t \in Unusable /\ y1[t] = T!Absent => T!Merged(specs)[t] = T!Absent
<1>0. y1 \in T!TimersType
  BY DEF T!TypeOK
<1>1. ASSUME NEW t \in T!Timers, specs[t] # 0
      PROVE  [prompt |-> specs[t], enabled |-> y1[t] = T!Absent \/ y1[t].enabled]
               \in [prompt : 1..2, enabled : BOOLEAN]
  <2>1. specs[t] \in 1..2
    <3>1. specs[t] \in 0..2
      BY DEF T!SpecsType
    <3>2. QED
      BY <1>1, <3>1
  <2>2. (y1[t] = T!Absent \/ y1[t].enabled) \in BOOLEAN
    OBVIOUS
  <2>3. QED
    BY <2>1, <2>2
<1>2. \A t \in T!Timers :
         /\ t \in T!Taken(specs) =>
              T!Merged(specs)[t] = [prompt |-> specs[t], enabled |-> y1[t] = T!Absent \/ y1[t].enabled]
         /\ t \notin T!Taken(specs) /\ t \in UserTimers => T!Merged(specs)[t] = y1[t]
         /\ t \notin T!Taken(specs) /\ t \notin UserTimers => T!Merged(specs)[t] = T!Absent
  BY DEF T!Merged
<1>02. \A t \in T!Timers : t \in T!Taken(specs) <=>
          specs[t] # 0 /\ (t \in Unusable => y1[t] # T!Absent)
  BY DEF T!Taken
<1>3. \A t \in T!Timers : T!Merged(specs)[t] \in {T!Absent} \cup [prompt : 1..2, enabled : BOOLEAN]
  <2>1. \A t \in T!Timers : y1[t] \in {T!Absent} \cup [prompt : 1..2, enabled : BOOLEAN]
    BY <1>0 DEF T!TimersType
  <2>2. QED
    BY <1>02, <1>1, <1>2, <2>1
<1>4. T!Merged(specs) = [t \in T!Timers |-> T!Merged(specs)[t]]
  BY DEF T!Merged
<1>5. T!Merged(specs) \in T!TimersType
  BY <1>3, <1>4 DEF T!TimersType
<1>6. ASSUME NEW t \in T!Timers, specs[t] # 0, t \notin Unusable PROVE T!Merged(specs)[t].prompt = specs[t]
  <2>1. PICK e : e = (y1[t] = T!Absent \/ y1[t].enabled)
    OBVIOUS
  <2>2. T!Merged(specs)[t] = [prompt |-> specs[t], enabled |-> e]
    BY <1>02, <1>2, <1>6, <2>1
  <2>3. QED
    BY <2>2
<1>7. QED
  BY <1>02, <1>2, <1>5, <1>6, ActorsApart

LEMMA MergeEffect ==
  ASSUME T!TypeOK, NEW h \in Handlers, T!Merge(h)
  PROVE  /\ y7[h].pc = "merges" /\ y7[h].copy \in T!SpecsType /\ y1' \in T!TimersType
         /\ \A t \in T!Timers :
              /\ y7[h].copy[t] # 0 /\ t \notin Unusable => y1'[t].prompt = y7[h].copy[t] /\ y1'[t] # T!Absent
              /\ y7[h].copy[t] = 0 /\ t \in UserTimers => y1'[t] = y1[t]
              /\ y7[h].copy[t] = 0 /\ t \notin UserTimers => y1'[t] = T!Absent
              /\ t \in Unusable /\ y1[t] = T!Absent => y1'[t] = T!Absent
         /\ Moves(h, "persists", <<>>, FALSE, FALSE)
         /\ UNCHANGED <<y2, y3, y4, y5, y6, y8, y9, y10, y11, y12, y13>>
<1>1. /\ y7[h].pc = "merges" /\ y1' = T!Merged(y7[h].copy)
      /\ UNCHANGED <<y2, y3, y4, y5, y6, y8, y9, y10, y11, y12, y13>>
  BY DEF T!Merge, T!coreVars, T!history
<1>2. h \in T!Actors
  BY ActorsApart
<1>3. y7[h].copy \in T!SpecsType
  BY <1>1, <1>2, ThreadFieldsOf
<1>4. y7' = [y7 EXCEPT ![h] = [T!Idle EXCEPT !.pc = "persists"]]
  BY DEF T!Merge
<1>5. Is([T!Idle EXCEPT !.pc = "persists"], "persists", <<>>, FALSE, FALSE)
  BY IdleForm, ThreadForms, Zenon
<1>6. Moves(h, "persists", <<>>, FALSE, FALSE)
  BY <1>2, <1>4, <1>5, PutThread, Zenon
<1>7. /\ y1' \in T!TimersType
      /\ \A t \in T!Timers :
              /\ y7[h].copy[t] # 0 /\ t \notin Unusable => y1'[t].prompt = y7[h].copy[t]
              /\ y7[h].copy[t] = 0 /\ t \in UserTimers => y1'[t] = y1[t]
              /\ y7[h].copy[t] = 0 /\ t \notin UserTimers => y1'[t] = T!Absent
              /\ t \in Unusable /\ y1[t] = T!Absent => y1'[t] = T!Absent
  BY <1>1, <1>3, MergedTimers
<1>8. \A t \in T!Timers : y7[h].copy[t] # 0 /\ t \notin Unusable => y1'[t] # T!Absent
  BY <1>7, TimerValues
<1>9. QED
  BY <1>1, <1>3, <1>6, <1>7, <1>8

LEMMA RestartEffect ==
  ASSUME T!TypeOK, T!Restart
  PROVE  /\ y1' = y2 /\ y2' = y2 /\ y3' = T!Specs(y2) /\ y4' = FALSE /\ y5' = <<>> /\ y6' = <<>>
         /\ y7' = [x \in T!Actors |-> T!Idle] /\ y8' = {} /\ y9' \in Nat
         /\ UNCHANGED <<y10, y11, y12>> /\ y13 \subseteq y13'
         /\ (y2 # y1 \/ T!TopicsUnderWay \/ y7[T!Scheduler].delivered) => "crashed" \in y13'
<1>1. /\ y1' = y2 /\ y2' = y2 /\ y3' = T!Specs(y2) /\ y4' = FALSE /\ y5' = <<>> /\ y6' = <<>>
      /\ y7' = [x \in T!Actors |-> T!Idle] /\ y8' = {} /\ y9' = y9 + 1
      /\ UNCHANGED <<y10, y11, y12>>
      /\ T!Happens("crashed", y2 # y1 \/ T!TopicsUnderWay \/ y7[T!Scheduler].delivered)
  BY DEF T!Restart, T!Event, T!history
<1>2. y9' \in Nat
  <2>1. y9' = y9 + 1 /\ y9 \in Nat
    BY <1>1 DEF T!TypeOK
  <2>2. QED
    BY <2>1
<1>3. y13 \subseteq y13' /\ ((y2 # y1 \/ T!TopicsUnderWay \/ y7[T!Scheduler].delivered) => "crashed" \in y13')
  BY <1>1, HappensEffect
<1>4. QED
  BY <1>1, <1>2, <1>3

(* Every step is one of these. *)
LEMMA TimerSteps ==
  ASSUME T!Next
  PROVE  \/ \E t \in T!Timers : CommandStep(t) \/ CallStep(t) \/ T!Delivered(t) \/ T!Settle(t)
         \/ \E x \in T!Actors : T!Persist(x) \/ T!Write(x) \/ T!Sync(x) \/ T!Send(x) \/ T!Change(x) \/ T!Saved(x)
         \/ \E h \in Handlers : T!TakeTopic(h) \/ T!Merge(h)
         \/ T!Tick \/ T!Deliver \/ T!TakeSync \/ T!Turn \/ T!Restart
BY ActorsApart DEF T!Next, CommandStep, CallStep

(* Types, and what is known of the timers that anything speaks of. *)
LEMMA LastAppended ==
  ASSUME NEW S, NEW q \in Seq(S), NEW e \in S
  PROVE  /\ Append(q, e) \in Seq(S) /\ Append(q, e) # <<>> /\ Len(Append(q, e)) = Len(q) + 1
         /\ DOMAIN q = 1 .. Len(q) /\ DOMAIN Append(q, e) = 1 .. (Len(q) + 1) /\ Len(q) \in Nat
         /\ Append(q, e)[Len(q) + 1] = e
         /\ \A i \in DOMAIN q : i \in DOMAIN Append(q, e) /\ Append(q, e)[i] = q[i]
         /\ \A i \in DOMAIN Append(q, e) : Append(q, e)[i] = e \/ (i \in DOMAIN q /\ Append(q, e)[i] = q[i])
BY AppendProperties, LenProperties

LEMMA FirstTaken ==
  ASSUME NEW S, NEW q \in Seq(S), q # <<>>
  PROVE  /\ Head(q) \in S /\ Head(q) = q[1] /\ 1 \in DOMAIN q /\ Tail(q) \in Seq(S)
         /\ Len(q) \in Nat /\ Len(q) > 0 /\ DOMAIN q = 1 .. Len(q)
         /\ Len(Tail(q)) = Len(q) - 1 /\ DOMAIN Tail(q) = 1 .. (Len(q) - 1)
         /\ \A i \in DOMAIN Tail(q) : i + 1 \in DOMAIN q /\ Tail(q)[i] = q[i + 1]
         /\ Tail(q) # <<>> => Tail(q)[Len(Tail(q))] = q[Len(q)] /\ Len(Tail(q)) \in DOMAIN Tail(q)
         /\ Tail(q) = <<>> => Len(q) = 1
<1>1. /\ Head(q) \in S /\ Tail(q) \in Seq(S) /\ Len(Tail(q)) = Len(q) - 1
      /\ Len(q) \in Nat \ {0} /\ Head(q) = q[1]
      /\ \A i \in 1 .. Len(q) - 1 : Tail(q)[i] = q[i + 1]
  BY HeadTailProperties, EmptySeq
<1>2. DOMAIN q = 1 .. Len(q) /\ DOMAIN Tail(q) = 1 .. Len(Tail(q))
  BY <1>1, LenProperties
<1>3. Tail(q) = <<>> => Len(Tail(q)) = 0
  BY EmptySeq
<1>4. Tail(q) # <<>> => Len(Tail(q)) # 0
  BY <1>1, EmptySeq
<1>5. \A i \in 1 .. Len(q) - 1 : i + 1 \in 1 .. Len(q)
  BY <1>1
<1>6. Tail(q) # <<>> => Tail(q)[Len(Tail(q))] = q[Len(q)] /\ Len(Tail(q)) \in DOMAIN Tail(q)
  <2>1. SUFFICES ASSUME Tail(q) # <<>> PROVE Tail(q)[Len(Tail(q))] = q[Len(q)] /\ Len(Tail(q)) \in DOMAIN Tail(q)
    OBVIOUS
  <2>2. Len(Tail(q)) \in 1 .. Len(q) - 1 /\ Len(Tail(q)) + 1 = Len(q)
    BY <1>1, <1>4, <2>1
  <2>3. Tail(q)[Len(Tail(q))] = q[Len(Tail(q)) + 1]
    BY <1>1, <2>2
  <2>4. QED
    BY <1>1, <1>2, <2>2, <2>3
<1>7. Len(q) > 0 /\ 1 \in DOMAIN q
  BY <1>1, <1>2
<1>8. Tail(q) = <<>> => Len(q) = 1
  BY <1>1, <1>3
<1>9. \A i \in DOMAIN Tail(q) : i + 1 \in DOMAIN q /\ Tail(q)[i] = q[i + 1]
  <2>1. DOMAIN Tail(q) = 1 .. Len(q) - 1
    BY <1>1, <1>2
  <2>2. QED
    BY <1>1, <1>2, <1>5, <2>1
<1>10. QED
  BY <1>1, <1>2, <1>6, <1>7, <1>8, <1>9

ThreadsOK ==
  /\ y7 = [x \in T!Actors |-> T!Shape(y7[x])]
  /\ \A x \in T!Actors :
       /\ y7[x].pc \in T!Pcs /\ y7[x].delivered \in BOOLEAN /\ y7[x].syncs \in BOOLEAN
       /\ y7[x].pc \in {"writes", "delivers", "saves"} => y7[x].copy \in T!TimersType
       /\ y7[x].pc \in {"sends", "merges"} => y7[x].copy \in T!SpecsType
       /\ y7[x].pc \in {"syncs", "sends"} => y7[x].syncs
       /\ y7[x].syncs => y7[x].pc \in {"persists", "writes", "syncs", "sends"}
       /\ y7[x].pc = "merges" => x \in Handlers
       /\ y7[x].pc = "delivers" => x = T!Scheduler

DataOK ==
  /\ y1 \in T!TimersType /\ y2 \in T!TimersType /\ y3 \in T!SpecsType /\ y4 \in BOOLEAN
  /\ y5 \in Seq(T!SpecsType) /\ y6 \in Seq(T!SpecsType)
  /\ y8 \subseteq T!Timers /\ y9 \in Nat /\ y10 \subseteq T!Timers /\ y12 \subseteq T!Timers
  /\ y11 \in [T!Timers -> Nat]

KnownIn(specs, S) == \A t \in T!Timers : specs[t] # 0 => t \in S

ThreadsKnown ==
  \A x \in T!Actors :
    /\ y7[x].pc \in {"writes", "delivers", "saves"} => KnownIn(T!Specs(y7[x].copy), y10 \ Unusable)
    /\ y7[x].pc = "sends" => KnownIn(y7[x].copy, y10 \ Unusable)
    /\ y7[x].pc = "merges" => KnownIn(y7[x].copy, y10)

DataKnown ==
  /\ KnownIn(T!Specs(y1), y10 \ Unusable) /\ KnownIn(T!Specs(y2), y10 \ Unusable) /\ KnownIn(y3, y10)
  /\ \A i \in DOMAIN y5 : KnownIn(y5[i], y10 \ Unusable)
  /\ \A i \in DOMAIN y6 : KnownIn(y6[i], y10)
  /\ y8 \subseteq y10 \ Unusable /\ y12 \subseteq y10
  /\ \A t \in T!Timers : y11[t] # 0 => t \in y10 \ Unusable

TypesInv == ThreadsOK /\ DataOK /\ ThreadsKnown /\ DataKnown

LEMMA TypeParts == T!TypeOK /\ T!AllKnown <=> TypesInv
BY DEF T!TypeOK, T!AllKnown, T!HasTimers, T!HasSpecs, T!Known, T!Usable, ThreadsOK, DataOK, ThreadsKnown, DataKnown,
       KnownIn, TypesInv

(* What a thread may become. *)
MayBe(x, p, c, d, s, S) ==
  /\ p \in T!Pcs /\ d \in BOOLEAN /\ s \in BOOLEAN
  /\ p \in {"writes", "delivers", "saves"} => c \in T!TimersType /\ KnownIn(T!Specs(c), S \ Unusable)
  /\ p = "sends" => c \in T!SpecsType /\ KnownIn(c, S \ Unusable)
  /\ p = "merges" => c \in T!SpecsType /\ KnownIn(c, S)
  /\ p \in {"syncs", "sends"} => s
  /\ s => p \in {"persists", "writes", "syncs", "sends"}
  /\ p = "merges" => x \in Handlers
  /\ p = "delivers" => x = T!Scheduler

LEMMA MovedThreads ==
  ASSUME TypesInv, y10 \subseteq y10', NEW x \in T!Actors, NEW p, NEW c, NEW d, NEW s,
         Moves(x, p, c, d, s), MayBe(x, p, c, d, s, y10')
  PROVE  ThreadsOK' /\ ThreadsKnown'
<1>1. y7' = [y \in T!Actors |-> T!Shape(y7'[y])] /\ (\A y \in T!Actors \ {x} : y7'[y] = y7[y])
  BY DEF Moves
<1>2. y7'[x].pc = p /\ y7'[x].copy = c /\ y7'[x].delivered = d /\ y7'[x].syncs = s
  BY DEF Moves
<1>3. ASSUME NEW v
      PROVE  /\ KnownIn(v, y10) => KnownIn(v, y10')
             /\ KnownIn(v, y10 \ Unusable) => KnownIn(v, y10' \ Unusable)
  BY DEF KnownIn
<1>4. ThreadsOK'
  BY <1>1, <1>2 DEF TypesInv, ThreadsOK, MayBe
<1>5. ASSUME NEW y \in T!Actors
      PROVE  /\ y7'[y].pc \in {"writes", "delivers", "saves"} => KnownIn(T!Specs(y7'[y].copy), y10' \ Unusable)
             /\ y7'[y].pc = "sends" => KnownIn(y7'[y].copy, y10' \ Unusable)
             /\ y7'[y].pc = "merges" => KnownIn(y7'[y].copy, y10')
  <2>1. CASE y = x
    BY <1>2, <2>1 DEF MayBe
  <2>2. CASE y # x
    BY <1>1, <1>3, <2>2 DEF TypesInv, ThreadsKnown
  <2>3. QED
    BY <2>1, <2>2
<1>6. ThreadsKnown'
  BY <1>5 DEF ThreadsKnown
<1>7. QED
  BY <1>4, <1>6

LEMMA SameThreads ==
  ASSUME TypesInv, y10 \subseteq y10', y7' = y7
  PROVE  ThreadsOK' /\ ThreadsKnown'
<1>1. ThreadsOK'
  BY DEF TypesInv, ThreadsOK
<1>2. ThreadsKnown'
  BY DEF TypesInv, ThreadsKnown, KnownIn
<1>3. QED
  BY <1>1, <1>2

LEMMA TypesGive ==
  ASSUME TypesInv
  PROVE  /\ T!TypeOK /\ DataOK /\ DataKnown
         /\ \A x \in T!Actors : MayBe(x, y7[x].pc, y7[x].copy, y7[x].delivered, y7[x].syncs, y10)
         /\ y7[T!Lane].pc \in T!Pcs
BY TypeParts, ActorsApart DEF TypesInv, MayBe, ThreadsOK, ThreadsKnown

LEMMA KnownTimers ==
  ASSUME NEW h \in T!TimersType, NEW S
  PROVE  KnownIn(T!Specs(h), S) <=> \A t \in T!Timers : h[t] # T!Absent => t \in S
BY Prompts DEF KnownIn

LEMMA MoreKnown ==
  ASSUME NEW v, NEW S, KnownIn(v, S), NEW more, S \subseteq more
  PROVE  KnownIn(v, more)
BY DEF KnownIn

(* A channel of sets of timers each of which is known stays one when one more
   such set is sent, and when the first is taken. *)
LEMMA KnownAppended ==
  ASSUME NEW S, NEW q \in Seq(T!SpecsType), NEW e \in T!SpecsType,
         \A i \in DOMAIN q : KnownIn(q[i], S), KnownIn(e, S)
  PROVE  /\ Append(q, e) \in Seq(T!SpecsType)
         /\ \A i \in DOMAIN Append(q, e) : KnownIn(Append(q, e)[i], S)
<1>1. Append(q, e) \in Seq(T!SpecsType)
  BY LastAppended
<1>2. ASSUME NEW i \in DOMAIN Append(q, e) PROVE KnownIn(Append(q, e)[i], S)
  <2>1. Append(q, e)[i] = e \/ (i \in DOMAIN q /\ Append(q, e)[i] = q[i])
    BY <1>2, LastAppended
  <2>2. QED
    BY <2>1
<1>3. QED
  BY <1>1, <1>2

LEMMA KnownTaken ==
  ASSUME NEW S, NEW q \in Seq(T!SpecsType), q # <<>>,
         \A i \in DOMAIN q : KnownIn(q[i], S)
  PROVE  /\ Head(q) \in T!SpecsType /\ KnownIn(Head(q), S) /\ Tail(q) \in Seq(T!SpecsType)
         /\ \A i \in DOMAIN Tail(q) : KnownIn(Tail(q)[i], S)
<1>1. /\ Head(q) \in T!SpecsType /\ Tail(q) \in Seq(T!SpecsType)
      /\ Head(q) = q[1] /\ 1 \in DOMAIN q
      /\ \A i \in DOMAIN Tail(q) : i + 1 \in DOMAIN q /\ Tail(q)[i] = q[i + 1]
  BY FirstTaken
<1>2. ASSUME NEW i \in DOMAIN Tail(q) PROVE KnownIn(Tail(q)[i], S)
  <2>1. i + 1 \in DOMAIN q /\ Tail(q)[i] = q[i + 1]
    BY <1>1, <1>2
  <2>2. QED
    BY <2>1
<1>3. QED
  BY <1>1, <1>2

(* The data of a step that leaves the queues, or the timers, alone. *)
SameQueues == y5' = y5 /\ y6' = y6
SameTimers == y1' = y1 /\ y2' = y2 /\ y3' = y3
SameHistory == y10' = y10 /\ y11' = y11 /\ y12' = y12

LEMMA TimerCommandTypes ==
  ASSUME TypesInv, NEW t \in T!Timers, CommandStep(t)
  PROVE  TypesInv'
<1>0. T!TypeOK /\ DataOK /\ DataKnown /\ T!Lane \in T!Actors
  BY TypesGive, ActorsApart
<1>1. PICK tells \in BOOLEAN :
           /\ y7[T!Lane].pc = "idle" /\ Moves(T!Lane, "persists", <<>>, FALSE, tells)
           /\ UNCHANGED <<y2, y3, y4, y5, y6, y8, y11>> /\ y9' \in Nat
           /\ y1' \in T!TimersType /\ \A u \in T!Timers \ {t} : y1'[u] = y1[u]
           /\ \/ t \in UserTimers /\ y10' = y10 \cup {t} /\ y12' = y12
              \/ y1[t] # T!Absent /\ y10' = y10 /\ (y12' = y12 \/ y12' = y12 \cup {t})
  BY <1>0, CommandEffect
<1>2. \A u \in T!Timers : y1[u] # T!Absent => u \in y10 \ Unusable
  BY <1>0, KnownTimers DEF DataOK, DataKnown
<1>3. /\ y10 \subseteq y10' /\ t \in y10' \ Unusable /\ y10' \subseteq T!Timers /\ y12' \subseteq y10'
      /\ y10 \ Unusable \subseteq y10' \ Unusable
  BY <1>0, <1>1, <1>2, ActorsApart DEF DataOK, DataKnown
<1>4. \A u \in T!Timers : y1'[u] # T!Absent => u \in y10' \ Unusable
  BY <1>1, <1>2, <1>3
<1>5. KnownIn(T!Specs(y1'), y10' \ Unusable)
  BY <1>1, <1>4, KnownTimers
<1>6. DataKnown'
  <2>1. KnownIn(T!Specs(y2'), y10' \ Unusable) /\ KnownIn(y3', y10')
    BY <1>0, <1>1, <1>3, MoreKnown DEF DataKnown
  <2>2. \A i \in DOMAIN y5' : KnownIn(y5'[i], y10' \ Unusable)
    BY <1>0, <1>1, <1>3, MoreKnown DEF DataKnown
  <2>3. \A i \in DOMAIN y6' : KnownIn(y6'[i], y10')
    BY <1>0, <1>1, <1>3, MoreKnown DEF DataKnown
  <2>4. y8' \subseteq y10' \ Unusable /\ \A u \in T!Timers : y11'[u] # 0 => u \in y10' \ Unusable
    BY <1>0, <1>1, <1>3 DEF DataKnown
  <2>5. QED
    BY <1>3, <1>5, <2>1, <2>2, <2>3, <2>4 DEF DataKnown
<1>7. DataOK'
  BY <1>0, <1>1, <1>3 DEF DataOK
<1>8. MayBe(T!Lane, "persists", <<>>, FALSE, tells, y10')
  BY DEF MayBe, T!Pcs
<1>9. ThreadsOK' /\ ThreadsKnown'
  BY <1>0, <1>1, <1>3, <1>8, MovedThreads
<1>10. QED
  BY <1>6, <1>7, <1>9 DEF TypesInv

(* A step of a thread that changes no data. *)
LEMMA MoveTypes ==
  ASSUME TypesInv, NEW x \in T!Actors, NEW p, NEW c, NEW d, NEW s, Moves(x, p, c, d, s),
         MayBe(x, p, c, d, s, y10), UNCHANGED <<y1, y2, y3, y4, y5, y6, y8, y9, y10, y11, y12>>
  PROVE  TypesInv'
<1>1. ThreadsOK' /\ ThreadsKnown'
  BY MovedThreads
<1>2. DataOK' /\ DataKnown'
  BY DEF TypesInv, DataOK, DataKnown
<1>3. QED
  BY <1>1, <1>2 DEF TypesInv

LEMMA TimerThreadTypes ==
  ASSUME TypesInv, NEW x \in T!Actors,
         T!Persist(x) \/ T!Write(x) \/ T!Sync(x) \/ T!Send(x) \/ T!Change(x) \/ T!Saved(x)
  PROVE  TypesInv'
<1>0. /\ T!TypeOK /\ DataOK /\ DataKnown
      /\ MayBe(x, y7[x].pc, y7[x].copy, y7[x].delivered, y7[x].syncs, y10)
  BY TypesGive
<1>1. CASE T!Persist(x)
  <2>1. /\ y7[x].pc = "persists" /\ Moves(x, "writes", y1, y7[x].delivered, y7[x].syncs)
        /\ UNCHANGED <<y1, y2, y3, y4, y5, y6, y8, y9, y10, y11, y12>>
    BY <1>0, <1>1, PersistEffect
  <2>2. MayBe(x, "writes", y1, y7[x].delivered, y7[x].syncs, y10)
    BY <1>0 DEF MayBe, T!Pcs, DataOK, DataKnown
  <2>3. QED
    BY <2>1, <2>2, MoveTypes
<1>2. CASE T!Write(x)
  <2>1. /\ y7[x].pc = "writes" /\ UNCHANGED <<y1, y3, y4, y5, y6, y8, y9, y10, y11, y12>>
        /\ y2' = y7[x].copy \/ y2' = y2
        /\ \/ y7[x].syncs /\ Moves(x, "syncs", <<>>, y7[x].delivered, y7[x].syncs)
           \/ Moves(x, "idle", <<>>, FALSE, FALSE)
    BY <1>0, <1>2, WriteEffect
  <2>2. /\ y7[x].syncs => MayBe(x, "syncs", <<>>, y7[x].delivered, y7[x].syncs, y10')
        /\ MayBe(x, "idle", <<>>, FALSE, FALSE, y10')
    BY <1>0 DEF MayBe, T!Pcs
  <2>3. ThreadsOK' /\ ThreadsKnown'
    BY <2>1, <2>2, MovedThreads
  <2>4. y2' \in T!TimersType /\ KnownIn(T!Specs(y2'), y10 \ Unusable)
    BY <1>0, <2>1 DEF MayBe, DataOK, DataKnown
  <2>5. DataOK' /\ DataKnown'
    BY <1>0, <2>1, <2>4 DEF DataOK, DataKnown
  <2>6. QED
    BY <2>3, <2>5 DEF TypesInv
<1>3. CASE T!Sync(x)
  <2>1. /\ y7[x].pc = "syncs" /\ Moves(x, "sends", T!Specs(y1), y7[x].delivered, y7[x].syncs)
        /\ UNCHANGED <<y1, y2, y3, y4, y5, y6, y8, y9, y10, y11, y12>>
    BY <1>0, <1>3, SyncEffect
  <2>2. T!Specs(y1) \in T!SpecsType
    BY <1>0, Prompts DEF DataOK
  <2>3. MayBe(x, "sends", T!Specs(y1), y7[x].delivered, y7[x].syncs, y10)
    BY <1>0, <2>1, <2>2 DEF MayBe, T!Pcs, DataKnown
  <2>4. QED
    BY <2>1, <2>3, MoveTypes
<1>4. CASE T!Send(x)
  <2>1. /\ y7[x].pc = "sends" /\ Moves(x, "idle", <<>>, FALSE, FALSE)
        /\ y5' = Append(y5, y7[x].copy) /\ y7[x].copy \in T!SpecsType
        /\ UNCHANGED <<y1, y2, y3, y4, y6, y8, y9, y10, y11, y12>>
    BY <1>0, <1>4, SendsEffect
  <2>2. MayBe(x, "idle", <<>>, FALSE, FALSE, y10')
    BY DEF MayBe, T!Pcs
  <2>3. ThreadsOK' /\ ThreadsKnown'
    BY <2>1, <2>2, MovedThreads
  <2>4. /\ KnownIn(y7[x].copy, y10 \ Unusable) /\ y5 \in Seq(T!SpecsType)
        /\ \A i \in DOMAIN y5 : KnownIn(y5[i], y10 \ Unusable)
    BY <1>0, <2>1 DEF MayBe, DataOK, DataKnown
  <2>5. y5' \in Seq(T!SpecsType) /\ \A i \in DOMAIN y5' : KnownIn(y5'[i], y10 \ Unusable)
    <3>1. PICK S : S = y10 \ Unusable
      OBVIOUS
    <3>2. \A i \in DOMAIN Append(y5, y7[x].copy) : KnownIn(Append(y5, y7[x].copy)[i], S)
      BY <2>1, <2>4, <3>1, KnownAppended
    <3>3. Append(y5, y7[x].copy) \in Seq(T!SpecsType)
      BY <2>1, <2>4, LastAppended
    <3>4. QED
      BY <2>1, <3>1, <3>2, <3>3
  <2>6. DataOK' /\ DataKnown'
    BY <1>0, <2>1, <2>5 DEF DataOK, DataKnown
  <2>7. QED
    BY <2>3, <2>6 DEF TypesInv
<1>5. CASE T!Change(x) \/ T!Saved(x)
  <2>1. /\ y7[x].pc \in {"idle", "saves"}
        /\ \/ Moves(x, "idle", <<>>, FALSE, FALSE)
           \/ Moves(x, "saves", y1, FALSE, FALSE)
        /\ UNCHANGED <<y2, y3, y4, y5, y6, y8, y10, y11, y12>> /\ y9' \in Nat
        /\ y1' = y1 \/ (y7[x].pc = "saves" /\ y1' = y7[x].copy)
    BY <1>0, <1>5, SavesEffect
  <2>2. MayBe(x, "idle", <<>>, FALSE, FALSE, y10') /\ MayBe(x, "saves", y1, FALSE, FALSE, y10')
    BY <1>0, <2>1 DEF MayBe, T!Pcs, DataOK, DataKnown
  <2>3. ThreadsOK' /\ ThreadsKnown'
    BY <2>1, <2>2, MovedThreads
  <2>4. y1' \in T!TimersType /\ KnownIn(T!Specs(y1'), y10 \ Unusable)
    BY <1>0, <2>1 DEF MayBe, DataOK, DataKnown
  <2>5. DataOK' /\ DataKnown'
    BY <1>0, <2>1, <2>4 DEF DataOK, DataKnown
  <2>6. QED
    BY <2>3, <2>5 DEF TypesInv
<1>6. QED
  BY <1>1, <1>2, <1>3, <1>4, <1>5

LEMMA SchedulerTypes ==
  ASSUME TypesInv, T!Tick \/ T!Deliver \/ \E t \in T!Timers : T!Delivered(t) \/ T!Settle(t)
  PROVE  TypesInv'
<1>0. /\ T!TypeOK /\ DataOK /\ DataKnown /\ T!Scheduler \in T!Actors
      /\ MayBe(T!Scheduler, y7[T!Scheduler].pc, y7[T!Scheduler].copy, y7[T!Scheduler].delivered,
               y7[T!Scheduler].syncs, y10)
  BY TypesGive, ActorsApart
<1>01. \A u \in T!Timers : y1[u] # T!Absent => u \in y10 \ Unusable
  BY <1>0, KnownTimers DEF DataOK, DataKnown
<1>1. CASE T!Tick
  <2>1. /\ y9' \in Nat /\ y8' \subseteq T!Timers /\ (\A t \in y8' : y1[t] # T!Absent)
        /\ UNCHANGED <<y1, y2, y3, y4, y5, y6, y7, y10, y11, y12>>
    BY <1>0, <1>1, TickEffect
  <2>2. ThreadsOK' /\ ThreadsKnown'
    BY <2>1, SameThreads
  <2>3. DataOK' /\ DataKnown'
    BY <1>0, <1>01, <2>1 DEF DataOK, DataKnown
  <2>4. QED
    BY <2>2, <2>3 DEF TypesInv
<1>2. CASE T!Deliver
  <2>1. /\ y7[T!Scheduler].pc = "idle"
        /\ Moves(T!Scheduler, "delivers", y1, y7[T!Scheduler].delivered, y7[T!Scheduler].syncs)
        /\ UNCHANGED <<y1, y2, y3, y4, y5, y6, y8, y9, y10, y11, y12>>
    BY <1>0, <1>2, DeliverEffect
  <2>2. MayBe(T!Scheduler, "delivers", y1, y7[T!Scheduler].delivered, y7[T!Scheduler].syncs, y10)
    BY <1>0, <2>1 DEF MayBe, T!Pcs, DataOK, DataKnown
  <2>3. QED
    BY <1>0, <2>1, <2>2, MoveTypes
<1>3. ASSUME NEW t \in T!Timers, T!Delivered(t) PROVE TypesInv'
  <2>1. /\ y7[T!Scheduler].pc = "delivers" /\ t \in y8 /\ y8' = y8 \ {t}
        /\ UNCHANGED <<y2, y3, y4, y5, y6, y9, y10, y12>>
        /\ \/ /\ y11' = [y11 EXCEPT ![t] = y11[t] + 1] /\ y1' = y1
              /\ Moves(T!Scheduler, t, <<>>, TRUE, FALSE)
           \/ /\ y11' = y11 /\ y1' \in {y1, y7[T!Scheduler].copy}
              /\ Moves(T!Scheduler, t, <<>>, FALSE, FALSE)
    BY <1>0, <1>3, DeliveredEffect
  <2>2. t \notin {"idle", "persists", "writes", "syncs", "sends", "merges", "delivers", "saves"}
    BY ActorsApart
  <2>3. \A d \in BOOLEAN : MayBe(T!Scheduler, t, <<>>, d, FALSE, y10')
    BY <2>2 DEF MayBe, T!Pcs
  <2>4. ThreadsOK' /\ ThreadsKnown'
    BY <1>0, <2>1, <2>3, MovedThreads
  <2>5. y1' \in T!TimersType /\ KnownIn(T!Specs(y1'), y10 \ Unusable)
    BY <1>0, <2>1 DEF MayBe, DataOK, DataKnown
  <2>6. y11' \in [T!Timers -> Nat] /\ \A u \in T!Timers \ {t} : y11'[u] = y11[u]
    <3>1. y11 \in [T!Timers -> Nat]
      BY <1>0 DEF DataOK
    <3>2. y11[t] \in Nat /\ y11[t] + 1 \in Nat
      BY <3>1
    <3>3. QED
      BY <2>1, <3>1, <3>2
  <2>7. t \in y10 \ Unusable
    BY <1>0, <2>1 DEF DataKnown
  <2>8. DataOK' /\ DataKnown'
    BY <1>0, <2>1, <2>5, <2>6, <2>7 DEF DataOK, DataKnown
  <2>9. QED
    BY <2>4, <2>8 DEF TypesInv
<1>4. ASSUME NEW t \in T!Timers, T!Settle(t) PROVE TypesInv'
  <2>1. /\ UNCHANGED <<y2, y3, y4, y5, y6, y8, y9, y10, y11>>
        /\ \/ UNCHANGED <<y1, y12>> /\ Moves(T!Scheduler, "idle", <<>>, FALSE, FALSE)
           \/ /\ y1[t] # T!Absent /\ y1' \in T!TimersType
              /\ \A u \in T!Timers \ {t} : y1'[u] = y1[u]
              /\ Moves(T!Scheduler, "persists", <<>>, FALSE, TRUE)
              /\ y12' = y12 \/ y12' = y12 \cup {t}
    BY <1>0, <1>4, SettleEffect
  <2>2. MayBe(T!Scheduler, "idle", <<>>, FALSE, FALSE, y10') /\ MayBe(T!Scheduler, "persists", <<>>, FALSE, TRUE, y10')
    BY DEF MayBe, T!Pcs
  <2>3. ThreadsOK' /\ ThreadsKnown'
    BY <1>0, <2>1, <2>2, MovedThreads
  <2>4. y1' \in T!TimersType /\ y12' \subseteq y10
    BY <1>0, <1>01, <2>1 DEF DataOK, DataKnown
  <2>5. \A u \in T!Timers : y1'[u] # T!Absent => u \in y10 \ Unusable
    BY <1>01, <2>1
  <2>6. KnownIn(T!Specs(y1'), y10 \ Unusable)
    BY <2>4, <2>5, KnownTimers
  <2>7. DataOK' /\ DataKnown'
    BY <1>0, <2>1, <2>4, <2>6 DEF DataOK, DataKnown
  <2>8. QED
    BY <2>3, <2>7 DEF TypesInv
<1>5. QED
  BY <1>1, <1>2, <1>3, <1>4

LEMMA WorkerTypes ==
  ASSUME TypesInv, T!TakeSync \/ T!Turn \/ \E t \in T!Timers : CallStep(t)
  PROVE  TypesInv'
<1>0. T!TypeOK /\ DataOK /\ DataKnown
  BY TypesGive
<1>1. CASE T!TakeSync
  <2>1. /\ y5 # <<>> /\ y3' = Head(y5) /\ y5' = Tail(y5)
        /\ UNCHANGED <<y1, y2, y4, y6, y7, y8, y9, y10, y11, y12>>
    BY <1>1, TakeSyncEffect
  <2>2. ThreadsOK' /\ ThreadsKnown'
    BY <2>1, SameThreads
  <2>3. y5 \in Seq(T!SpecsType)
    BY <1>0 DEF DataOK
  <2>4. /\ y3' \in T!SpecsType /\ KnownIn(y3', y10 \ Unusable) /\ y5' \in Seq(T!SpecsType)
        /\ \A i \in DOMAIN y5' : KnownIn(y5'[i], y10 \ Unusable)
    <3>1. PICK S : S = y10 \ Unusable
      OBVIOUS
    <3>2. \A i \in DOMAIN y5 : KnownIn(y5[i], S)
      BY <1>0, <3>1 DEF DataKnown
    <3>3. /\ Head(y5) \in T!SpecsType /\ KnownIn(Head(y5), S) /\ Tail(y5) \in Seq(T!SpecsType)
          /\ \A i \in DOMAIN Tail(y5) : KnownIn(Tail(y5)[i], S)
      BY <2>1, <2>3, <3>2, KnownTaken
    <3>4. QED
      BY <2>1, <3>1, <3>3
  <2>7. KnownIn(y3', y10)
    BY <2>4 DEF KnownIn
  <2>5. DataOK' /\ DataKnown'
    BY <1>0, <2>1, <2>4, <2>7 DEF DataOK, DataKnown
  <2>6. QED
    BY <2>2, <2>5 DEF TypesInv
<1>2. CASE T!Turn
  <2>1. /\ y4' = ~y4 /\ UNCHANGED <<y1, y2, y3, y5, y6, y7, y8, y9, y10, y11, y12>>
    BY <1>2, TurnEffect
  <2>2. ThreadsOK' /\ ThreadsKnown'
    BY <2>1, SameThreads
  <2>3. y4' \in BOOLEAN
    BY <2>1, Zenon
  <2>4. DataOK' /\ DataKnown'
    BY <1>0, <2>1, <2>3 DEF DataOK, DataKnown
  <2>5. QED
    BY <2>2, <2>4 DEF TypesInv
<1>3. ASSUME NEW t \in T!Timers, CallStep(t) PROVE TypesInv'
  <2>1. /\ y9' \in Nat /\ y3' \in T!SpecsType /\ y6' = Append(y6, y3')
        /\ \A u \in T!Timers \ {t} : y3'[u] = y3[u]
        /\ UNCHANGED <<y1, y2, y4, y5, y7, y8, y11>>
        /\ \/ t \in ModelTimers /\ y10' = y10 \cup {t} /\ y12' = y12
           \/ y3[t] # 0 /\ y10' = y10 /\ y12' = y12 \cup {t}
    BY <1>0, <1>3, CallEffect
  <2>2. \A u \in T!Timers : y3[u] # 0 => u \in y10
    BY <1>0 DEF DataKnown, KnownIn
  <2>3. y10 \subseteq y10' /\ t \in y10' /\ y10' \subseteq T!Timers /\ y12' \subseteq y10'
    BY <1>0, <2>1, <2>2 DEF DataOK, DataKnown
  <2>4. ThreadsOK' /\ ThreadsKnown'
    BY <2>1, <2>3, SameThreads
  <2>5. KnownIn(y3', y10')
    BY <2>1, <2>2, <2>3 DEF KnownIn
  <2>6. y6 \in Seq(T!SpecsType) /\ \A i \in DOMAIN y6 : KnownIn(y6[i], y10')
    BY <1>0, <2>3, MoreKnown DEF DataOK, DataKnown
  <2>7. y6' \in Seq(T!SpecsType) /\ \A i \in DOMAIN y6' : KnownIn(y6'[i], y10')
    BY <2>1, <2>5, <2>6, LastAppended
  <2>14. y10 \ Unusable \subseteq y10' \ Unusable
    BY <2>3
  <2>8. KnownIn(T!Specs(y1'), y10' \ Unusable) /\ KnownIn(T!Specs(y2'), y10' \ Unusable)
    BY <1>0, <2>1, <2>14, MoreKnown DEF DataKnown
  <2>9. \A i \in DOMAIN y5' : KnownIn(y5'[i], y10' \ Unusable)
    BY <1>0, <2>1, <2>14, MoreKnown DEF DataKnown
  <2>10. y8' \subseteq y10' \ Unusable /\ \A u \in T!Timers : y11'[u] # 0 => u \in y10' \ Unusable
    BY <1>0, <2>1, <2>14 DEF DataKnown
  <2>11. DataKnown'
    BY <2>3, <2>5, <2>7, <2>8, <2>9, <2>10 DEF DataKnown
  <2>12. DataOK'
    BY <1>0, <2>1, <2>3, <2>7 DEF DataOK
  <2>13. QED
    BY <2>4, <2>11, <2>12 DEF TypesInv
<1>4. QED
  BY <1>1, <1>2, <1>3

LEMMA HandlerTypes ==
  ASSUME TypesInv, NEW h \in Handlers, T!TakeTopic(h) \/ T!Merge(h)
  PROVE  TypesInv'
<1>0. /\ T!TypeOK /\ DataOK /\ DataKnown /\ h \in T!Actors
      /\ MayBe(h, y7[h].pc, y7[h].copy, y7[h].delivered, y7[h].syncs, y10)
  BY TypesGive, ActorsApart
<1>1. CASE T!TakeTopic(h)
  <2>1. /\ y6 # <<>> /\ y6' = Tail(y6) /\ Moves(h, "merges", Head(y6), FALSE, FALSE)
        /\ UNCHANGED <<y1, y2, y3, y4, y5, y8, y9, y10, y11, y12>>
    BY <1>0, <1>1, TakeTopicEffect
  <2>2. y6 \in Seq(T!SpecsType)
    BY <1>0 DEF DataOK
  <2>3. /\ Head(y6) \in T!SpecsType /\ KnownIn(Head(y6), y10) /\ y6' \in Seq(T!SpecsType)
        /\ \A i \in DOMAIN y6' : KnownIn(y6'[i], y10)
    BY <1>0, <2>1, <2>2, FirstTaken DEF DataKnown
  <2>4. MayBe(h, "merges", Head(y6), FALSE, FALSE, y10')
    BY <2>1, <2>3 DEF MayBe, T!Pcs
  <2>5. ThreadsOK' /\ ThreadsKnown'
    BY <1>0, <2>1, <2>4, MovedThreads
  <2>6. DataOK' /\ DataKnown'
    BY <1>0, <2>1, <2>3 DEF DataOK, DataKnown
  <2>7. QED
    BY <2>5, <2>6 DEF TypesInv
<1>2. CASE T!Merge(h)
  <2>1. /\ y7[h].pc = "merges" /\ y1' \in T!TimersType
        /\ \A t \in T!Timers :
              /\ y7[h].copy[t] = 0 /\ t \in UserTimers => y1'[t] = y1[t]
              /\ y7[h].copy[t] = 0 /\ t \notin UserTimers => y1'[t] = T!Absent
              /\ t \in Unusable /\ y1[t] = T!Absent => y1'[t] = T!Absent
        /\ Moves(h, "persists", <<>>, FALSE, FALSE)
        /\ UNCHANGED <<y2, y3, y4, y5, y6, y8, y9, y10, y11, y12>>
    BY <1>0, <1>2, MergeEffect
  <2>2. MayBe(h, "persists", <<>>, FALSE, FALSE, y10')
    BY DEF MayBe, T!Pcs
  <2>3. ThreadsOK' /\ ThreadsKnown'
    BY <1>0, <2>1, <2>2, MovedThreads
  <2>4. \A u \in T!Timers : y1[u] # T!Absent => u \in y10 \ Unusable
    BY <1>0, KnownTimers DEF DataOK, DataKnown
  <2>5. \A u \in T!Timers : y7[h].copy[u] # 0 => u \in y10
    BY <1>0, <2>1 DEF MayBe, KnownIn
  <2>6. \A u \in T!Timers : y1'[u] # T!Absent => u \in y10 \ Unusable
    BY <2>1, <2>4, <2>5
  <2>7. KnownIn(T!Specs(y1'), y10 \ Unusable)
    BY <2>1, <2>6, KnownTimers
  <2>8. DataOK' /\ DataKnown'
    BY <1>0, <2>1, <2>7 DEF DataOK, DataKnown
  <2>9. QED
    BY <2>3, <2>8 DEF TypesInv
<1>3. QED
  BY <1>1, <1>2

LEMMA IdleThreads ==
  ASSUME y7' = [x \in T!Actors |-> T!Idle]
  PROVE  /\ ThreadsOK' /\ ThreadsKnown'
         /\ \A x \in T!Actors : y7'[x].pc = "idle" /\ y7'[x].syncs = FALSE /\ y7'[x].delivered = FALSE
<1>1. \A x \in T!Actors : /\ y7'[x].pc = "idle" /\ y7'[x].syncs = FALSE /\ y7'[x].delivered = FALSE
                          /\ y7'[x] = T!Shape(y7'[x])
  BY TimerValues
<1>2. y7' = [x \in T!Actors |-> T!Shape(y7'[x])]
  BY <1>1
<1>3. ThreadsOK'
  BY <1>1, <1>2 DEF ThreadsOK, T!Pcs
<1>4. ThreadsKnown'
  BY <1>1 DEF ThreadsKnown
<1>5. QED
  BY <1>1, <1>3, <1>4

LEMMA RestartTypes ==
  ASSUME TypesInv, T!Restart
  PROVE  TypesInv'
<1>0. T!TypeOK /\ DataOK /\ DataKnown
  BY TypesGive
<1>1. /\ y1' = y2 /\ y2' = y2 /\ y3' = T!Specs(y2) /\ y4' = FALSE /\ y5' = <<>> /\ y6' = <<>>
      /\ y7' = [x \in T!Actors |-> T!Idle] /\ y8' = {} /\ y9' \in Nat /\ UNCHANGED <<y10, y11, y12>>
  BY <1>0, RestartEffect
<1>2. ThreadsOK' /\ ThreadsKnown'
  BY <1>1, IdleThreads
<1>3. T!Specs(y2) \in T!SpecsType
  BY <1>0, Prompts DEF DataOK
<1>4. <<>> \in Seq(T!SpecsType) /\ DOMAIN <<>> = {}
  OBVIOUS
<1>5. DataOK'
  BY <1>0, <1>1, <1>3, <1>4 DEF DataOK
<1>6. DataKnown'
  <2>1. KnownIn(T!Specs(y2), y10 \ Unusable)
    BY <1>0 DEF DataKnown
  <2>2. KnownIn(T!Specs(y2), y10)
    BY <2>1, MoreKnown
  <2>3. \A t \in T!Timers : y11[t] # 0 => t \in y10 \ Unusable
    BY <1>0 DEF DataKnown
  <2>4. y12 \subseteq y10
    BY <1>0 DEF DataKnown
  <2>5. KnownIn(T!Specs(y1'), y10' \ Unusable) /\ KnownIn(T!Specs(y2'), y10' \ Unusable) /\ KnownIn(y3', y10')
    BY <1>1, <2>1, <2>2
  <2>6. /\ \A i \in DOMAIN y5' : KnownIn(y5'[i], y10' \ Unusable)
        /\ \A i \in DOMAIN y6' : KnownIn(y6'[i], y10')
    BY <1>1, <1>4
  <2>7. /\ y8' \subseteq y10' \ Unusable /\ y12' \subseteq y10'
        /\ \A t \in T!Timers : y11'[t] # 0 => t \in y10' \ Unusable
    BY <1>1, <2>3, <2>4
  <2>8. QED
    BY <2>5, <2>6, <2>7 DEF DataKnown
<1>7. QED
  BY <1>2, <1>5, <1>6 DEF TypesInv

LEMMA TypesStep ==
  ASSUME TypesInv, T!Next
  PROVE  TypesInv'
BY TimerSteps, TimerCommandTypes, TimerThreadTypes, SchedulerTypes, WorkerTypes, HandlerTypes, RestartTypes

(* Where nothing raced one thread at a time has a copy of a kind. *)
LEMMA MoveApart ==
  ASSUME T!OneAtATime, y13 \subseteq y13', NEW x \in T!Actors, NEW p, NEW c, NEW d, NEW s,
         Moves(x, p, c, d, s),
         p \notin {"writes", "sends", "merges"} \/ ~T!Races(x, p) \/ "raced" \in y13'
  PROVE  T!OneAtATime'
<1>1. SUFFICES ASSUME T!Without({"raced"})', NEW a \in T!Actors, NEW b \in T!Actors,
                      y7'[a].pc = y7'[b].pc, y7'[a].pc \in {"writes", "sends", "merges"}
               PROVE  a = b
  BY DEF T!OneAtATime
<1>2. T!Without({"raced"}) /\ "raced" \notin y13'
  BY <1>1, Accidents DEF T!Without
<1>3. y7'[x].pc = p /\ \A y \in T!Actors \ {x} : y7'[y] = y7[y]
  BY DEF Moves
<1>4. CASE a # x /\ b # x
  BY <1>1, <1>2, <1>3, <1>4 DEF T!OneAtATime
<1>5. CASE a = x /\ b # x
  BY <1>1, <1>2, <1>3, <1>5 DEF T!Races
<1>6. CASE a # x /\ b = x
  BY <1>1, <1>2, <1>3, <1>6 DEF T!Races
<1>7. QED
  BY <1>4, <1>5, <1>6

LEMMA OneAtATimeStep ==
  ASSUME TypesInv, T!OneAtATime, T!Next
  PROVE  T!OneAtATime'
<1>0. T!TypeOK /\ T!Lane \in T!Actors /\ T!Scheduler \in T!Actors /\ Handlers \subseteq T!Actors
  BY TypesGive, ActorsApart
<1>1. ASSUME NEW t \in T!Timers, CommandStep(t) PROVE T!OneAtATime'
  <2>1. y13 \subseteq y13' /\ \E tells \in BOOLEAN : Moves(T!Lane, "persists", <<>>, FALSE, tells)
    BY <1>0, <1>1, CommandEffect
  <2>2. QED
    BY <1>0, <2>1, MoveApart
<1>2. ASSUME NEW t \in T!Timers, CallStep(t) PROVE T!OneAtATime'
  <2>1. y13 \subseteq y13' /\ y7' = y7
    BY <1>0, <1>2, CallEffect
  <2>2. QED
    BY <2>1, Accidents DEF T!OneAtATime
<1>3. ASSUME NEW t \in T!Timers, T!Delivered(t) PROVE T!OneAtATime'
  <2>1. y13 \subseteq y13' /\ \E d \in BOOLEAN : Moves(T!Scheduler, t, <<>>, d, FALSE)
    BY <1>0, <1>3, DeliveredEffect
  <2>2. QED
    BY <1>0, <2>1, MoveApart, ActorsApart
<1>4. ASSUME NEW t \in T!Timers, T!Settle(t) PROVE T!OneAtATime'
  <2>1. /\ y13 \subseteq y13'
        /\ Moves(T!Scheduler, "idle", <<>>, FALSE, FALSE) \/ Moves(T!Scheduler, "persists", <<>>, FALSE, TRUE)
    BY <1>0, <1>4, SettleEffect
  <2>2. QED
    BY <1>0, <2>1, MoveApart
<1>5. ASSUME NEW x \in T!Actors, T!Persist(x) PROVE T!OneAtATime'
  BY <1>0, <1>5, PersistEffect, MoveApart
<1>6. ASSUME NEW x \in T!Actors, T!Write(x) PROVE T!OneAtATime'
  <2>1. /\ y13 \subseteq y13'
        /\ \/ Moves(x, "syncs", <<>>, y7[x].delivered, y7[x].syncs)
           \/ Moves(x, "idle", <<>>, FALSE, FALSE)
    BY <1>0, <1>6, WriteEffect
  <2>2. QED
    BY <1>0, <2>1, MoveApart
<1>7. ASSUME NEW x \in T!Actors, T!Sync(x) PROVE T!OneAtATime'
  BY <1>0, <1>7, SyncEffect, MoveApart
<1>8. ASSUME NEW x \in T!Actors, T!Send(x) PROVE T!OneAtATime'
  BY <1>0, <1>8, SendsEffect, MoveApart
<1>9. ASSUME NEW h \in Handlers, T!TakeTopic(h) PROVE T!OneAtATime'
  BY <1>0, <1>9, TakeTopicEffect, MoveApart
<1>10. ASSUME NEW h \in Handlers, T!Merge(h) PROVE T!OneAtATime'
  BY <1>0, <1>10, MergeEffect, MoveApart
<1>11. CASE T!Deliver
  BY <1>0, <1>11, DeliverEffect, MoveApart
<1>12. CASE T!Restart
  <2>1. y7' = [x \in T!Actors |-> T!Idle]
    BY <1>0, <1>12, RestartEffect
  <2>2. \A x \in T!Actors : y7'[x].pc = "idle"
    BY <2>1, IdleThreads
  <2>3. QED
    BY <2>2 DEF T!OneAtATime
<1>13. CASE T!TakeSync \/ T!Turn \/ T!Tick
  <2>1. y13 \subseteq y13' /\ y7' = y7
    BY <1>0, <1>13, TakeSyncEffect, TurnEffect, TickEffect
  <2>2. QED
    BY <2>1, Accidents DEF T!OneAtATime
<1>14. ASSUME NEW x \in T!Actors, T!Change(x) \/ T!Saved(x) PROVE T!OneAtATime'
  BY <1>0, <1>14, SavesEffect, MoveApart
<1>15. QED
  BY <1>1, <1>2, <1>3, <1>4, <1>5, <1>6, <1>7, <1>8, <1>9, <1>10, <1>11, <1>12, <1>13, <1>14, TimerSteps

(* A change of the Host's timers reaches the file. *)
LEMMA MoveFollowed ==
  ASSUME T!FileFollows, y13 \subseteq y13', y1' = y1, y2' = y2, NEW x \in T!Actors,
         NEW p, NEW c, NEW d, NEW s, Moves(x, p, c, d, s),
         y7[x].pc \notin {"persists", "writes"}, p \notin {"persists", "writes"}
  PROVE  T!FileFollows'
<1>1. SUFFICES ASSUME T!Without({"raced", "unsaved"})', \A y \in T!Actors : y7'[y].pc # "persists"
               PROVE  /\ \A y \in T!Actors : y7'[y].pc = "writes" => y7'[y].copy = y1'
                      /\ (\A y \in T!Actors : y7'[y].pc # "writes") => y2' = y1'
  BY DEF T!FileFollows
<1>2. T!Without({"raced", "unsaved"})
  BY <1>1, Accidents
<1>3. y7'[x].pc = p /\ \A y \in T!Actors \ {x} : y7'[y] = y7[y]
  BY DEF Moves
<1>4. \A y \in T!Actors : y7[y].pc # "persists"
  BY <1>1, <1>3
<1>5. /\ \A y \in T!Actors : y7[y].pc = "writes" => y7[y].copy = y1
      /\ (\A y \in T!Actors : y7[y].pc # "writes") => y2 = y1
  BY <1>2, <1>4 DEF T!FileFollows
<1>6. \A y \in T!Actors : y7'[y].pc = "writes" => y7[y].pc = "writes" /\ y7'[y].copy = y7[y].copy
  BY <1>3
<1>7. \A y \in T!Actors : y7[y].pc = "writes" => y7'[y].pc = "writes"
  BY <1>3
<1>8. QED
  BY <1>5, <1>6, <1>7

LEMMA ToPersist ==
  ASSUME NEW x \in T!Actors, NEW c, NEW d, NEW s, Moves(x, "persists", c, d, s)
  PROVE  T!FileFollows'
<1>1. y7'[x].pc = "persists"
  BY DEF Moves
<1>2. QED
  BY <1>1 DEF T!FileFollows

LEMMA FileFollowsStep ==
  ASSUME TypesInv, T!OneAtATime, T!FileFollows, T!Next
  PROVE  T!FileFollows'
<1>0. T!TypeOK /\ T!Lane \in T!Actors /\ T!Scheduler \in T!Actors /\ Handlers \subseteq T!Actors
  BY TypesGive, ActorsApart
<1>1. ASSUME NEW t \in T!Timers, CommandStep(t) PROVE T!FileFollows'
  <2>1. \E tells \in BOOLEAN : Moves(T!Lane, "persists", <<>>, FALSE, tells)
    BY <1>0, <1>1, CommandEffect
  <2>2. QED
    BY <1>0, <2>1, ToPersist
<1>2. ASSUME y13 \subseteq y13', y7' = y7, y1' = y1, y2' = y2 PROVE T!FileFollows'
  <2>1. T!Without({"raced", "unsaved"})' => T!Without({"raced", "unsaved"})
    BY <1>2, Accidents
  <2>2. QED
    BY <1>2, <2>1 DEF T!FileFollows
<1>3. ASSUME NEW t \in T!Timers, T!Delivered(t) PROVE T!FileFollows'
  <2>1. /\ y13 \subseteq y13' /\ y2' = y2 /\ y7[T!Scheduler].pc = "delivers"
        /\ y1' = y1 \/ "raced" \in y13'
        /\ \E d \in BOOLEAN : Moves(T!Scheduler, t, <<>>, d, FALSE)
    BY <1>0, <1>3, DeliveredEffect
  <2>2. CASE y1' = y1
    BY <1>0, <2>1, <2>2, MoveFollowed, ActorsApart
  <2>3. CASE "raced" \in y13'
    BY <2>3 DEF T!FileFollows, T!Without
  <2>4. QED
    BY <2>1, <2>2, <2>3
<1>4. ASSUME NEW t \in T!Timers, T!Settle(t) PROVE T!FileFollows'
  <2>1. /\ y13 \subseteq y13' /\ y2' = y2 /\ y7[T!Scheduler].pc = t
        /\ \/ y1' = y1 /\ Moves(T!Scheduler, "idle", <<>>, FALSE, FALSE)
           \/ Moves(T!Scheduler, "persists", <<>>, FALSE, TRUE)
    BY <1>0, <1>4, SettleEffect
  <2>2. y7[T!Scheduler].pc \notin {"persists", "writes"}
    BY <2>1, ActorsApart
  <2>3. CASE y1' = y1 /\ Moves(T!Scheduler, "idle", <<>>, FALSE, FALSE)
    <3>1. y13 \subseteq y13' /\ y1' = y1 /\ y2' = y2 /\ Moves(T!Scheduler, "idle", <<>>, FALSE, FALSE)
      BY <2>1, <2>3
    <3>2. "idle" \notin {"persists", "writes"}
      OBVIOUS
    <3>3. QED
      BY <1>0, <2>2, <3>1, <3>2, MoveFollowed, Zenon
  <2>4. CASE Moves(T!Scheduler, "persists", <<>>, FALSE, TRUE)
    BY <1>0, <2>4, ToPersist
  <2>5. QED
    BY <2>1, <2>3, <2>4
<1>5. ASSUME NEW x \in T!Actors, T!Persist(x) PROVE T!FileFollows'
  <2>1. /\ y7[x].pc = "persists" /\ Moves(x, "writes", y1, y7[x].delivered, y7[x].syncs) /\ y1' = y1
        /\ T!Races(x, "writes") => "raced" \in y13'
    BY <1>0, <1>5, PersistEffect
  <2>2. y7'[x].pc = "writes" /\ y7'[x].copy = y1' /\ \A y \in T!Actors \ {x} : y7'[y] = y7[y]
    BY <2>1 DEF Moves
  <2>3. T!Without({"raced", "unsaved"})' => ~T!Races(x, "writes")
    BY <2>1 DEF T!Without
  <2>4. QED
    BY <2>2, <2>3 DEF T!FileFollows, T!Races
<1>6. ASSUME NEW x \in T!Actors, T!Write(x) PROVE T!FileFollows'
  <2>1. /\ y7[x].pc = "writes" /\ y1' = y1 /\ y13 \subseteq y13'
        /\ y2' = y7[x].copy \/ "unsaved" \in y13'
        /\ \/ Moves(x, "syncs", <<>>, y7[x].delivered, y7[x].syncs)
           \/ Moves(x, "idle", <<>>, FALSE, FALSE)
    BY <1>0, <1>6, WriteEffect
  <2>2. y7'[x].pc \in {"syncs", "idle"} /\ \A y \in T!Actors \ {x} : y7'[y] = y7[y]
    BY <2>1 DEF Moves
  <2>3. SUFFICES ASSUME T!Without({"raced", "unsaved"})', \A y \in T!Actors : y7'[y].pc # "persists"
                 PROVE  /\ \A y \in T!Actors : y7'[y].pc # "writes"
                        /\ y2' = y1'
    BY DEF T!FileFollows
  <2>4. T!Without({"raced", "unsaved"}) /\ "unsaved" \notin y13'
    BY <2>1, <2>3, Accidents DEF T!Without
  <2>5. T!Without({"raced"})
    BY <2>4 DEF T!Without
  <2>6. \A y \in T!Actors : y7[y].pc = "writes" => y = x
    BY <2>1, <2>5 DEF T!OneAtATime
  <2>7. \A y \in T!Actors : y7[y].pc # "persists"
    BY <2>1, <2>2, <2>3
  <2>8. y7[x].copy = y1
    BY <2>1, <2>4, <2>7 DEF T!FileFollows
  <2>9. QED
    BY <2>1, <2>2, <2>4, <2>6, <2>8
<1>7. ASSUME NEW x \in T!Actors, T!Sync(x) PROVE T!FileFollows'
  BY <1>0, <1>7, SyncEffect, MoveFollowed
<1>8. ASSUME NEW x \in T!Actors, T!Send(x) PROVE T!FileFollows'
  BY <1>0, <1>8, SendsEffect, MoveFollowed
<1>9. ASSUME NEW h \in Handlers, T!TakeTopic(h) PROVE T!FileFollows'
  BY <1>0, <1>9, TakeTopicEffect, MoveFollowed
<1>10. ASSUME NEW h \in Handlers, T!Merge(h) PROVE T!FileFollows'
  BY <1>0, <1>10, MergeEffect, ToPersist
<1>11. CASE T!Deliver
  BY <1>0, <1>11, DeliverEffect, MoveFollowed
<1>12. CASE T!Restart
  <2>1. y7' = [x \in T!Actors |-> T!Idle] /\ y1' = y2 /\ y2' = y2
    BY <1>0, <1>12, RestartEffect
  <2>2. \A x \in T!Actors : y7'[x].pc = "idle"
    BY <2>1, IdleThreads
  <2>3. QED
    BY <2>1, <2>2 DEF T!FileFollows
<1>13. CASE T!TakeSync \/ T!Turn \/ T!Tick
  <2>1. y13 \subseteq y13' /\ y7' = y7 /\ y1' = y1 /\ y2' = y2
    BY <1>0, <1>13, TakeSyncEffect, TurnEffect, TickEffect
  <2>2. QED
    BY <1>2, <2>1
<1>14. ASSUME NEW t \in T!Timers, CallStep(t) PROVE T!FileFollows'
  <2>1. y13 \subseteq y13' /\ y7' = y7 /\ y1' = y1 /\ y2' = y2
    BY <1>0, <1>14, CallEffect
  <2>2. QED
    BY <1>2, <2>1
<1>15. ASSUME NEW x \in T!Actors, T!Change(x) \/ T!Saved(x) PROVE T!FileFollows'
  <2>1. /\ y13 \subseteq y13' /\ y2' = y2 /\ y7[x].pc \in {"idle", "saves"}
        /\ y1' = y1 \/ "raced" \in y13'
        /\ Moves(x, "idle", <<>>, FALSE, FALSE) \/ Moves(x, "saves", y1, FALSE, FALSE)
    BY <1>0, <1>15, SavesEffect
  <2>2. CASE y1' = y1
    <3>1. /\ y7[x].pc \notin {"persists", "writes"}
          /\ "idle" \notin {"persists", "writes"} /\ "saves" \notin {"persists", "writes"}
      BY <2>1
    <3>2. CASE Moves(x, "idle", <<>>, FALSE, FALSE)
      BY <1>0, <2>1, <2>2, <3>1, <3>2, MoveFollowed
    <3>3. CASE Moves(x, "saves", y1, FALSE, FALSE)
      BY <1>0, <2>1, <2>2, <3>1, <3>3, MoveFollowed
    <3>4. QED
      BY <2>1, <3>2, <3>3
  <2>3. CASE "raced" \in y13'
    BY <2>3 DEF T!FileFollows, T!Without
  <2>4. QED
    BY <2>1, <2>2, <2>3
<1>16. QED
  BY <1>1, <1>3, <1>4, <1>5, <1>6, <1>7, <1>8, <1>9, <1>10, <1>11, <1>12, <1>13, <1>14, <1>15, TimerSteps

(* A timer of the user stays until it is deleted or has fired. *)
LEMMA UserTimersStep ==
  ASSUME TypesInv, T!UserTimersStay, T!Next
  PROVE  T!UserTimersStay'
<1>0. T!TypeOK /\ DataKnown
  BY TypesGive
<1>1. ASSUME y13 \subseteq y13', y10' = y10, y12 \subseteq y12',
             \A t \in UserTimers : y1'[t] # T!Absent \/ y1'[t] = y1[t] \/ t \in y12'
      PROVE  T!UserTimersStay'
  <2>1. T!Without({"raced", "crashed"})' => T!Without({"raced", "crashed"})
    BY <1>1, Accidents
  <2>2. QED
    BY <1>1, <2>1 DEF T!UserTimersStay
<1>2. ASSUME NEW t \in T!Timers, CommandStep(t) PROVE T!UserTimersStay'
  <2>1. /\ y13 \subseteq y13' /\ (\A u \in T!Timers \ {t} : y1'[u] = y1[u])
        /\ \/ y10' = y10 \cup {t} /\ y12' = y12 /\ y1'[t] # T!Absent
           \/ y1'[t] = T!Absent /\ y10' = y10 /\ y12' = y12 \cup {t}
           \/ y1'[t] # T!Absent /\ y10' = y10 /\ y12' = y12
    BY <1>0, <1>2, CommandEffect
  <2>2. T!Without({"raced", "crashed"})' => T!Without({"raced", "crashed"})
    BY <2>1, Accidents
  <2>3. QED
    BY <2>1, <2>2, ActorsApart DEF T!UserTimersStay
<1>3. ASSUME NEW t \in T!Timers, CallStep(t) PROVE T!UserTimersStay'
  <2>1. /\ y13 \subseteq y13' /\ y1' = y1
        /\ \/ t \in ModelTimers /\ y10' = y10 \cup {t} /\ y12' = y12
           \/ y10' = y10 /\ y12' = y12 \cup {t}
    BY <1>0, <1>3, CallEffect
  <2>2. T!Without({"raced", "crashed"})' => T!Without({"raced", "crashed"})
    BY <2>1, Accidents
  <2>3. QED
    BY <2>1, <2>2, ActorsApart DEF T!UserTimersStay
<1>4. ASSUME NEW t \in T!Timers, T!Delivered(t) PROVE T!UserTimersStay'
  <2>1. y13 \subseteq y13' /\ y10' = y10 /\ y12' = y12 /\ (y1' = y1 \/ "raced" \in y13')
    BY <1>0, <1>4, DeliveredEffect
  <2>2. CASE y1' = y1
    BY <1>1, <2>1, <2>2
  <2>3. CASE "raced" \in y13'
    BY <2>3 DEF T!UserTimersStay, T!Without
  <2>4. QED
    BY <2>1, <2>2, <2>3
<1>5. ASSUME NEW t \in T!Timers, T!Settle(t) PROVE T!UserTimersStay'
  <2>1. /\ y13 \subseteq y13' /\ y10' = y10
        /\ \/ y1' = y1 /\ y12' = y12
           \/ /\ \A u \in T!Timers \ {t} : y1'[u] = y1[u]
              /\ \/ y1'[t] = T!Absent /\ y12' = y12 \cup {t}
                 \/ y1'[t] # T!Absent /\ y12' = y12
    BY <1>0, <1>5, SettleEffect
  <2>2. QED
    BY <1>1, <2>1, ActorsApart
<1>6. ASSUME NEW x \in T!Actors, T!Persist(x) \/ T!Write(x) \/ T!Sync(x) \/ T!Send(x) PROVE T!UserTimersStay'
  <2>1. y13 \subseteq y13' /\ y10' = y10 /\ y12' = y12 /\ y1' = y1
    BY <1>0, <1>6, PersistEffect, WriteEffect, SyncEffect, SendsEffect
  <2>2. QED
    BY <1>1, <2>1
<1>7. ASSUME NEW h \in Handlers, T!TakeTopic(h) PROVE T!UserTimersStay'
  BY <1>0, <1>1, <1>7, TakeTopicEffect
<1>8. ASSUME NEW h \in Handlers, T!Merge(h) PROVE T!UserTimersStay'
  <2>1. /\ y13' = y13 /\ y10' = y10 /\ y12' = y12
        /\ \A t \in T!Timers :
              /\ y7[h].copy[t] # 0 /\ t \notin Unusable => y1'[t] # T!Absent
              /\ y7[h].copy[t] = 0 /\ t \in UserTimers => y1'[t] = y1[t]
    BY <1>0, <1>8, MergeEffect
  <2>2. QED
    BY <1>1, <2>1, ActorsApart
<1>9. CASE T!TakeSync \/ T!Turn \/ T!Tick \/ T!Deliver
  <2>1. y13' = y13 /\ y10' = y10 /\ y12' = y12 /\ y1' = y1
    BY <1>0, <1>9, TakeSyncEffect, TurnEffect, TickEffect, DeliverEffect
  <2>2. QED
    BY <1>1, <2>1
<1>10. CASE T!Restart
  <2>1. /\ y13 \subseteq y13' /\ y10' = y10 /\ y12' = y12 /\ y1' = y2
        /\ y2 = y1 \/ "crashed" \in y13'
    BY <1>0, <1>10, RestartEffect
  <2>2. CASE y2 = y1
    BY <1>1, <2>1, <2>2
  <2>3. CASE "crashed" \in y13'
    BY <2>3 DEF T!UserTimersStay, T!Without
  <2>4. QED
    BY <2>1, <2>2, <2>3
<1>11. ASSUME NEW x \in T!Actors, T!Change(x) \/ T!Saved(x) PROVE T!UserTimersStay'
  <2>1. y13 \subseteq y13' /\ y10' = y10 /\ y12' = y12 /\ (y1' = y1 \/ "raced" \in y13')
    BY <1>0, <1>11, SavesEffect
  <2>2. CASE y1' = y1
    BY <1>1, <2>1, <2>2
  <2>3. CASE "raced" \in y13'
    BY <2>3 DEF T!UserTimersStay, T!Without
  <2>4. QED
    BY <2>1, <2>2, <2>3
<1>12. QED
  BY <1>2, <1>3, <1>4, <1>5, <1>6, <1>7, <1>8, <1>9, <1>10, <1>11, TimerSteps

(* Core follows the Host, and the Host Core. *)
InStep ==
  /\ T!OneWay /\ T!LastSyncIsHost /\ T!LastTopicIsCore /\ T!TopicsKeepTheUsers
  /\ ~T!SyncsUnderWay /\ ~T!TopicsUnderWay => T!SameTimers(y3)

Calm == T!Without({"raced", "unsaved", "crossed", "defied"})

LEMMA CoreFollowsIs == T!CoreFollows <=> (Calm => InStep)
BY DEF T!CoreFollows, InStep, Calm

SamePrompts == \A t \in T!Timers : y1'[t].prompt = y1[t].prompt

LEMMA SpecsKept ==
  ASSUME SamePrompts
  PROVE  T!Specs(y1') = T!Specs(y1) /\ \A t \in UserTimers : y1'[t].prompt = y1[t].prompt
BY ActorsApart DEF SamePrompts, T!Specs

(* Nothing that is under way changes. *)
LEMMA InStepQuiet ==
  ASSUME InStep, SamePrompts, y3' = y3, y5' = y5, y6' = y6,
         \A x \in T!Actors : y7'[x].syncs = y7[x].syncs,
         \A x \in T!Actors : y7'[x] = y7[x] \/
             ({y7[x].pc, y7'[x].pc} \cap {"sends", "merges"} = {})
  PROVE  InStep'
<1>0. Handlers \subseteq T!Actors
  BY ActorsApart
<1>1. /\ \A x \in T!Actors : y7'[x].pc = "sends" <=> y7[x].pc = "sends"
      /\ \A x \in T!Actors : y7'[x].pc = "merges" <=> y7[x].pc = "merges"
      /\ \A x \in T!Actors : y7[x].pc \in {"sends", "merges"} => y7'[x].copy = y7[x].copy
  OBVIOUS
<1>2. (T!TopicsUnderWay' <=> T!TopicsUnderWay) /\ (T!SyncsUnderWay' <=> T!SyncsUnderWay)
  BY <1>0, <1>1 DEF T!TopicsUnderWay, T!SyncsUnderWay
<1>3. T!Specs(y1') = T!Specs(y1) /\ \A t \in UserTimers : y1'[t].prompt = y1[t].prompt
  BY SpecsKept
<1>4. T!OneWay'
  BY <1>2 DEF T!OneWay, InStep
<1>5. T!LastSyncIsHost'
  BY <1>1, <1>2, <1>3 DEF T!LastSyncIsHost, InStep
<1>6. T!LastTopicIsCore'
  BY <1>0, <1>1 DEF T!LastTopicIsCore, InStep
<1>7. T!TopicsKeepTheUsers'
  BY <1>0, <1>1, <1>2, <1>3 DEF T!TopicsKeepTheUsers, T!SameForUser, InStep
<1>8. T!SameTimers(y3) => T!SameTimers(y3)'
  BY DEF T!SameTimers, SamePrompts
<1>9. QED
  BY <1>2, <1>4, <1>5, <1>6, <1>7, <1>8 DEF InStep

LEMMA InStepMove ==
  ASSUME InStep, SamePrompts, y3' = y3, y5' = y5, y6' = y6,
         NEW x \in T!Actors, NEW p, NEW c, NEW d, NEW s, Moves(x, p, c, d, s), s = y7[x].syncs,
         p \notin {"sends", "merges"}, y7[x].pc \notin {"sends", "merges"}
  PROVE  InStep'
<1>1. /\ y7'[x].pc = p /\ y7'[x].syncs = y7[x].syncs
      /\ \A y \in T!Actors \ {x} : y7'[y] = y7[y]
  BY DEF Moves
<1>2. \A y \in T!Actors : y7'[y].syncs = y7[y].syncs
  BY <1>1
<1>3. \A y \in T!Actors : y7'[y] = y7[y] \/ ({y7[y].pc, y7'[y].pc} \cap {"sends", "merges"} = {})
  BY <1>1
<1>4. QED
  BY <1>2, <1>3, InStepQuiet

(* A change of the Host of which Core is to be told. *)
LEMMA InStepTold ==
  ASSUME TypesInv, InStep, ~T!TopicsUnderWay, y3' = y3, y5' = y5, y6' = y6,
         NEW x \in T!Actors, x \notin Handlers, Moves(x, "persists", <<>>, FALSE, TRUE)
  PROVE  InStep'
<1>0. Handlers \subseteq T!Actors
  BY ActorsApart
<1>1. /\ y7'[x].pc = "persists" /\ y7'[x].syncs
      /\ \A y \in T!Actors \ {x} : y7'[y] = y7[y]
  BY DEF Moves
<1>2. \A h \in Handlers : y7'[h] = y7[h]
  BY <1>0, <1>1
<1>3. ~T!TopicsUnderWay' /\ T!SyncsUnderWay'
  BY <1>1, <1>2 DEF T!TopicsUnderWay, T!SyncsUnderWay
<1>4. T!OneWay' /\ T!TopicsKeepTheUsers'
  BY <1>3 DEF T!OneWay, T!TopicsKeepTheUsers
<1>5. T!LastSyncIsHost'
  BY <1>1 DEF T!LastSyncIsHost
<1>6. T!LastTopicIsCore'
  BY <1>2, <1>3 DEF T!LastTopicIsCore, T!TopicsUnderWay
<1>7. QED
  BY <1>3, <1>4, <1>5, <1>6 DEF InStep

LEMMA CommandInStep ==
  ASSUME TypesInv, InStep, NEW t \in T!Timers, CommandStep(t), Calm'
  PROVE  InStep'
<1>0. T!TypeOK /\ T!Lane \in T!Actors /\ T!Lane \notin Handlers
      /\ (y7[T!Lane].syncs => y7[T!Lane].pc \in {"persists", "writes", "syncs", "sends"})
      /\ y7[T!Lane].syncs \in BOOLEAN
  BY TypesGive, ActorsApart DEF MayBe
<1>1. PICK tells \in BOOLEAN :
        /\ y7[T!Lane].pc = "idle" /\ Moves(T!Lane, "persists", <<>>, FALSE, tells)
        /\ y3' = y3 /\ y5' = y5 /\ y6' = y6
        /\ tells /\ T!TopicsUnderWay => "crossed" \in y13'
        /\ \A u \in T!Timers \ {t} : y1'[u] = y1[u]
        /\ tells \/ y1'[t].prompt = y1[t].prompt
  BY <1>0, CommandEffect
<1>2. CASE tells
  <2>1. ~T!TopicsUnderWay
    BY <1>1, <1>2 DEF Calm, T!Without
  <2>2. QED
    BY <1>0, <1>1, <1>2, <2>1, InStepTold
<1>3. CASE ~tells
  <2>1. SamePrompts
    BY <1>1, <1>3 DEF SamePrompts
  <2>2. FALSE = y7[T!Lane].syncs /\ Moves(T!Lane, "persists", <<>>, FALSE, FALSE)
    BY <1>0, <1>1, <1>3
  <2>3. y7[T!Lane].pc \notin {"sends", "merges"} /\ "persists" \notin {"sends", "merges"}
    BY <1>1
  <2>4. QED
    BY <1>0, <1>1, <2>1, <2>2, <2>3, InStepMove
<1>4. QED
  BY <1>2, <1>3

LEMMA ThreadInStep ==
  ASSUME TypesInv, T!OneAtATime, InStep, Calm', NEW x \in T!Actors,
         T!Persist(x) \/ T!Write(x) \/ T!Sync(x) \/ T!Send(x) \/ T!Change(x) \/ T!Saved(x)
  PROVE  InStep'
<1>0. T!TypeOK /\ MayBe(x, y7[x].pc, y7[x].copy, y7[x].delivered, y7[x].syncs, y10)
      /\ Handlers \subseteq T!Actors
      /\ \A y \in T!Actors : y7[y].pc = "sends" => y7[y].syncs
  BY TypesGive, ActorsApart DEF MayBe
<1>1. CASE T!Persist(x)
  <2>1. /\ y7[x].pc = "persists" /\ Moves(x, "writes", y1, y7[x].delivered, y7[x].syncs)
        /\ y1' = y1 /\ y3' = y3 /\ y5' = y5 /\ y6' = y6
    BY <1>0, <1>1, PersistEffect
  <2>2. SamePrompts
    BY <2>1 DEF SamePrompts
  <2>3. y7[x].pc \notin {"sends", "merges"} /\ "writes" \notin {"sends", "merges"}
    BY <2>1
  <2>4. QED
    BY <2>1, <2>2, <2>3, InStepMove
<1>2. CASE T!Write(x)
  <2>1. /\ y7[x].pc = "writes" /\ y1' = y1 /\ y3' = y3 /\ y5' = y5 /\ y6' = y6
        /\ \/ y7[x].syncs /\ Moves(x, "syncs", <<>>, y7[x].delivered, y7[x].syncs)
           \/ (~y7[x].syncs \/ "unsaved" \in y13') /\ Moves(x, "idle", <<>>, FALSE, FALSE)
    BY <1>0, <1>2, WriteEffect
  <2>2. SamePrompts
    BY <2>1 DEF SamePrompts
  <2>3. y7[x].pc \notin {"sends", "merges"} /\ "syncs" \notin {"sends", "merges"}
        /\ "idle" \notin {"sends", "merges"}
    BY <2>1
  <2>4. CASE Moves(x, "syncs", <<>>, y7[x].delivered, y7[x].syncs)
    BY <2>1, <2>2, <2>3, <2>4, InStepMove
  <2>5. CASE (~y7[x].syncs \/ "unsaved" \in y13') /\ Moves(x, "idle", <<>>, FALSE, FALSE)
    <3>1. FALSE = y7[x].syncs
      BY <1>0, <2>5 DEF Calm, T!Without, MayBe
    <3>2. QED
      BY <2>1, <2>2, <2>3, <2>5, <3>1, InStepMove
  <2>6. QED
    BY <2>1, <2>4, <2>5
<1>3. CASE T!Sync(x)
  <2>1. /\ y7[x].pc = "syncs" /\ Moves(x, "sends", T!Specs(y1), y7[x].delivered, y7[x].syncs)
        /\ y1' = y1 /\ y3' = y3 /\ y5' = y5 /\ y6' = y6
        /\ T!Races(x, "sends") => "raced" \in y13'
    BY <1>0, <1>3, SyncEffect
  <2>2. /\ y7'[x].pc = "sends" /\ y7'[x].copy = T!Specs(y1) /\ y7'[x].syncs
        /\ \A y \in T!Actors \ {x} : y7'[y] = y7[y]
    BY <1>0, <2>1 DEF Moves, MayBe
  <2>3. \A y \in T!Actors \ {x} : y7[y].pc # "sends"
    BY <2>1 DEF Calm, T!Without, T!Races
  <2>4. \A h \in Handlers : /\ y7'[h].pc = "merges" <=> y7[h].pc = "merges"
                            /\ y7[h].pc = "merges" => y7'[h].copy = y7[h].copy
    BY <1>0, <2>1, <2>2
  <2>5. (T!TopicsUnderWay' <=> T!TopicsUnderWay) /\ T!SyncsUnderWay' /\ T!SyncsUnderWay
    BY <1>0, <2>1, <2>2, <2>4 DEF T!TopicsUnderWay, T!SyncsUnderWay, MayBe
  <2>6. ~T!TopicsUnderWay'
    BY <2>5 DEF InStep, T!OneWay
  <2>7. T!OneWay' /\ T!TopicsKeepTheUsers'
    BY <2>6 DEF T!OneWay, T!TopicsKeepTheUsers
  <2>8. T!LastTopicIsCore'
    BY <2>6 DEF T!LastTopicIsCore, T!TopicsUnderWay
  <2>9. T!LastSyncIsHost'
    <3>1. SUFFICES ASSUME \A y \in T!Actors : y7'[y].syncs => y7'[y].pc = "sends"
                   PROVE  /\ \A y \in T!Actors : y7'[y].syncs => y7'[y].copy = T!Specs(y1')
                          /\ ~(\A y \in T!Actors : ~y7'[y].syncs)
      BY DEF T!LastSyncIsHost
    <3>2. \A y \in T!Actors : y7'[y].syncs => y = x
      BY <2>2, <2>3, <3>1
    <3>3. QED
      BY <2>1, <2>2, <3>2
  <2>10. QED
    BY <2>5, <2>7, <2>8, <2>9 DEF InStep
<1>4. CASE T!Send(x)
  <2>1. /\ y7[x].pc = "sends" /\ Moves(x, "idle", <<>>, FALSE, FALSE)
        /\ y5' = Append(y5, y7[x].copy) /\ y7[x].copy \in T!SpecsType
        /\ y1' = y1 /\ y3' = y3 /\ y6' = y6 /\ y13' = y13
    BY <1>0, <1>4, SendsEffect
  <2>2. /\ y7'[x].pc = "idle" /\ ~y7'[x].syncs
        /\ \A y \in T!Actors \ {x} : y7'[y] = y7[y]
    BY <2>1 DEF Moves
  <2>3. y5 \in Seq(T!SpecsType)
    BY TypesGive DEF DataOK
  <2>4. y5' # <<>> /\ y5'[Len(y5')] = y7[x].copy
    BY <2>1, <2>3, LastAppended
  <2>5. \A h \in Handlers : y7'[h].pc = "merges" => y7[h].pc = "merges"
    BY <1>0, <2>1, <2>2
  <2>6. T!SyncsUnderWay' /\ T!SyncsUnderWay
    BY <1>0, <2>1, <2>4 DEF T!SyncsUnderWay
  <2>7. ~T!TopicsUnderWay'
    BY <2>1, <2>5, <2>6 DEF InStep, T!OneWay, T!TopicsUnderWay
  <2>8. T!OneWay' /\ T!TopicsKeepTheUsers'
    BY <2>7 DEF T!OneWay, T!TopicsKeepTheUsers
  <2>9. T!LastTopicIsCore'
    BY <2>7 DEF T!LastTopicIsCore, T!TopicsUnderWay
  <2>10. T!LastSyncIsHost'
    <3>1. SUFFICES ASSUME \A y \in T!Actors : y7'[y].syncs => y7'[y].pc = "sends"
                   PROVE  /\ \A y \in T!Actors : ~y7'[y].syncs
                          /\ y5'[Len(y5')] = T!Specs(y1')
      BY DEF T!LastSyncIsHost
    <3>2. T!Without({"raced"})
      BY <2>1 DEF Calm, T!Without
    <3>3. \A y \in T!Actors : y7[y].pc = "sends" => y = x
      BY <2>1, <3>2 DEF T!OneAtATime
    <3>4. \A y \in T!Actors : ~y7'[y].syncs
      BY <2>2, <3>1, <3>3
    <3>5. \A y \in T!Actors : y7[y].syncs => y7[y].pc = "sends"
      BY <2>1, <2>2, <3>4
    <3>6. y7[x].copy = T!Specs(y1)
      BY <1>0, <2>1, <2>6, <3>5 DEF InStep, T!LastSyncIsHost
    <3>7. QED
      BY <2>1, <2>4, <3>4, <3>6
  <2>11. QED
    BY <2>6, <2>8, <2>9, <2>10 DEF InStep
<1>5. CASE T!Change(x) \/ T!Saved(x)
  <2>1. /\ y7[x].pc \in {"idle", "saves"} /\ y3' = y3 /\ y5' = y5 /\ y6' = y6
        /\ y1' = y1 \/ "raced" \in y13'
        /\ Moves(x, "idle", <<>>, FALSE, FALSE) \/ Moves(x, "saves", y1, FALSE, FALSE)
    BY <1>0, <1>5, SavesEffect
  <2>2. SamePrompts
    BY <2>1 DEF SamePrompts, Calm, T!Without
  <2>3. FALSE = y7[x].syncs
    BY <1>0, <2>1 DEF MayBe
  <2>4. /\ y7[x].pc \notin {"sends", "merges"}
        /\ "idle" \notin {"sends", "merges"} /\ "saves" \notin {"sends", "merges"}
    BY <2>1
  <2>5. CASE Moves(x, "idle", <<>>, FALSE, FALSE)
    BY <1>0, <2>1, <2>2, <2>3, <2>4, <2>5, InStepMove
  <2>6. CASE Moves(x, "saves", y1, FALSE, FALSE)
    BY <1>0, <2>1, <2>2, <2>3, <2>4, <2>6, InStepMove
  <2>7. QED
    BY <2>1, <2>5, <2>6
<1>6. QED
  BY <1>1, <1>2, <1>3, <1>4, <1>5

LEMMA SchedulerInStep ==
  ASSUME TypesInv, InStep, Calm', T!Tick \/ T!Deliver \/ \E t \in T!Timers : T!Delivered(t) \/ T!Settle(t)
  PROVE  InStep'
<1>0. /\ T!TypeOK /\ T!Scheduler \in T!Actors /\ T!Scheduler \notin Handlers
      /\ MayBe(T!Scheduler, y7[T!Scheduler].pc, y7[T!Scheduler].copy, y7[T!Scheduler].delivered,
               y7[T!Scheduler].syncs, y10)
      /\ \A t \in T!Timers : t \notin {"sends", "merges", "persists", "writes", "syncs"}
  BY TypesGive, ActorsApart
<1>1. CASE T!Tick
  <2>1. y1' = y1 /\ y3' = y3 /\ y5' = y5 /\ y6' = y6 /\ y7' = y7
    BY <1>0, <1>1, TickEffect
  <2>2. QED
    BY <2>1, InStepQuiet DEF SamePrompts
<1>2. CASE T!Deliver
  <2>1. /\ y7[T!Scheduler].pc = "idle" /\ y1' = y1 /\ y3' = y3 /\ y5' = y5 /\ y6' = y6
        /\ Moves(T!Scheduler, "delivers", y1, y7[T!Scheduler].delivered, y7[T!Scheduler].syncs)
    BY <1>0, <1>2, DeliverEffect
  <2>2. y7[T!Scheduler].pc \notin {"sends", "merges"} /\ "delivers" \notin {"sends", "merges"} /\ SamePrompts
    BY <2>1 DEF SamePrompts
  <2>3. QED
    BY <1>0, <2>1, <2>2, InStepMove
<1>3. ASSUME NEW t \in T!Timers, T!Delivered(t) PROVE InStep'
  <2>1. /\ y7[T!Scheduler].pc = "delivers" /\ y3' = y3 /\ y5' = y5 /\ y6' = y6
        /\ y1' = y1 \/ "raced" \in y13'
        /\ \E d \in BOOLEAN : Moves(T!Scheduler, t, <<>>, d, FALSE)
    BY <1>0, <1>3, DeliveredEffect
  <2>2. y7[T!Scheduler].pc \notin {"sends", "merges"} /\ t \notin {"sends", "merges"}
    BY <1>0, <2>1
  <2>3. SamePrompts
    BY <2>1 DEF SamePrompts, Calm, T!Without
  <2>4. FALSE = y7[T!Scheduler].syncs
    BY <1>0, <2>1 DEF MayBe
  <2>5. QED
    BY <1>0, <2>1, <2>2, <2>3, <2>4, InStepMove
<1>4. ASSUME NEW t \in T!Timers, T!Settle(t) PROVE InStep'
  <2>1. /\ y7[T!Scheduler].pc = t /\ y3' = y3 /\ y5' = y5 /\ y6' = y6
        /\ \/ y1' = y1 /\ Moves(T!Scheduler, "idle", <<>>, FALSE, FALSE)
           \/ /\ Moves(T!Scheduler, "persists", <<>>, FALSE, TRUE)
              /\ T!TopicsUnderWay => "crossed" \in y13'
    BY <1>0, <1>4, SettleEffect
  <2>2. CASE y1' = y1 /\ Moves(T!Scheduler, "idle", <<>>, FALSE, FALSE)
    <3>1. y7[T!Scheduler].pc \notin {"sends", "merges", "persists", "writes", "syncs"}
      BY <1>0, <2>1
    <3>2. y7[T!Scheduler].pc \notin {"sends", "merges"} /\ FALSE = y7[T!Scheduler].syncs
          /\ "idle" \notin {"sends", "merges"} /\ SamePrompts
      BY <1>0, <2>2, <3>1 DEF MayBe, SamePrompts
    <3>3. y3' = y3 /\ y5' = y5 /\ y6' = y6 /\ Moves(T!Scheduler, "idle", <<>>, FALSE, FALSE)
      BY <2>1, <2>2
    <3>4. QED
      BY <1>0, <3>2, <3>3, InStepMove, Zenon
  <2>3. CASE Moves(T!Scheduler, "persists", <<>>, FALSE, TRUE) /\ (T!TopicsUnderWay => "crossed" \in y13')
    <3>1. ~T!TopicsUnderWay
      BY <2>3 DEF Calm, T!Without
    <3>2. QED
      BY <1>0, <2>1, <2>3, <3>1, InStepTold
  <2>4. QED
    BY <2>1, <2>2, <2>3
<1>5. QED
  BY <1>1, <1>2, <1>3, <1>4

LEMMA TakeSyncInStep ==
  ASSUME TypesInv, InStep, T!TakeSync
  PROVE  InStep'
<1>0. Handlers \subseteq T!Actors /\ y5 \in Seq(T!SpecsType)
  BY TypesGive, ActorsApart DEF DataOK
<1>1. /\ y5 # <<>> /\ y3' = Head(y5) /\ y5' = Tail(y5)
      /\ y1' = y1 /\ y6' = y6 /\ y7' = y7
  BY TakeSyncEffect
<1>2. T!SyncsUnderWay /\ ~T!TopicsUnderWay /\ ~T!TopicsUnderWay'
  BY <1>1 DEF T!SyncsUnderWay, T!TopicsUnderWay, InStep, T!OneWay
<1>3. T!OneWay' /\ T!TopicsKeepTheUsers' /\ T!LastTopicIsCore'
  BY <1>2 DEF T!OneWay, T!TopicsKeepTheUsers, T!LastTopicIsCore, T!TopicsUnderWay
<1>4. /\ Head(y5) = y5[1]
      /\ Tail(y5) # <<>> => Tail(y5)[Len(Tail(y5))] = y5[Len(y5)]
      /\ Tail(y5) = <<>> => Len(y5) = 1
  BY <1>0, <1>1, FirstTaken
<1>5. T!LastSyncIsHost'
  <2>1. SUFFICES ASSUME T!SyncsUnderWay', \A x \in T!Actors : y7[x].syncs => y7[x].pc = "sends"
                 PROVE  /\ \A x \in T!Actors : y7[x].syncs => y7[x].copy = T!Specs(y1)
                        /\ (\A x \in T!Actors : ~y7[x].syncs) => y5'[Len(y5')] = T!Specs(y1)
    BY <1>1 DEF T!LastSyncIsHost
  <2>2. /\ \A x \in T!Actors : y7[x].syncs => y7[x].copy = T!Specs(y1)
        /\ (\A x \in T!Actors : ~y7[x].syncs) => y5[Len(y5)] = T!Specs(y1)
    BY <1>2, <2>1 DEF InStep, T!LastSyncIsHost
  <2>3. (\A x \in T!Actors : ~y7[x].syncs) => y5' # <<>>
    BY <1>1, <2>1 DEF T!SyncsUnderWay
  <2>4. QED
    BY <1>1, <1>4, <2>2, <2>3
<1>6. ~T!SyncsUnderWay' /\ ~T!TopicsUnderWay' => T!SameTimers(y3)'
  <2>1. SUFFICES ASSUME ~T!SyncsUnderWay' PROVE y3' = T!Specs(y1)
    BY <1>1 DEF T!SameTimers, T!Specs
  <2>2. y5' = <<>> /\ \A x \in T!Actors : ~y7[x].syncs
    BY <1>1, <2>1 DEF T!SyncsUnderWay
  <2>3. y5[Len(y5)] = T!Specs(y1)
    BY <1>2, <2>2 DEF InStep, T!LastSyncIsHost
  <2>4. QED
    BY <1>1, <1>4, <2>2, <2>3
<1>7. QED
  BY <1>3, <1>5, <1>6 DEF InStep

LEMMA CallInStep ==
  ASSUME TypesInv, InStep, Calm', NEW t \in T!Timers, CallStep(t)
  PROVE  InStep'
<1>0. /\ T!TypeOK /\ Handlers \subseteq T!Actors /\ y6 \in Seq(T!SpecsType)
      /\ UserTimers \subseteq T!Timers /\ \A u \in UserTimers : u \notin ModelTimers /\ u \notin Unusable
  BY TypesGive, ActorsApart DEF DataOK
<1>1. /\ y3' \in T!SpecsType /\ y6' = Append(y6, y3')
      /\ \A u \in T!Timers \ {t} : y3'[u] = y3[u]
      /\ y1' = y1 /\ y5' = y5 /\ y7' = y7
      /\ T!SyncsUnderWay => "crossed" \in y13'
      /\ t \in ModelTimers \/ (t \in UserTimers => "defied" \in y13')
  BY <1>0, CallEffect
<1>2. ~T!SyncsUnderWay /\ ~T!SyncsUnderWay' /\ t \notin UserTimers
  BY <1>0, <1>1 DEF Calm, T!Without, T!SyncsUnderWay
<1>3. /\ y6' # <<>> /\ y6'[Len(y6')] = y3'
      /\ \A i \in DOMAIN y6' : y6'[i] = y3' \/ (i \in DOMAIN y6 /\ y6'[i] = y6[i])
  BY <1>0, <1>1, LastAppended
<1>4. T!TopicsUnderWay'
  BY <1>3 DEF T!TopicsUnderWay
<1>5. T!OneWay' /\ T!LastSyncIsHost'
  BY <1>2 DEF T!OneWay, T!LastSyncIsHost
<1>6. T!LastTopicIsCore'
  BY <1>3 DEF T!LastTopicIsCore
<1>7. T!SameForUser(y3)
  <2>1. CASE T!TopicsUnderWay
    BY <2>1 DEF InStep, T!TopicsKeepTheUsers
  <2>2. CASE ~T!TopicsUnderWay
    BY <1>0, <1>2, <2>2 DEF InStep, T!SameForUser, T!SameTimers
  <2>3. QED
    BY <2>1, <2>2
<1>8. T!SameForUser(y3)'
  BY <1>0, <1>1, <1>2, <1>7 DEF T!SameForUser
<1>9. T!TopicsKeepTheUsers'
  <2>1. ASSUME NEW i \in DOMAIN y6' PROVE T!SameForUser(y6[i])'
    <3>1. CASE y6'[i] = y3'
      BY <1>8, <3>1 DEF T!SameForUser
    <3>2. CASE i \in DOMAIN y6 /\ y6'[i] = y6[i]
      <4>1. T!TopicsUnderWay
        BY <1>0, <3>2 DEF T!TopicsUnderWay
      <4>2. T!SameForUser(y6[i])
        BY <3>2, <4>1 DEF InStep, T!TopicsKeepTheUsers
      <4>3. QED
        BY <1>1, <3>2, <4>2 DEF T!SameForUser
    <3>3. QED
      BY <1>3, <3>1, <3>2
  <2>2. ASSUME NEW h \in Handlers, y7'[h].pc = "merges" PROVE T!SameForUser(y7[h].copy)'
    <3>1. T!TopicsUnderWay
      BY <1>1, <2>2 DEF T!TopicsUnderWay
    <3>2. T!SameForUser(y7[h].copy)
      BY <1>1, <2>2, <3>1 DEF InStep, T!TopicsKeepTheUsers
    <3>3. QED
      BY <1>1, <3>2 DEF T!SameForUser
  <2>3. QED
    BY <1>8, <2>1, <2>2 DEF T!TopicsKeepTheUsers
<1>10. QED
  BY <1>4, <1>5, <1>6, <1>9 DEF InStep

LEMMA TakeTopicInStep ==
  ASSUME TypesInv, InStep, Calm', NEW h \in Handlers, T!TakeTopic(h)
  PROVE  InStep'
<1>0. /\ T!TypeOK /\ h \in T!Actors /\ Handlers \subseteq T!Actors /\ y6 \in Seq(T!SpecsType)
  BY TypesGive, ActorsApart DEF DataOK
<1>1. /\ y7[h].pc = "idle" /\ y6 # <<>> /\ y6' = Tail(y6)
      /\ Moves(h, "merges", Head(y6), FALSE, FALSE)
      /\ y1' = y1 /\ y3' = y3 /\ y5' = y5
      /\ T!Races(h, "merges") => "raced" \in y13'
  BY <1>0, TakeTopicEffect
<1>2. /\ y7'[h].pc = "merges" /\ y7'[h].copy = Head(y6)
      /\ \A y \in T!Actors \ {h} : y7'[y] = y7[y]
  BY <1>1 DEF Moves
<1>3. \A y \in T!Actors \ {h} : y7[y].pc # "merges"
  BY <1>1 DEF Calm, T!Without, T!Races
<1>4. T!TopicsUnderWay /\ T!TopicsUnderWay'
  BY <1>1, <1>2 DEF T!TopicsUnderWay
<1>5. ~T!SyncsUnderWay
  BY <1>4 DEF InStep, T!OneWay
<1>6. ~T!SyncsUnderWay'
  <2>1. y5' = <<>> /\ \A y \in T!Actors : ~y7[y].syncs
    BY <1>1, <1>5 DEF T!SyncsUnderWay
  <2>2. ~y7'[h].syncs
    BY <1>1 DEF Moves
  <2>3. QED
    BY <1>2, <2>1, <2>2 DEF T!SyncsUnderWay
<1>7. T!OneWay' /\ T!LastSyncIsHost'
  BY <1>6 DEF T!OneWay, T!LastSyncIsHost
<1>8. /\ Head(y6) = y6[1] /\ 1 \in DOMAIN y6
      /\ \A i \in DOMAIN Tail(y6) : i + 1 \in DOMAIN y6 /\ Tail(y6)[i] = y6[i + 1]
      /\ Tail(y6) # <<>> => Tail(y6)[Len(Tail(y6))] = y6[Len(y6)]
      /\ Tail(y6) = <<>> => Len(y6) = 1
  BY <1>0, <1>1, FirstTaken
<1>9. y6[Len(y6)] = y3
  BY <1>1 DEF InStep, T!LastTopicIsCore
<1>10. T!LastTopicIsCore'
  <2>1. y6' # <<>> => y6'[Len(y6')] = y3'
    BY <1>1, <1>8, <1>9
  <2>2. ASSUME y6' = <<>>, NEW g \in Handlers, y7'[g].pc = "merges" PROVE y7'[g].copy = y3'
    <3>1. g = h
      BY <1>0, <1>2, <1>3, <2>2
    <3>2. QED
      BY <1>1, <1>2, <1>8, <1>9, <2>2, <3>1
  <2>3. QED
    BY <2>1, <2>2 DEF T!LastTopicIsCore
<1>11. T!SameForUser(y3) /\ \A i \in DOMAIN y6 : T!SameForUser(y6[i])
  BY <1>4 DEF InStep, T!TopicsKeepTheUsers
<1>12. T!TopicsKeepTheUsers'
  <2>1. T!SameForUser(y3)'
    BY <1>1, <1>11 DEF T!SameForUser
  <2>2. ASSUME NEW i \in DOMAIN y6' PROVE T!SameForUser(y6[i])'
    <3>1. T!SameForUser(y6[i + 1]) /\ y6'[i] = y6[i + 1]
      BY <1>1, <1>8, <1>11, <2>2
    <3>2. QED
      BY <1>1, <3>1 DEF T!SameForUser
  <2>3. ASSUME NEW g \in Handlers, y7'[g].pc = "merges" PROVE T!SameForUser(y7[g].copy)'
    <3>1. g = h
      BY <1>0, <1>2, <1>3, <2>3
    <3>2. T!SameForUser(y6[1]) /\ y7'[g].copy = y6[1]
      BY <1>2, <1>8, <1>11, <3>1
    <3>3. QED
      BY <1>1, <3>2 DEF T!SameForUser
  <2>4. QED
    BY <2>1, <2>2, <2>3 DEF T!TopicsKeepTheUsers
<1>13. QED
  BY <1>4, <1>7, <1>10, <1>12 DEF InStep

LEMMA MergeInStep ==
  ASSUME TypesInv, T!OneAtATime, InStep, Calm', NEW h \in Handlers, T!Merge(h)
  PROVE  InStep'
<1>0. /\ T!TypeOK /\ h \in T!Actors /\ Handlers \subseteq T!Actors /\ y1 \in T!TimersType
      /\ y3 \in T!SpecsType /\ UserTimers \subseteq T!Timers
  BY TypesGive, ActorsApart DEF DataOK
<1>1. /\ y7[h].pc = "merges" /\ y7[h].copy \in T!SpecsType /\ y1' \in T!TimersType
      /\ \A t \in T!Timers :
              /\ y7[h].copy[t] # 0 /\ t \notin Unusable => y1'[t].prompt = y7[h].copy[t] /\ y1'[t] # T!Absent
              /\ y7[h].copy[t] = 0 /\ t \in UserTimers => y1'[t] = y1[t]
              /\ y7[h].copy[t] = 0 /\ t \notin UserTimers => y1'[t] = T!Absent
              /\ t \in Unusable /\ y1[t] = T!Absent => y1'[t] = T!Absent
      /\ Moves(h, "persists", <<>>, FALSE, FALSE)
      /\ y3' = y3 /\ y5' = y5 /\ y6' = y6 /\ y13' = y13
  BY <1>0, MergeEffect
<1>2. /\ y7'[h].pc = "persists" /\ ~y7'[h].syncs
      /\ \A y \in T!Actors \ {h} : y7'[y] = y7[y]
  BY <1>1 DEF Moves
<1>3. \A y \in T!Actors : y7[y].pc = "merges" => y = h
  <2>1. T!Without({"raced"})
    BY <1>1 DEF Calm, T!Without
  <2>2. QED
    BY <1>0, <1>1, <2>1 DEF T!OneAtATime
<1>4. T!TopicsUnderWay
  BY <1>1 DEF T!TopicsUnderWay
<1>5. ~T!SyncsUnderWay
  BY <1>4 DEF InStep, T!OneWay
<1>6. ~T!SyncsUnderWay'
  BY <1>1, <1>2, <1>5 DEF T!SyncsUnderWay
<1>7. T!OneWay' /\ T!LastSyncIsHost'
  BY <1>6 DEF T!OneWay, T!LastSyncIsHost
<1>8. \A g \in Handlers : y7'[g].pc # "merges"
  BY <1>0, <1>2, <1>3
<1>9. T!LastTopicIsCore'
  BY <1>1, <1>8 DEF InStep, T!LastTopicIsCore
<1>10. /\ T!SameForUser(y3) /\ (\A i \in DOMAIN y6 : T!SameForUser(y6[i])) /\ T!SameForUser(y7[h].copy)
  BY <1>1, <1>4 DEF InStep, T!TopicsKeepTheUsers
<1>11. \A t \in UserTimers : y1'[t].prompt = y1[t].prompt
  BY <1>0, <1>1, <1>10, ActorsApart DEF T!SameForUser
<1>12. T!TopicsKeepTheUsers'
  BY <1>1, <1>8, <1>10, <1>11 DEF T!TopicsKeepTheUsers, T!SameForUser
<1>13. ~T!TopicsUnderWay' => T!SameTimers(y3)'
  <2>1. SUFFICES ASSUME ~T!TopicsUnderWay', NEW t \in T!Timers \ Unusable PROVE y3[t] = y1'[t].prompt
    BY <1>1 DEF T!SameTimers
  <2>2. y6 = <<>>
    BY <1>1, <2>1 DEF T!TopicsUnderWay
  <2>3. y7[h].copy = y3
    BY <1>1, <2>2 DEF InStep, T!LastTopicIsCore
  <2>4. CASE y3[t] # 0
    BY <1>1, <2>3, <2>4
  <2>5. CASE y3[t] = 0 /\ t \in UserTimers
    BY <1>1, <1>10, <2>3, <2>5 DEF T!SameForUser
  <2>6. CASE y3[t] = 0 /\ t \notin UserTimers
    BY <1>1, <2>3, <2>6, TimerValues
  <2>7. QED
    BY <2>4, <2>5, <2>6
<1>14. QED
  BY <1>7, <1>9, <1>12, <1>13 DEF InStep

LEMMA RestartInStep ==
  ASSUME TypesInv, T!Restart
  PROVE  InStep'
<1>1. /\ y1' = y2 /\ y3' = T!Specs(y2) /\ y5' = <<>> /\ y6' = <<>>
      /\ y7' = [x \in T!Actors |-> T!Idle]
  BY TypesGive, RestartEffect
<1>2. \A x \in T!Actors : y7'[x].pc = "idle" /\ ~y7'[x].syncs
  BY <1>1, IdleThreads
<1>3. Handlers \subseteq T!Actors
  BY ActorsApart
<1>4. ~T!SyncsUnderWay' /\ ~T!TopicsUnderWay'
  BY <1>1, <1>2, <1>3 DEF T!SyncsUnderWay, T!TopicsUnderWay
<1>5. QED
  BY <1>1, <1>2, <1>3, <1>4
     DEF InStep, T!OneWay, T!LastSyncIsHost, T!LastTopicIsCore, T!TopicsKeepTheUsers, T!SameTimers, T!Specs

LEMMA MoreAccidents ==
  ASSUME TypesInv, T!Next
  PROVE  y13 \subseteq y13'
<1>0. T!TypeOK
  BY TypesGive
<1>1. ASSUME NEW t \in T!Timers, CommandStep(t) PROVE y13 \subseteq y13'
  BY <1>0, <1>1, CommandEffect
<1>2. ASSUME NEW t \in T!Timers, CallStep(t) PROVE y13 \subseteq y13'
  BY <1>0, <1>2, CallEffect
<1>3. ASSUME NEW t \in T!Timers, T!Delivered(t) \/ T!Settle(t) PROVE y13 \subseteq y13'
  BY <1>0, <1>3, DeliveredEffect, SettleEffect
<1>4. ASSUME NEW x \in T!Actors, T!Persist(x) \/ T!Write(x) \/ T!Sync(x) \/ T!Send(x) PROVE y13 \subseteq y13'
  BY <1>0, <1>4, PersistEffect, WriteEffect, SyncEffect, SendsEffect
<1>5. ASSUME NEW h \in Handlers, T!TakeTopic(h) \/ T!Merge(h) PROVE y13 \subseteq y13'
  BY <1>0, <1>5, TakeTopicEffect, MergeEffect
<1>6. CASE T!Tick \/ T!Deliver \/ T!TakeSync \/ T!Turn \/ T!Restart
  BY <1>0, <1>6, TickEffect, DeliverEffect, TakeSyncEffect, TurnEffect, RestartEffect
<1>7. ASSUME NEW x \in T!Actors, T!Change(x) \/ T!Saved(x) PROVE y13 \subseteq y13'
  BY <1>0, <1>7, SavesEffect
<1>8. QED
  BY <1>1, <1>2, <1>3, <1>4, <1>5, <1>6, <1>7, TimerSteps

LEMMA InStepStep ==
  ASSUME TypesInv, T!OneAtATime, InStep, Calm', T!Next
  PROVE  InStep'
<1>1. CASE T!Turn
  <2>1. y1' = y1 /\ y3' = y3 /\ y5' = y5 /\ y6' = y6 /\ y7' = y7
    BY <1>1, TurnEffect
  <2>2. QED
    BY <2>1, InStepQuiet DEF SamePrompts
<1>2. QED
  BY <1>1, TimerSteps, CommandInStep, ThreadInStep, SchedulerInStep, TakeSyncInStep, CallInStep,
     TakeTopicInStep, MergeInStep, RestartInStep

LEMMA CoreFollowsStep ==
  ASSUME TypesInv, T!OneAtATime, T!CoreFollows, T!Next
  PROVE  T!CoreFollows'
<1>1. Calm' => Calm
  BY MoreAccidents, Accidents DEF Calm
<1>2. Calm => InStep
  BY CoreFollowsIs
<1>3. Calm' => InStep'
  BY <1>1, <1>2, InStepStep
<1>4. QED
  BY <1>3 DEF T!CoreFollows, InStep, Calm

(* What has gone does not come back. *)
NotBack == T!GoneForGood /\ T!GoneWithTheNext /\ T!PastIsGone /\ T!EndedIsGone

Smooth == TypesInv /\ T!OneAtATime /\ InStep /\ y13 = {}

LEMMA NoAccident ==
  ASSUME y13' = {}
  PROVE  Calm' /\ T!Without({"raced"})' /\ \A a : a \notin y13'
BY DEF Calm, T!Without

LEMMA GoneForGoodOf ==
  ASSUME T!GoneForGood, NEW t \in T!Timers, NEW i \in DOMAIN y6, y6[i][t] = 0
  PROVE  /\ y1[t] # T!Absent => T!GoneFrom(t, i)
         /\ \A h \in Handlers : y7[h].pc = "merges" /\ y7[h].copy[t] # 0 => T!GoneFrom(t, i)
         /\ \A j \in DOMAIN y6 : j < i /\ y6[j][t] # 0 => T!GoneFrom(t, i)
BY DEF T!GoneForGood

(* Nothing that is under way changes, and no timer comes or goes. *)
LEMMA NotBackQuiet ==
  ASSUME NotBack, y3' = y3, y6' = y6, y12' = y12,
         \A t \in T!Timers : y1'[t] = T!Absent <=> y1[t] = T!Absent,
         \A h \in Handlers : y7'[h].pc = "merges" <=> y7[h].pc = "merges",
         \A h \in Handlers : y7[h].pc = "merges" => y7'[h].copy = y7[h].copy,
         \A t \in y8' : t \in y8 \/ y1'[t] # T!Absent,
         \A t \in T!Timers : y11'[t] # 0 => y11[t] # 0 \/ t \in y8,
         y12 \subseteq T!Timers
  PROVE  NotBack'
<1>1. (T!TopicsUnderWay' <=> T!TopicsUnderWay)
      /\ \A t \in T!Timers : \A i : T!GoneFrom(t, i)' <=> T!GoneFrom(t, i)
  BY DEF T!TopicsUnderWay, T!GoneFrom
<1>2. T!GoneForGood'
  BY <1>1 DEF NotBack, T!GoneForGood
<1>3. T!GoneWithTheNext'
  BY <1>1 DEF NotBack, T!GoneWithTheNext
<1>4. T!PastIsGone'
  BY <1>1 DEF NotBack, T!PastIsGone, T!Gone
<1>5. T!EndedIsGone'
  BY <1>1 DEF NotBack, T!EndedIsGone
<1>6. QED
  BY <1>2, <1>3, <1>4, <1>5 DEF NotBack

LEMMA NotBackNoTopics ==
  ASSUME ~T!TopicsUnderWay', \A t \in y12' : y1'[t] = T!Absent /\ (t \in Unusable => y3'[t] = 0)
  PROVE  NotBack'
<1>1. y6' = <<>> /\ DOMAIN y6' = {} /\ \A h \in Handlers : y7'[h].pc # "merges"
  BY DEF T!TopicsUnderWay
<1>2. QED
  BY <1>1 DEF NotBack, T!GoneForGood, T!GoneWithTheNext, T!PastIsGone, T!Gone, T!EndedIsGone

(* The Host never has a timer it cannot use, and no sync tells of one. *)
LEMMA UnusableAbsent ==
  ASSUME Smooth
  PROVE  /\ \A t \in T!Timers : t \in Unusable => y1[t] = T!Absent /\ y2[t] = T!Absent /\ T!Specs(y2)[t] = 0
         /\ \A t \in T!Timers, i \in DOMAIN y5 : t \in Unusable => y5[i][t] = 0
<1>1. DataOK /\ DataKnown
  BY DEF Smooth, TypesInv
<1>2. \A t \in T!Timers : t \in Unusable => y1[t] = T!Absent /\ y2[t] = T!Absent
  BY <1>1, KnownTimers DEF DataOK, DataKnown
<1>3. \A t \in T!Timers : t \in Unusable => T!Specs(y2)[t] = 0
  BY <1>1 DEF DataKnown, KnownIn
<1>4. \A t \in T!Timers, i \in DOMAIN y5 : t \in Unusable => y5[i][t] = 0
  BY <1>1 DEF DataKnown, KnownIn
<1>5. QED
  BY <1>2, <1>3, <1>4

(* A thread of the Host that neither takes nor merges a topic. *)
LEMMA OtherThreads ==
  ASSUME NEW x \in T!Actors, NEW p, NEW c, NEW d, NEW s, Moves(x, p, c, d, s),
         p # "merges", y7[x].pc # "merges"
  PROVE  /\ \A h \in Handlers : y7'[h].pc = "merges" <=> y7[h].pc = "merges"
         /\ \A h \in Handlers : y7[h].pc = "merges" => y7'[h].copy = y7[h].copy
         /\ y6' = y6 => (T!TopicsUnderWay' <=> T!TopicsUnderWay)
<1>1. \A h \in Handlers : h \in T!Actors
  BY ActorsApart
<1>2. \A h \in Handlers : /\ y7'[h].pc = "merges" <=> y7[h].pc = "merges"
                          /\ y7[h].pc = "merges" => y7'[h].copy = y7[h].copy
  BY <1>1 DEF Moves
<1>3. QED
  BY <1>2 DEF T!TopicsUnderWay

LEMMA CommandNotBack ==
  ASSUME Smooth, NotBack, NEW t \in T!Timers, CommandStep(t), y13' = {}
  PROVE  NotBack'
<1>0. T!TypeOK /\ T!Lane \in T!Actors /\ y12 \subseteq y10 /\ y12 \subseteq T!Timers
  BY TypesGive, ActorsApart DEF Smooth, DataOK, DataKnown
<1>1. PICK tells \in BOOLEAN :
        /\ y7[T!Lane].pc = "idle" /\ Moves(T!Lane, "persists", <<>>, FALSE, tells)
        /\ y3' = y3 /\ y6' = y6 /\ y8' = y8 /\ y11' = y11
        /\ tells /\ T!TopicsUnderWay => "crossed" \in y13'
        /\ \A u \in T!Timers \ {t} : y1'[u] = y1[u]
        /\ \/ t \notin y10 /\ y12' = y12 /\ tells
           \/ y1[t] # T!Absent /\ y1'[t] = T!Absent /\ y12' = y12 \cup {t} /\ tells
           \/ y1[t] # T!Absent /\ y1'[t] # T!Absent /\ y12' = y12
  BY <1>0, CommandEffect
<1>2. /\ \A h \in Handlers : y7'[h].pc = "merges" <=> y7[h].pc = "merges"
      /\ \A h \in Handlers : y7[h].pc = "merges" => y7'[h].copy = y7[h].copy
      /\ T!TopicsUnderWay' <=> T!TopicsUnderWay
  BY <1>0, <1>1, OtherThreads
<1>3. CASE tells
  <2>1. ~T!TopicsUnderWay
    BY <1>1, <1>3, NoAccident
  <2>2. \A u \in y12 : y1[u] = T!Absent /\ (u \in Unusable => y3[u] = 0)
    BY <2>1 DEF NotBack, T!EndedIsGone
  <2>3. \A u \in y12' : y1'[u] = T!Absent /\ (u \in Unusable => y3'[u] = 0)
    BY <1>0, <1>1, <2>2, UnusableAbsent
  <2>4. QED
    BY <1>2, <2>1, <2>3, NotBackNoTopics
<1>4. CASE ~tells
  <2>1. y12' = y12 /\ \A u \in T!Timers : y1'[u] = T!Absent <=> y1[u] = T!Absent
    BY <1>1, <1>4
  <2>2. \A u \in T!Timers : y11'[u] # 0 => y11[u] # 0 \/ u \in y8
    BY <1>1
  <2>3. \A u \in y8' : u \in y8 \/ y1'[u] # T!Absent
    BY <1>1
  <2>4. QED
    BY <1>0, <1>1, <1>2, <2>1, <2>2, <2>3, NotBackQuiet
<1>5. QED
  BY <1>3, <1>4

LEMMA QuietNotBack ==
  ASSUME Smooth, NotBack, y13' = {},
         \/ \E x \in T!Actors : T!Persist(x) \/ T!Write(x) \/ T!Sync(x) \/ T!Send(x) \/ T!Change(x) \/ T!Saved(x)
         \/ T!Tick \/ T!Deliver \/ T!Turn
  PROVE  NotBack'
<1>0. T!TypeOK /\ T!Scheduler \in T!Actors /\ y12 \subseteq T!Timers
  BY TypesGive, ActorsApart DEF Smooth, DataOK
<1>1. ASSUME NEW x \in T!Actors, NEW p, NEW c, NEW d, NEW s, Moves(x, p, c, d, s),
             p # "merges", y7[x].pc # "merges", UNCHANGED <<y1, y3, y6, y8, y11, y12>>
      PROVE  NotBack'
  <2>1. /\ \A h \in Handlers : y7'[h].pc = "merges" <=> y7[h].pc = "merges"
        /\ \A h \in Handlers : y7[h].pc = "merges" => y7'[h].copy = y7[h].copy
    BY <1>1, OtherThreads
  <2>2. QED
    BY <1>0, <1>1, <2>1, NotBackQuiet
<1>2. ASSUME NEW x \in T!Actors, T!Persist(x) PROVE NotBack'
  <2>1. /\ y7[x].pc = "persists" /\ Moves(x, "writes", y1, y7[x].delivered, y7[x].syncs)
        /\ UNCHANGED <<y1, y3, y6, y8, y11, y12>>
    BY <1>0, <1>2, PersistEffect
  <2>2. QED
    BY <1>1, <2>1
<1>3. ASSUME NEW x \in T!Actors, T!Write(x) PROVE NotBack'
  <2>1. /\ y7[x].pc = "writes" /\ UNCHANGED <<y1, y3, y6, y8, y11, y12>>
        /\ \/ Moves(x, "syncs", <<>>, y7[x].delivered, y7[x].syncs)
           \/ Moves(x, "idle", <<>>, FALSE, FALSE)
    BY <1>0, <1>3, WriteEffect
  <2>2. QED
    BY <1>1, <2>1
<1>4. ASSUME NEW x \in T!Actors, T!Sync(x) PROVE NotBack'
  <2>1. /\ y7[x].pc = "syncs" /\ Moves(x, "sends", T!Specs(y1), y7[x].delivered, y7[x].syncs)
        /\ UNCHANGED <<y1, y3, y6, y8, y11, y12>>
    BY <1>0, <1>4, SyncEffect
  <2>2. QED
    BY <1>1, <2>1
<1>5. ASSUME NEW x \in T!Actors, T!Send(x) PROVE NotBack'
  <2>1. /\ y7[x].pc = "sends" /\ Moves(x, "idle", <<>>, FALSE, FALSE)
        /\ UNCHANGED <<y1, y3, y6, y8, y11, y12>>
    BY <1>0, <1>5, SendsEffect
  <2>2. QED
    BY <1>1, <2>1
<1>6. CASE T!Deliver
  <2>1. /\ y7[T!Scheduler].pc = "idle"
        /\ Moves(T!Scheduler, "delivers", y1, y7[T!Scheduler].delivered, y7[T!Scheduler].syncs)
        /\ UNCHANGED <<y1, y3, y6, y8, y11, y12>>
    BY <1>0, <1>6, DeliverEffect
  <2>2. QED
    BY <1>0, <1>1, <2>1
<1>7. CASE T!Tick
  <2>1. /\ UNCHANGED <<y1, y3, y6, y7, y11, y12>> /\ (\A t \in y8' : y1[t] # T!Absent)
    BY <1>0, <1>7, TickEffect
  <2>2. QED
    BY <1>0, <2>1, NotBackQuiet
<1>8. CASE T!Turn
  <2>1. UNCHANGED <<y1, y3, y6, y7, y8, y11, y12>>
    BY <1>8, TurnEffect
  <2>2. QED
    BY <1>0, <2>1, NotBackQuiet
<1>9. ASSUME NEW x \in T!Actors, T!Change(x) \/ T!Saved(x) PROVE NotBack'
  <2>1. /\ y7[x].pc \in {"idle", "saves"} /\ UNCHANGED <<y3, y6, y8, y11, y12>>
        /\ y1' = y1 \/ "raced" \in y13'
        /\ Moves(x, "idle", <<>>, FALSE, FALSE) \/ Moves(x, "saves", y1, FALSE, FALSE)
    BY <1>0, <1>9, SavesEffect
  <2>2. y1' = y1
    BY <2>1, NoAccident
  <2>3. QED
    BY <1>1, <2>1, <2>2
<1>10. QED
  BY <1>2, <1>3, <1>4, <1>5, <1>6, <1>7, <1>8, <1>9

LEMMA DeliveredNotBack ==
  ASSUME Smooth, NotBack, NEW t \in T!Timers, T!Delivered(t), y13' = {}
  PROVE  NotBack'
<1>0. T!TypeOK /\ T!Scheduler \in T!Actors /\ y12 \subseteq T!Timers /\ y11 \in [T!Timers -> Nat]
  BY TypesGive, ActorsApart DEF Smooth, DataOK
<1>1. /\ y7[T!Scheduler].pc = "delivers" /\ t \in y8 /\ y8' = y8 \ {t}
      /\ UNCHANGED <<y3, y6, y12>>
      /\ y1' = y1 \/ "raced" \in y13'
      /\ y11' = y11 \/ y11' = [y11 EXCEPT ![t] = y11[t] + 1]
      /\ \E d \in BOOLEAN : Moves(T!Scheduler, t, <<>>, d, FALSE)
  BY <1>0, DeliveredEffect
<1>2. y1' = y1
  BY <1>1, NoAccident
<1>3. \A u \in T!Timers : y11'[u] # 0 => y11[u] # 0 \/ u \in y8
  BY <1>0, <1>1
<1>4. t # "merges"
  BY ActorsApart
<1>5. /\ \A h \in Handlers : y7'[h].pc = "merges" <=> y7[h].pc = "merges"
      /\ \A h \in Handlers : y7[h].pc = "merges" => y7'[h].copy = y7[h].copy
  BY <1>0, <1>1, <1>4, OtherThreads
<1>6. QED
  BY <1>0, <1>1, <1>2, <1>3, <1>5, NotBackQuiet

LEMMA SettleNotBack ==
  ASSUME Smooth, NotBack, NEW t \in T!Timers, T!Settle(t), y13' = {}
  PROVE  NotBack'
<1>0. T!TypeOK /\ T!Scheduler \in T!Actors /\ y12 \subseteq T!Timers
  BY TypesGive, ActorsApart DEF Smooth, DataOK
<1>1. /\ y7[T!Scheduler].pc = t /\ UNCHANGED <<y3, y6, y8, y11>>
      /\ \/ UNCHANGED <<y1, y12>> /\ Moves(T!Scheduler, "idle", <<>>, FALSE, FALSE)
         \/ /\ y1[t] # T!Absent
            /\ \A u \in T!Timers \ {t} : y1'[u] = y1[u]
            /\ Moves(T!Scheduler, "persists", <<>>, FALSE, TRUE)
            /\ T!TopicsUnderWay => "crossed" \in y13'
            /\ y1'[t] = T!Absent \/ y12' = y12
            /\ y12' \subseteq y12 \cup {t}
  BY <1>0, SettleEffect
<1>2. y7[T!Scheduler].pc # "merges"
  BY <1>1, ActorsApart
<1>3. /\ \A h \in Handlers : y7'[h].pc = "merges" <=> y7[h].pc = "merges"
      /\ \A h \in Handlers : y7[h].pc = "merges" => y7'[h].copy = y7[h].copy
      /\ T!TopicsUnderWay' <=> T!TopicsUnderWay
  BY <1>0, <1>1, <1>2, OtherThreads
<1>4. CASE y1' = y1 /\ y12' = y12
  BY <1>0, <1>1, <1>3, <1>4, NotBackQuiet
<1>5. CASE /\ y1[t] # T!Absent
           /\ \A u \in T!Timers \ {t} : y1'[u] = y1[u]
           /\ T!TopicsUnderWay => "crossed" \in y13'
           /\ y1'[t] = T!Absent \/ y12' = y12
           /\ y12' \subseteq y12 \cup {t}
  <2>1. ~T!TopicsUnderWay
    BY <1>5, NoAccident
  <2>2. \A u \in y12 : y1[u] = T!Absent /\ (u \in Unusable => y3[u] = 0)
    BY <2>1 DEF NotBack, T!EndedIsGone
  <2>3. \A u \in y12' : y1'[u] = T!Absent /\ (u \in Unusable => y3'[u] = 0)
    BY <1>0, <1>1, <1>5, <2>2, UnusableAbsent
  <2>4. QED
    BY <1>3, <2>1, <2>3, NotBackNoTopics
<1>6. QED
  BY <1>1, <1>4, <1>5

LEMMA TakeSyncNotBack ==
  ASSUME Smooth, NotBack, T!TakeSync
  PROVE  NotBack'
<1>1. y5 # <<>> /\ y3' = Head(y5) /\ UNCHANGED <<y1, y6, y7, y12>>
  BY TakeSyncEffect
<1>2. ~T!TopicsUnderWay /\ ~T!TopicsUnderWay'
  BY <1>1 DEF Smooth, InStep, T!OneWay, T!SyncsUnderWay, T!TopicsUnderWay
<1>3. \A t \in y12' : y1'[t] = T!Absent
  BY <1>1, <1>2 DEF NotBack, T!EndedIsGone
<1>4. y12 \subseteq T!Timers /\ y5 \in Seq(T!SpecsType)
  BY DEF Smooth, TypesInv, DataOK
<1>5. \A t \in y12' : t \in Unusable => y3'[t] = 0
  BY <1>1, <1>4, FirstTaken, UnusableAbsent
<1>6. QED
  BY <1>2, <1>3, <1>5, NotBackNoTopics

LEMMA RestartNotBack ==
  ASSUME Smooth, NotBack, T!Restart, y13' = {}
  PROVE  NotBack'
<1>0. T!TypeOK /\ Handlers \subseteq T!Actors
  BY TypesGive, ActorsApart DEF Smooth
<1>1. /\ y1' = y2 /\ y3' = T!Specs(y2) /\ y6' = <<>> /\ y12' = y12 /\ y7' = [x \in T!Actors |-> T!Idle]
      /\ (y2 # y1 \/ T!TopicsUnderWay) => "crashed" \in y13'
  BY <1>0, RestartEffect
<1>2. y2 = y1 /\ ~T!TopicsUnderWay
  BY <1>1, NoAccident
<1>3. \A x \in T!Actors : y7'[x].pc = "idle"
  BY <1>1, IdleThreads
<1>4. ~T!TopicsUnderWay'
  BY <1>0, <1>1, <1>3 DEF T!TopicsUnderWay
<1>5. \A t \in y12' : y1'[t] = T!Absent
  BY <1>1, <1>2 DEF NotBack, T!EndedIsGone
<1>6. \A t \in y12' : t \in Unusable => y3'[t] = 0
  <2>1. y12 \subseteq T!Timers
    BY DEF Smooth, TypesInv, DataOK
  <2>2. QED
    BY <1>1, <2>1, UnusableAbsent
<1>7. QED
  BY <1>4, <1>5, <1>6, NotBackNoTopics

LEMMA CallNotBack ==
  ASSUME Smooth, NotBack, NEW t \in T!Timers, CallStep(t), y13' = {}
  PROVE  NotBack'
<1>0. /\ T!TypeOK /\ DataKnown /\ Handlers \subseteq T!Actors /\ y6 \in Seq(T!SpecsType)
      /\ y1 \in T!TimersType /\ y3 \in T!SpecsType /\ y12 \subseteq y10 /\ y12 \subseteq T!Timers
      /\ \A x \in T!Actors : y7[x].pc = "merges" => KnownIn(y7[x].copy, y10)
  BY TypesGive, ActorsApart DEF Smooth, DataOK, DataKnown, MayBe
<1>1. /\ y3' \in T!SpecsType /\ y6' = Append(y6, y3')
      /\ \A u \in T!Timers \ {t} : y3'[u] = y3[u]
      /\ UNCHANGED <<y1, y7, y8, y11>>
      /\ T!SyncsUnderWay => "crossed" \in y13'
      /\ \/ t \in ModelTimers /\ t \notin y10 /\ y12' = y12
         \/ /\ y3[t] # 0 /\ y3'[t] = 0 /\ y12' = y12 \cup {t}
            /\ t \in UserTimers => "defied" \in y13'
  BY <1>0, CallEffect
<1>2. ~T!SyncsUnderWay
  BY <1>1, NoAccident
<1>3. /\ Len(y6) \in Nat /\ DOMAIN y6 = 1 .. Len(y6) /\ DOMAIN y6' = 1 .. (Len(y6) + 1)
      /\ y6'[Len(y6) + 1] = y3'
      /\ \A i \in DOMAIN y6 : i \in DOMAIN y6' /\ y6'[i] = y6[i]
      /\ \A i \in DOMAIN y6' : y6'[i] = y3' \/ (i \in DOMAIN y6 /\ y6'[i] = y6[i])
      /\ y6' # <<>>
  BY <1>0, <1>1, LastAppended
<1>4. T!TopicsUnderWay'
  BY <1>3 DEF T!TopicsUnderWay
<1>5. ASSUME t \notin y10
      PROVE  /\ y1[t] = T!Absent /\ (\A i \in DOMAIN y6 : y6[i][t] = 0) /\ t \notin y8 /\ y11[t] = 0
             /\ t \notin y12 /\ \A h \in Handlers : y7[h].pc = "merges" => y7[h].copy[t] = 0
  <2>1. y1[t] = T!Absent
    BY <1>0, <1>5, KnownTimers DEF DataKnown
  <2>2. QED
    BY <1>0, <1>5, <2>1 DEF DataKnown, KnownIn
(* What has gone from what was under way has gone from what is now. *)
<1>6. ASSUME NEW u \in T!Timers, NEW i \in DOMAIN y6 \cup {1}, T!GoneFrom(u, i), u # t \/ y3'[t] = 0
      PROVE  T!GoneFrom(u, i)'
  <2>1. y3[u] = 0 /\ \A j \in DOMAIN y6 : j >= i => y6[j][u] = 0
    BY <1>6 DEF T!GoneFrom
  <2>2. y3'[u] = 0
    BY <1>1, <1>6, <2>1
  <2>3. \A j \in DOMAIN y6' : j >= i => y6'[j][u] = 0
    BY <1>3, <2>1, <2>2
  <2>4. QED
    BY <2>2, <2>3 DEF T!GoneFrom
<1>7. T!GoneForGood'
  <2>1. SUFFICES ASSUME NEW u \in T!Timers, NEW i \in DOMAIN y6', y6'[i][u] = 0,
                        \/ y1[u] # T!Absent
                        \/ \E h \in Handlers : y7[h].pc = "merges" /\ y7[h].copy[u] # 0
                        \/ \E j \in DOMAIN y6' : j < i /\ y6'[j][u] # 0
                 PROVE  T!GoneFrom(u, i)'
    BY <1>1 DEF T!GoneForGood
  <2>2. CASE i \in DOMAIN y6
    <3>1. y6[i][u] = 0
      BY <1>3, <2>1, <2>2
    <3>2. ASSUME NEW j \in DOMAIN y6', j < i, y6'[j][u] # 0
          PROVE  j \in DOMAIN y6 /\ y6[j][u] # 0
      <4>1. j \in DOMAIN y6
        BY <1>3, <2>2, <3>2
      <4>2. QED
        BY <1>3, <3>2, <4>1
    <3>3. T!GoneFrom(u, i)
      BY <2>1, <2>2, <3>1, <3>2 DEF NotBack, T!GoneForGood
    <3>4. CASE t \notin y10
      <4>1. u # t
        BY <1>5, <2>1, <3>2, <3>4
      <4>2. QED
        BY <1>6, <2>2, <3>3, <4>1
    <3>5. CASE y3'[t] = 0
      BY <1>6, <2>2, <3>3, <3>5
    <3>6. QED
      BY <1>1, <3>4, <3>5
  <2>3. CASE i = Len(y6) + 1
    <3>1. y3'[u] = 0
      BY <1>3, <2>1, <2>3
    <3>2. \A j \in DOMAIN y6' : j >= i => y6'[j][u] = 0
      <4>1. \A j \in DOMAIN y6' : j >= i => j = Len(y6) + 1
        BY <1>3, <2>3
      <4>2. QED
        BY <1>3, <3>1, <4>1
    <3>3. QED
      BY <3>1, <3>2 DEF T!GoneFrom
  <2>4. QED
    BY <1>3, <2>2, <2>3
<1>8. T!GoneWithTheNext'
  <2>1. SUFFICES ASSUME NEW u \in T!Timers, NEW h \in Handlers, y1[u] # T!Absent, y7[h].pc = "merges",
                        y7[h].copy[u] = 0
                 PROVE  T!GoneFrom(u, 1)'
    BY <1>1 DEF T!GoneWithTheNext
  <2>2. T!GoneFrom(u, 1)
    BY <2>1 DEF NotBack, T!GoneWithTheNext
  <2>3. u # t \/ y3'[t] = 0
    BY <1>1, <1>5, <2>1
  <2>4. QED
    BY <1>6, <2>2, <2>3
(* When nothing was under way Core had what the Host has. *)
<1>9. ASSUME NEW u \in T!Timers \ Unusable, y1[u] = T!Absent, u # t, ~T!TopicsUnderWay
      PROVE  y3'[u] = 0 /\ (\A i \in DOMAIN y6' : y6'[i][u] = 0)
  <2>1. y3[u] = 0
    BY <1>0, <1>2, <1>9, Prompts DEF Smooth, InStep, T!SameTimers
  <2>2. y6 = <<>>
    BY <1>9 DEF T!TopicsUnderWay
  <2>3. DOMAIN y6 = {}
    BY <2>2
  <2>4. QED
    BY <1>1, <1>3, <1>9, <2>1, <2>3
<1>10. ASSUME ~T!TopicsUnderWay, y1[t] = T!Absent, t \notin Unusable PROVE y3[t] = 0
  BY <1>0, <1>2, <1>10, Prompts DEF Smooth, InStep, T!SameTimers
<1>11. T!PastIsGone'
  <2>1. SUFFICES ASSUME NEW u \in T!Timers \ Repeats, u \in y8 \/ y11[u] # 0, y1[u] = T!Absent
                 PROVE  /\ T!GoneFrom(u, 1)'
                        /\ \A h \in Handlers : y7[h].pc = "merges" => y7[h].copy[u] = 0
    BY <1>1 DEF T!PastIsGone, T!Gone
  <2>2. CASE T!TopicsUnderWay
    <3>1. T!GoneFrom(u, 1) /\ \A h \in Handlers : y7[h].pc = "merges" => y7[h].copy[u] = 0
      BY <2>1, <2>2 DEF NotBack, T!PastIsGone, T!Gone
    <3>2. u # t \/ y3'[t] = 0
      BY <1>1, <1>5, <2>1
    <3>3. QED
      BY <1>6, <3>1, <3>2
  <2>3. CASE ~T!TopicsUnderWay
    <3>0. u \notin Unusable
      BY <1>0, <2>1 DEF DataKnown
    <3>1. u # t
      BY <1>1, <1>5, <1>10, <2>1, <2>3, <3>0
    <3>2. y3'[u] = 0 /\ (\A i \in DOMAIN y6' : y6'[i][u] = 0)
      BY <1>9, <2>1, <2>3, <3>0, <3>1
    <3>3. QED
      BY <2>3, <3>2 DEF T!GoneFrom, T!TopicsUnderWay
  <2>4. QED
    BY <2>2, <2>3
<1>12. T!EndedIsGone'
  <2>1. SUFFICES ASSUME NEW u \in y12' PROVE y3'[u] = 0 /\ (u \in UserTimers => y1[u] = T!Absent)
    BY <1>1, <1>4 DEF T!EndedIsGone
  <2>2. CASE u = t /\ u \notin y12
    BY <1>1, <2>1, <2>2, NoAccident
  <2>3. CASE u \in y12
    <3>1. u \in UserTimers => y1[u] = T!Absent
      BY <2>3 DEF NotBack, T!EndedIsGone
    <3>2. CASE u = t
      BY <1>0, <1>1, <2>3, <3>1, <3>2
    <3>3. CASE u # t /\ T!TopicsUnderWay
      <4>1. y3[u] = 0
        BY <2>3, <3>3 DEF NotBack, T!EndedIsGone
      <4>2. QED
        BY <1>0, <1>1, <2>3, <3>1, <3>3, <4>1
    <3>4. CASE u # t /\ ~T!TopicsUnderWay
      <4>1. y1[u] = T!Absent /\ (u \in Unusable => y3[u] = 0)
        BY <2>3, <3>4 DEF NotBack, T!EndedIsGone
      <4>2. y3'[u] = 0
        BY <1>0, <1>1, <1>9, <2>3, <3>4, <4>1
      <4>3. QED
        BY <4>1, <4>2
    <3>5. QED
      BY <3>2, <3>3, <3>4
  <2>4. QED
    BY <1>1, <2>1, <2>2, <2>3
<1>13. QED
  BY <1>7, <1>8, <1>11, <1>12 DEF NotBack

LEMMA TakeTopicNotBack ==
  ASSUME Smooth, NotBack, NEW h \in Handlers, T!TakeTopic(h), y13' = {}
  PROVE  NotBack'
<1>0. /\ T!TypeOK /\ h \in T!Actors /\ Handlers \subseteq T!Actors /\ y6 \in Seq(T!SpecsType)
  BY TypesGive, ActorsApart DEF Smooth, DataOK
<1>1. /\ y6 # <<>> /\ y6' = Tail(y6)
      /\ Moves(h, "merges", Head(y6), FALSE, FALSE)
      /\ UNCHANGED <<y1, y3, y8, y11, y12>>
      /\ T!Races(h, "merges") => "raced" \in y13'
  BY <1>0, TakeTopicEffect
<1>2. /\ y7'[h].pc = "merges" /\ y7'[h].copy = Head(y6)
      /\ \A y \in T!Actors \ {h} : y7'[y] = y7[y]
  BY <1>1 DEF Moves
<1>3. \A g \in Handlers : y7'[g].pc = "merges" => g = h /\ y7'[g].copy = Head(y6)
  BY <1>0, <1>1, <1>2, NoAccident DEF T!Races
<1>4. T!TopicsUnderWay /\ T!TopicsUnderWay'
  BY <1>1, <1>2 DEF T!TopicsUnderWay
<1>5. /\ Head(y6) = y6[1] /\ 1 \in DOMAIN y6 /\ Len(y6) \in Nat
      /\ DOMAIN y6 = 1 .. Len(y6) /\ DOMAIN Tail(y6) = 1 .. (Len(y6) - 1)
      /\ \A i \in DOMAIN Tail(y6) : i + 1 \in DOMAIN y6 /\ Tail(y6)[i] = y6[i + 1]
  BY <1>0, <1>1, FirstTaken
<1>6. ASSUME NEW u \in T!Timers, NEW i \in DOMAIN y6', T!GoneFrom(u, i + 1) PROVE T!GoneFrom(u, i)'
  <2>1. y3[u] = 0 /\ \A j \in DOMAIN y6 : j >= i + 1 => y6[j][u] = 0
    BY <1>6 DEF T!GoneFrom
  <2>2. ASSUME NEW j \in DOMAIN y6', j >= i PROVE y6'[j][u] = 0
    <3>1. j + 1 >= i + 1
      BY <1>1, <1>5, <1>6, <2>2
    <3>2. QED
      BY <1>1, <1>5, <2>1, <2>2, <3>1
  <2>3. QED
    BY <1>1, <2>1, <2>2 DEF T!GoneFrom
<1>7. ASSUME NEW u \in T!Timers, T!GoneFrom(u, 1) PROVE T!GoneFrom(u, 1)' /\ y6[1][u] = 0
  <2>1. y3[u] = 0 /\ \A j \in DOMAIN y6 : j >= 1 => y6[j][u] = 0
    BY <1>7 DEF T!GoneFrom
  <2>2. ASSUME NEW j \in DOMAIN y6' PROVE y6'[j][u] = 0
    <3>1. j + 1 >= 1
      BY <1>1, <1>5, <2>2
    <3>2. QED
      BY <1>1, <1>5, <2>1, <2>2, <3>1
  <2>3. 1 >= 1
    OBVIOUS
  <2>4. QED
    BY <1>1, <1>5, <2>1, <2>2, <2>3 DEF T!GoneFrom
<1>8. T!GoneForGood'
  <2>1. SUFFICES ASSUME NEW u \in T!Timers, NEW i \in DOMAIN y6', y6'[i][u] = 0,
                        \/ y1[u] # T!Absent
                        \/ \E g \in Handlers : y7'[g].pc = "merges" /\ y7'[g].copy[u] # 0
                        \/ \E j \in DOMAIN y6' : j < i /\ y6'[j][u] # 0
                 PROVE  T!GoneFrom(u, i)'
    BY <1>1 DEF T!GoneForGood
  <2>2. i + 1 \in DOMAIN y6 /\ y6[i + 1][u] = 0 /\ 1 < i + 1
    <3>1. 1 < i + 1
      BY <1>1, <1>5
    <3>2. QED
      BY <1>1, <1>5, <2>1, <3>1
  <2>3. CASE y1[u] # T!Absent
    <3>1. T!GoneFrom(u, i + 1)
      BY <2>2, <2>3, GoneForGoodOf DEF NotBack
    <3>2. QED
      BY <1>6, <3>1
  <2>4. CASE \E g \in Handlers : y7'[g].pc = "merges" /\ y7'[g].copy[u] # 0
    <3>1. y6[1][u] # 0
      BY <1>3, <1>5, <2>4
    <3>2. T!GoneFrom(u, i + 1)
      BY <1>5, <2>2, <3>1, GoneForGoodOf DEF NotBack
    <3>3. QED
      BY <1>6, <3>2
  <2>5. CASE \E j \in DOMAIN y6' : j < i /\ y6'[j][u] # 0
    <3>1. PICK j \in DOMAIN y6' : j < i /\ y6'[j][u] # 0
      BY <2>5
    <3>2. j + 1 < i + 1
      BY <1>1, <1>5, <3>1
    <3>3. j + 1 \in DOMAIN y6 /\ y6[j + 1][u] # 0
      BY <1>1, <1>5, <3>1
    <3>4. T!GoneFrom(u, i + 1)
      BY <2>2, <3>2, <3>3, GoneForGoodOf DEF NotBack
    <3>5. QED
      BY <1>6, <3>4
  <2>6. QED
    BY <2>1, <2>3, <2>4, <2>5
<1>9. T!GoneWithTheNext'
  <2>1. SUFFICES ASSUME NEW u \in T!Timers, y1[u] # T!Absent, y6[1][u] = 0 PROVE T!GoneFrom(u, 1)'
    BY <1>1, <1>3, <1>5 DEF T!GoneWithTheNext
  <2>2. T!GoneFrom(u, 1)
    BY <1>5, <2>1, GoneForGoodOf DEF NotBack
  <2>3. QED
    BY <1>7, <2>2
<1>10. T!PastIsGone'
  <2>1. SUFFICES ASSUME NEW u \in T!Timers \ Repeats, u \in y8 \/ y11[u] # 0, y1[u] = T!Absent
                 PROVE  T!GoneFrom(u, 1)' /\ y6[1][u] = 0
    BY <1>1, <1>3, <1>5 DEF T!PastIsGone, T!Gone
  <2>2. T!GoneFrom(u, 1)
    BY <1>4, <2>1 DEF NotBack, T!PastIsGone, T!Gone
  <2>3. QED
    BY <1>7, <2>2
<1>11. T!EndedIsGone'
  BY <1>1, <1>4 DEF NotBack, T!EndedIsGone
<1>12. QED
  BY <1>8, <1>9, <1>10, <1>11 DEF NotBack

LEMMA MergeNotBack ==
  ASSUME Smooth, NotBack, NEW h \in Handlers, T!Merge(h), y13' = {}
  PROVE  NotBack'
<1>0. /\ T!TypeOK /\ h \in T!Actors /\ Handlers \subseteq T!Actors /\ y6 \in Seq(T!SpecsType)
      /\ y1 \in T!TimersType /\ UserTimers \subseteq T!Timers /\ y12 \subseteq T!Timers
  BY TypesGive, ActorsApart DEF Smooth, DataOK
<1>1. /\ y7[h].pc = "merges"
      /\ \A t \in T!Timers :
              /\ y7[h].copy[t] # 0 /\ t \notin Unusable => y1'[t] # T!Absent
              /\ y7[h].copy[t] = 0 /\ t \in UserTimers => y1'[t] = y1[t]
              /\ y7[h].copy[t] = 0 /\ t \notin UserTimers => y1'[t] = T!Absent
      /\ Moves(h, "persists", <<>>, FALSE, FALSE)
      /\ UNCHANGED <<y3, y6, y8, y11, y12>>
  BY <1>0, MergeEffect
<1>2. y7'[h].pc = "persists" /\ \A y \in T!Actors \ {h} : y7'[y] = y7[y]
  BY <1>1 DEF Moves
<1>3. \A y \in T!Actors : y7[y].pc = "merges" => y = h
  <2>1. T!Without({"raced"})
    BY DEF Smooth, T!Without
  <2>2. QED
    BY <1>0, <1>1, <2>1 DEF Smooth, T!OneAtATime
<1>4. \A g \in Handlers : y7'[g].pc # "merges"
  BY <1>0, <1>2, <1>3
<1>5. T!TopicsUnderWay /\ (T!TopicsUnderWay' <=> y6 # <<>>)
  BY <1>1, <1>4 DEF T!TopicsUnderWay
<1>6. \A u \in T!Timers : \A i : T!GoneFrom(u, i)' <=> T!GoneFrom(u, i)
  BY <1>1 DEF T!GoneFrom
<1>7. \A t \in T!Timers : y1'[t] # T!Absent =>
        y7[h].copy[t] # 0 \/ (y7[h].copy[t] = 0 /\ y1[t] # T!Absent)
  BY <1>1
<1>8. T!GoneForGood'
  <2>1. SUFFICES ASSUME NEW u \in T!Timers, NEW i \in DOMAIN y6, y6[i][u] = 0,
                        y1'[u] # T!Absent \/ \E j \in DOMAIN y6 : j < i /\ y6[j][u] # 0
                 PROVE  T!GoneFrom(u, i)
    BY <1>1, <1>4, <1>6 DEF T!GoneForGood
  <2>2. CASE y1'[u] # T!Absent
    BY <1>1, <1>7, <2>1, <2>2, GoneForGoodOf DEF NotBack
  <2>3. CASE \E j \in DOMAIN y6 : j < i /\ y6[j][u] # 0
    BY <2>1, <2>3, GoneForGoodOf DEF NotBack
  <2>4. QED
    BY <2>1, <2>2, <2>3
<1>9. T!GoneWithTheNext'
  BY <1>4 DEF T!GoneWithTheNext
<1>10. T!PastIsGone'
  <2>1. SUFFICES ASSUME NEW u \in T!Timers \ Repeats, u \in y8 \/ y11[u] # 0, y1'[u] = T!Absent
                 PROVE  T!GoneFrom(u, 1)
    BY <1>1, <1>4, <1>6 DEF T!PastIsGone, T!Gone
  <2>2. CASE y1[u] = T!Absent
    BY <1>5, <2>1, <2>2 DEF NotBack, T!PastIsGone, T!Gone
  <2>3. CASE y1[u] # T!Absent
    <3>1. y7[h].copy[u] = 0
      BY <1>0, <1>1, <2>1, <2>3, UnusableAbsent
    <3>2. QED
      BY <1>1, <2>3, <3>1 DEF NotBack, T!GoneWithTheNext
  <2>4. QED
    BY <2>2, <2>3
<1>11. T!EndedIsGone'
  <2>1. ASSUME NEW u \in y12
        PROVE  y3[u] = 0 /\ (u \in UserTimers => y1[u] = T!Absent)
    BY <1>5 DEF NotBack, T!EndedIsGone
  <2>2. ASSUME NEW u \in y12, u \in UserTimers PROVE y1'[u] = T!Absent
    <3>1. y1[u] = T!Absent
      BY <2>1, <2>2
    <3>2. y7[h].copy[u] = y1[u].prompt
      BY <1>1, <1>5, <2>2 DEF Smooth, InStep, T!TopicsKeepTheUsers, T!SameForUser
    <3>3. QED
      BY <1>0, <1>1, <2>2, <3>1, <3>2, TimerValues
  <2>3. ASSUME NEW u \in y12, u \notin UserTimers, y6 = <<>> PROVE y1'[u] = T!Absent
    <3>1. y7[h].copy = y3
      BY <1>1, <2>3 DEF Smooth, InStep, T!LastTopicIsCore
    <3>2. QED
      BY <1>0, <1>1, <2>1, <2>3, <3>1
  <2>4. QED
    BY <1>1, <1>5, <2>1, <2>2, <2>3 DEF T!EndedIsGone
<1>12. QED
  BY <1>8, <1>9, <1>10, <1>11 DEF NotBack

LEMMA NotBackStep ==
  ASSUME Smooth, NotBack, T!Next, y13' = {}
  PROVE  NotBack'
BY TimerSteps, CommandNotBack, QuietNotBack, DeliveredNotBack, SettleNotBack, TakeSyncNotBack,
   RestartNotBack, CallNotBack, TakeTopicNotBack, MergeNotBack

(* What fires once is delivered once. *)
LEMMA FiredQuiet ==
  ASSUME T!FiredOnce, y11' = y11, y8' \subseteq y8,
         \A t \in T!Timers \ Repeats : y11[t] # 0 /\ y1[t] = T!Absent => y1'[t] = T!Absent,
         \A t \in T!Timers \ Repeats : y7[T!Scheduler].pc = t /\ y7[T!Scheduler].delivered =>
             y1'[t] = T!Absent \/ (y7'[T!Scheduler].pc = t /\ y7'[T!Scheduler].delivered)
  PROVE  T!FiredOnce'
<1>1. ASSUME NEW t \in T!Timers \ Repeats
      PROVE  /\ y11'[t] <= 1
             /\ t \in y8' => y11'[t] = 0
             /\ y11'[t] # 0 => y1'[t] = T!Absent \/ (y7'[T!Scheduler].pc = t /\ y7'[T!Scheduler].delivered)
  <2>1. /\ y11[t] <= 1
        /\ t \in y8 => y11[t] = 0
        /\ y11[t] # 0 => y1[t] = T!Absent \/ (y7[T!Scheduler].pc = t /\ y7[T!Scheduler].delivered)
    BY DEF T!FiredOnce
  <2>2. QED
    BY <2>1
<1>2. QED
  BY <1>1 DEF T!FiredOnce

(* A step of a thread that is not, or no longer, delivering. *)
LEMMA FiredMove ==
  ASSUME T!FiredOnce, y11' = y11, y8' = y8, y1' = y1, NEW x \in T!Actors,
         NEW p, NEW c, NEW d, NEW s, Moves(x, p, c, d, s), y7[x].pc \notin T!Timers
  PROVE  T!FiredOnce'
<1>1. \A t \in T!Timers \ Repeats : y7[T!Scheduler].pc = t /\ y7[T!Scheduler].delivered =>
             y7'[T!Scheduler].pc = t /\ y7'[T!Scheduler].delivered
  BY ActorsApart DEF Moves
<1>2. QED
  BY <1>1, FiredQuiet

LEMMA FiredOnceStep ==
  ASSUME Smooth, NotBack, T!FiredOnce, T!Next, y13' = {}
  PROVE  T!FiredOnce'
<1>0. /\ T!TypeOK /\ DataOK /\ DataKnown /\ T!Lane \in T!Actors /\ T!Scheduler \in T!Actors
      /\ Handlers \subseteq T!Actors /\ T!Lane # T!Scheduler /\ T!Scheduler \notin Handlers
      /\ UserTimers \subseteq T!Timers
  BY TypesGive, ActorsApart DEF Smooth
<1>01. \A s \in {"idle", "persists", "writes", "syncs", "sends", "merges", "delivers", "saves"} : s \notin T!Timers
  BY ActorsApart
<1>1. ASSUME NEW t \in T!Timers, CommandStep(t) PROVE T!FiredOnce'
  <2>1. /\ y11' = y11 /\ y8' = y8 /\ (\A u \in T!Timers \ {t} : y1'[u] = y1[u])
        /\ t \notin y10 \/ y1'[t] = T!Absent \/ y1[t] # T!Absent
        /\ \E tells \in BOOLEAN : Moves(T!Lane, "persists", <<>>, FALSE, tells)
    BY <1>0, <1>1, CommandEffect
  <2>2. y7'[T!Scheduler] = y7[T!Scheduler]
    BY <1>0, <2>1 DEF Moves
  <2>3. y11[t] # 0 => t \in y10
    BY <1>0 DEF DataKnown
  <2>4. QED
    BY <2>1, <2>2, <2>3, FiredQuiet
<1>2. ASSUME NEW t \in T!Timers, CallStep(t) PROVE T!FiredOnce'
  <2>1. UNCHANGED <<y1, y7, y8, y11>>
    BY <1>0, <1>2, CallEffect
  <2>2. QED
    BY <2>1, FiredQuiet
<1>3. ASSUME NEW x \in T!Actors, T!Persist(x) PROVE T!FiredOnce'
  <2>1. /\ y7[x].pc = "persists" /\ Moves(x, "writes", y1, y7[x].delivered, y7[x].syncs)
        /\ UNCHANGED <<y1, y8, y11>>
    BY <1>0, <1>3, PersistEffect
  <2>2. y7[x].pc \notin T!Timers
    BY <1>01, <2>1
  <2>3. QED
    BY <2>1, <2>2, FiredMove
<1>4. ASSUME NEW x \in T!Actors, T!Write(x) PROVE T!FiredOnce'
  <2>1. /\ y7[x].pc = "writes" /\ UNCHANGED <<y1, y8, y11>>
        /\ \/ Moves(x, "syncs", <<>>, y7[x].delivered, y7[x].syncs)
           \/ Moves(x, "idle", <<>>, FALSE, FALSE)
    BY <1>0, <1>4, WriteEffect
  <2>2. y7[x].pc \notin T!Timers
    BY <1>01, <2>1
  <2>3. QED
    BY <2>1, <2>2, FiredMove
<1>5. ASSUME NEW x \in T!Actors, T!Sync(x) PROVE T!FiredOnce'
  <2>1. /\ y7[x].pc = "syncs" /\ Moves(x, "sends", T!Specs(y1), y7[x].delivered, y7[x].syncs)
        /\ UNCHANGED <<y1, y8, y11>>
    BY <1>0, <1>5, SyncEffect
  <2>2. y7[x].pc \notin T!Timers
    BY <1>01, <2>1
  <2>3. QED
    BY <2>1, <2>2, FiredMove
<1>6. ASSUME NEW x \in T!Actors, T!Send(x) PROVE T!FiredOnce'
  <2>1. /\ y7[x].pc = "sends" /\ Moves(x, "idle", <<>>, FALSE, FALSE)
        /\ UNCHANGED <<y1, y8, y11>>
    BY <1>0, <1>6, SendsEffect
  <2>2. y7[x].pc \notin T!Timers
    BY <1>01, <2>1
  <2>3. QED
    BY <2>1, <2>2, FiredMove
<1>7. CASE T!Tick
  <2>1. /\ y7[T!Scheduler].pc = "idle" /\ (\A t \in y8' : y1[t] # T!Absent)
        /\ UNCHANGED <<y1, y7, y11>>
    BY <1>0, <1>7, TickEffect
  <2>2. \A t \in T!Timers : y7[T!Scheduler].pc # t
    BY <1>01, <2>1
  <2>3. QED
    BY <2>1, <2>2 DEF T!FiredOnce
<1>8. CASE T!Deliver
  <2>1. /\ y7[T!Scheduler].pc = "idle"
        /\ Moves(T!Scheduler, "delivers", y1, y7[T!Scheduler].delivered, y7[T!Scheduler].syncs)
        /\ UNCHANGED <<y1, y8, y11>>
    BY <1>0, <1>8, DeliverEffect
  <2>2. y7[T!Scheduler].pc \notin T!Timers
    BY <1>01, <2>1
  <2>3. QED
    BY <1>0, <2>1, <2>2, FiredMove
<1>9. ASSUME NEW t \in T!Timers, T!Delivered(t) PROVE T!FiredOnce'
  <2>1. /\ y7[T!Scheduler].pc = "delivers" /\ t \in y8 /\ y8' = y8 \ {t}
        /\ \/ /\ y11' = [y11 EXCEPT ![t] = y11[t] + 1] /\ y1' = y1
              /\ Moves(T!Scheduler, t, <<>>, TRUE, FALSE)
           \/ /\ y11' = y11 /\ (y1' # y1 => "raced" \in y13')
              /\ Moves(T!Scheduler, t, <<>>, FALSE, FALSE)
    BY <1>0, <1>9, DeliveredEffect
  <2>2. y7[T!Scheduler].pc \notin T!Timers
    BY <1>01, <2>1
  <2>3. y11 \in [T!Timers -> Nat]
    BY <1>0 DEF DataOK
  <2>4. CASE y11' = y11 /\ (y1' # y1 => "raced" \in y13') /\ Moves(T!Scheduler, t, <<>>, FALSE, FALSE)
    <3>1. y1' = y1 /\ y8' \subseteq y8
      BY <2>1, <2>4, NoAccident
    <3>2. \A u \in T!Timers \ Repeats : y7[T!Scheduler].pc # u
      BY <2>2
    <3>3. QED
      BY <2>4, <3>1, <3>2, FiredQuiet
  <2>5. CASE /\ y11' = [y11 EXCEPT ![t] = y11[t] + 1] /\ y1' = y1
             /\ Moves(T!Scheduler, t, <<>>, TRUE, FALSE)
    <3>1. y7'[T!Scheduler].pc = t /\ y7'[T!Scheduler].delivered
      BY <2>5 DEF Moves
    <3>2. y11'[t] = y11[t] + 1 /\ \A u \in T!Timers \ {t} : y11'[u] = y11[u]
      BY <2>3, <2>5
    <3>3. ASSUME NEW u \in T!Timers \ Repeats
          PROVE  /\ y11[u] <= 1
                 /\ u \in y8 => y11[u] = 0
                 /\ y11[u] # 0 => y1[u] = T!Absent
      BY <2>2 DEF T!FiredOnce
    <3>4. t \in T!Timers \ Repeats => y11'[t] = 1
      <4>1. t \in T!Timers \ Repeats => y11[t] = 0
        BY <2>1, <3>3
      <4>2. QED
        BY <3>2, <4>1
    <3>5. ASSUME NEW u \in T!Timers \ Repeats
          PROVE  /\ y11'[u] <= 1
                 /\ u \in y8' => y11'[u] = 0
                 /\ y11'[u] # 0 =>
                      y1'[u] = T!Absent \/ (y7'[T!Scheduler].pc = u /\ y7'[T!Scheduler].delivered)
      <4>1. CASE u = t
        <5>1. y11'[u] <= 1
          BY <3>4, <4>1
        <5>2. QED
          BY <2>1, <3>1, <4>1, <5>1
      <4>2. CASE u # t
        <5>1. y11'[u] = y11[u]
          BY <3>2, <4>2
        <5>2. QED
          BY <2>1, <2>5, <3>3, <5>1
      <4>3. QED
        BY <4>1, <4>2
    <3>6. QED
      BY <3>5 DEF T!FiredOnce
  <2>6. QED
    BY <2>1, <2>4, <2>5
<1>10. ASSUME NEW t \in T!Timers, T!Settle(t) PROVE T!FiredOnce'
  <2>1. /\ y7[T!Scheduler].pc = t /\ UNCHANGED <<y8, y11>>
        /\ \/ y1[t] = T!Absent /\ y1' = y1
           \/ /\ y1[t] # T!Absent /\ (\A u \in T!Timers \ {t} : y1'[u] = y1[u])
              /\ \/ y1'[t] = T!Absent
                 \/ ~y7[T!Scheduler].delivered \/ t \in Repeats
    BY <1>0, <1>10, SettleEffect
  <2>2. \A u \in T!Timers \ Repeats : y11[u] # 0 /\ y1[u] = T!Absent => y1'[u] = T!Absent
    BY <2>1
  <2>3. \A u \in T!Timers \ Repeats : y7[T!Scheduler].pc = u /\ y7[T!Scheduler].delivered => y1'[u] = T!Absent
    BY <2>1
  <2>4. QED
    BY <2>1, <2>2, <2>3, FiredQuiet
<1>11. CASE T!TakeSync \/ T!Turn
  <2>1. UNCHANGED <<y1, y7, y8, y11>>
    BY <1>0, <1>11, TakeSyncEffect, TurnEffect
  <2>2. QED
    BY <2>1, FiredQuiet
<1>12. ASSUME NEW h \in Handlers, T!TakeTopic(h) PROVE T!FiredOnce'
  <2>1. y7[h].pc = "idle" /\ UNCHANGED <<y1, y8, y11>> /\ Moves(h, "merges", Head(y6), FALSE, FALSE)
    BY <1>0, <1>12, TakeTopicEffect
  <2>2. y7[h].pc \notin T!Timers
    BY <1>01, <2>1
  <2>3. QED
    BY <1>0, <2>1, <2>2, FiredMove
<1>13. ASSUME NEW h \in Handlers, T!Merge(h) PROVE T!FiredOnce'
  <2>1. /\ y7[h].pc = "merges" /\ UNCHANGED <<y8, y11>>
        /\ \A t \in T!Timers :
              /\ y7[h].copy[t] = 0 /\ t \in UserTimers => y1'[t] = y1[t]
              /\ y7[h].copy[t] = 0 /\ t \notin UserTimers => y1'[t] = T!Absent
        /\ Moves(h, "persists", <<>>, FALSE, FALSE)
    BY <1>0, <1>13, MergeEffect
  <2>2. y7'[T!Scheduler] = y7[T!Scheduler]
    BY <1>0, <2>1 DEF Moves
  <2>3. T!TopicsUnderWay
    BY <2>1 DEF T!TopicsUnderWay
  <2>4. \A t \in T!Timers \ Repeats : y11[t] # 0 /\ y1[t] = T!Absent => y7[h].copy[t] = 0
    BY <2>1, <2>3 DEF NotBack, T!PastIsGone, T!Gone
  <2>5. \A t \in T!Timers \ Repeats : y11[t] # 0 /\ y1[t] = T!Absent => y1'[t] = T!Absent
    BY <2>1, <2>4
  <2>6. QED
    BY <2>1, <2>2, <2>5, FiredQuiet
<1>14. CASE T!Restart
  <2>1. /\ y1' = y2 /\ y8' = {} /\ y11' = y11
        /\ (y2 # y1 \/ y7[T!Scheduler].delivered) => "crashed" \in y13'
    BY <1>0, <1>14, RestartEffect
  <2>2. y1' = y1 /\ ~y7[T!Scheduler].delivered
    BY <2>1, NoAccident
  <2>3. QED
    BY <2>1, <2>2, FiredQuiet
<1>15. ASSUME NEW x \in T!Actors, T!Change(x) \/ T!Saved(x) PROVE T!FiredOnce'
  <2>1. /\ y7[x].pc \in {"idle", "saves"} /\ UNCHANGED <<y8, y11>>
        /\ y1' = y1 \/ "raced" \in y13'
        /\ Moves(x, "idle", <<>>, FALSE, FALSE) \/ Moves(x, "saves", y1, FALSE, FALSE)
    BY <1>0, <1>15, SavesEffect
  <2>2. y1' = y1 /\ y7[x].pc \notin T!Timers
    BY <1>01, <2>1, NoAccident
  <2>3. QED
    BY <2>1, <2>2, FiredMove
<1>16. QED
  BY <1>1, <1>2, <1>3, <1>4, <1>5, <1>6, <1>7, <1>8, <1>9, <1>10, <1>11, <1>12, <1>13, <1>14, <1>15, TimerSteps

LEMMA StepKeepsTimers ==
  ASSUME T!TimersIInv, [TimersNext]_T!vars
  PROVE  T!TimersIInv'
<1>0. /\ TypesInv /\ T!OneAtATime /\ T!FileFollows /\ T!CoreFollows /\ T!UserTimersStay
      /\ y13 = {} => NotBack /\ T!FiredOnce
  BY TypeParts DEF T!TimersIInv, T!EndedInv, NotBack
<1>1. CASE T!Next
  <2>1. TypesInv'
    BY <1>0, <1>1, TypesStep
  <2>2. T!TypeOK' /\ T!AllKnown'
    BY <2>1 DEF T!TypeOK, T!AllKnown, T!HasTimers, T!HasSpecs, T!Known, T!Usable, ThreadsOK, DataOK, ThreadsKnown,
                DataKnown, KnownIn, TypesInv
  <2>3. T!OneAtATime' /\ T!FileFollows' /\ T!CoreFollows' /\ T!UserTimersStay'
    BY <1>0, <1>1, OneAtATimeStep, FileFollowsStep, CoreFollowsStep, UserTimersStep
  <2>4. ASSUME y13' = {} PROVE NotBack' /\ T!FiredOnce'
    <3>1. y13 = {}
      BY <1>0, <1>1, <2>4, MoreAccidents
    <3>2. Calm
      BY <3>1 DEF Calm, T!Without
    <3>3. Smooth
      BY <1>0, <3>1, <3>2, CoreFollowsIs DEF Smooth
    <3>4. QED
      BY <1>0, <1>1, <2>4, <3>1, <3>3, NotBackStep, FiredOnceStep
  <2>5. T!EndedInv'
    BY <2>4 DEF T!EndedInv, NotBack
  <2>6. QED
    BY <2>2, <2>3, <2>5 DEF T!TimersIInv
<1>2. CASE UNCHANGED T!vars
  <2>1. UNCHANGED <<y1, y2, y3, y4, y5, y6, y7, y8, y9, y10, y11, y12, y13>>
    BY <1>2 DEF T!vars
  <2>2. T!TypeOK' /\ T!AllKnown'
    BY <2>1 DEF T!TimersIInv, T!TypeOK, T!AllKnown, T!HasTimers, T!HasSpecs, T!Known, T!Usable
  <2>3. T!OneAtATime' /\ T!FileFollows' /\ T!UserTimersStay'
    BY <2>1 DEF T!TimersIInv, T!OneAtATime, T!FileFollows, T!UserTimersStay, T!Without
  <2>4. T!CoreFollows'
    BY <2>1 DEF T!TimersIInv, T!CoreFollows, T!Without, T!OneWay, T!LastSyncIsHost, T!LastTopicIsCore,
                T!TopicsKeepTheUsers, T!SameForUser, T!SameTimers, T!SyncsUnderWay, T!TopicsUnderWay
  <2>5. T!EndedInv'
    BY <2>1 DEF T!TimersIInv, T!EndedInv, T!GoneForGood, T!GoneWithTheNext, T!PastIsGone, T!Gone, T!GoneFrom,
                T!FiredOnce, T!EndedIsGone, T!TopicsUnderWay
  <2>6. QED
    BY <2>2, <2>3, <2>4, <2>5 DEF T!TimersIInv
<1>3. QED
  BY <1>1, <1>2 DEF TimersNext

LEMMA InitEstablishesTimers ==
  ASSUME T!Init
  PROVE  T!TimersIInv
<1>1. /\ y10 \subseteq T!Timers \ Unusable /\ y2 = y1 /\ y3 = T!Specs(y1) /\ y4 = FALSE /\ y5 = <<>> /\ y6 = <<>>
      /\ y7 = [x \in T!Actors |-> T!Idle] /\ y8 = {} /\ y9 = 0
      /\ y11 = [t \in T!Timers |-> 0] /\ y12 = {} /\ y13 = {}
  BY DEF T!Init
<1>2. y1 = [t \in T!Timers |-> IF t \in y10 THEN T!New ELSE T!Absent]
  BY DEF T!Init
<1>3. y1 \in T!TimersType
  BY <1>2, TimerValues DEF T!TimersType
<1>4. \A t \in T!Timers : y1[t] # T!Absent <=> t \in y10
  BY <1>2, TimerValues
<1>5. \A x \in T!Actors : /\ y7[x].pc = "idle" /\ y7[x].syncs = FALSE /\ y7[x].delivered = FALSE
                          /\ y7[x] = T!Shape(y7[x])
  BY <1>1, TimerValues
<1>6. /\ KnownIn(T!Specs(y1), y10 \ Unusable) /\ KnownIn(T!Specs(y1), y10)
      /\ T!Specs(y1) \in T!SpecsType
  BY <1>1, <1>3, <1>4, KnownTimers, Prompts
<1>7. ThreadsOK /\ ThreadsKnown
  <2>1. y7 = [x \in T!Actors |-> T!Shape(y7[x])]
    BY <1>1, <1>5
  <2>2. QED
    BY <1>5, <2>1 DEF ThreadsOK, ThreadsKnown, T!Pcs
<1>8. <<>> \in Seq(T!SpecsType) /\ DOMAIN <<>> = {}
  OBVIOUS
<1>9. y11 \in [T!Timers -> Nat] /\ \A t \in T!Timers : y11[t] = 0
  BY <1>1
<1>10. DataOK /\ DataKnown
  BY <1>1, <1>3, <1>6, <1>8, <1>9 DEF DataOK, DataKnown
<1>11. T!TypeOK /\ T!AllKnown
  BY <1>7, <1>10, TypeParts DEF TypesInv
<1>12. T!OneAtATime /\ T!FileFollows
  BY <1>1, <1>5 DEF T!OneAtATime, T!FileFollows
<1>13. ~T!SyncsUnderWay /\ ~T!TopicsUnderWay
  BY <1>1, <1>5, ActorsApart DEF T!SyncsUnderWay, T!TopicsUnderWay
<1>14. T!CoreFollows
  BY <1>1, <1>5, <1>13, ActorsApart
     DEF T!CoreFollows, T!OneWay, T!LastSyncIsHost, T!LastTopicIsCore, T!TopicsKeepTheUsers,
         T!SameTimers, T!Specs
<1>15. T!UserTimersStay
  BY <1>4, ActorsApart DEF T!UserTimersStay
<1>16. NotBack
  BY <1>1, <1>5, <1>8, <1>13, ActorsApart
     DEF NotBack, T!GoneForGood, T!GoneWithTheNext, T!PastIsGone, T!Gone, T!EndedIsGone
<1>17. T!FiredOnce
  <2>1. \A t \in T!Timers \ Repeats : y11[t] <= 1
    BY <1>9
  <2>2. QED
    BY <1>1, <1>9, <2>1 DEF T!FiredOnce
<1>18. QED
  BY <1>11, <1>12, <1>14, <1>15, <1>16, <1>17 DEF T!TimersIInv, T!EndedInv, NotBack

LEMMA TimersAsClaimed == T!TimersIInv => T!TimersInv
<1>. SUFFICES ASSUME T!TimersIInv PROVE T!TimersInv
  OBVIOUS
<1>1. T!ReplicasAgree
  <2>1. SUFFICES ASSUME T!AtRest, T!Without({"raced", "unsaved"})
                 PROVE  /\ y2 = y1
                        /\ T!Without({"crossed", "defied"}) => T!SameTimers(y3)
    BY DEF T!ReplicasAgree
  <2>2. \A x \in T!Actors : y7[x].pc = "idle"
    BY <2>1, TimerValues DEF T!AtRest
  <2>3. y2 = y1
    BY <2>1, <2>2 DEF T!TimersIInv, T!FileFollows
  <2>4. ASSUME T!Without({"crossed", "defied"}) PROVE T!SameTimers(y3)
    <3>1. Calm
      BY <2>1, <2>4 DEF Calm, T!Without
    <3>2. QED
      BY <2>1, <3>1, CoreFollowsIs DEF T!TimersIInv, T!AtRest, InStep
  <2>5. QED
    BY <2>3, <2>4
<1>2. T!EndedStaysEnded
  BY DEF T!TimersIInv, T!EndedInv, T!FiredOnce, T!EndedIsGone, T!EndedStaysEnded
<1>3. QED
  BY <1>1, <1>2 DEF T!TimersInv, T!TimersIInv

LEMMA TimersSteps ==
  (hostPart = "timers" => T!TimersIInv) /\ [HostPartsNext]_<<hostPart, laneVars, HostFrom1>>
  => (hostPart = "timers" => T!TimersIInv)'
<1>. SUFFICES ASSUME hostPart = "timers" => T!TimersIInv,
                     [HostPartsNext]_<<hostPart, laneVars, HostFrom1>>, hostPart' = "timers"
              PROVE  T!TimersIInv'
  OBVIOUS
<1>1. hostPart = "timers" /\ [TimersNext]_T!vars
  BY DEF HostPartsNext, HostFrom1, HostFrom14, T!vars
<1>2. QED
  BY <1>1, StepKeepsTimers

(***************************************************************************)
(* For any timers, handlers of events and bounds on what happens: when     *)
(* nothing is under way Host, Core and timers.json have the same timers,   *)
(* but for those of Core whose time the Host cannot read, unless something *)
(* crossed, raced or failed (a put-back of the Session that undoes a       *)
(* change of them is a race); a timer that was deleted or has fired does   *)
(* not come back, and fires once; and a timer of the user stays until      *)
(* then, though Core told its timers before it knew that one               *)
(* (sync_worker_timers, merge_session_timers_from_core, fire_due_timers,   *)
(* replace_timers).                                                        *)
(***************************************************************************)
THEOREM TimersComeAndGo == HostPartsSpec => []TimersInv
<1>1. HostPartsInit => (hostPart = "timers" => T!TimersIInv)
  BY InitEstablishesTimers DEF HostPartsInit
<1>2. (hostPart = "timers" => T!TimersIInv) => TimersInv
  BY TimersAsClaimed DEF TimersInv
<1>3. QED
  BY <1>1, <1>2, TimersSteps, PTL DEF HostPartsSpec
=============================================================================
