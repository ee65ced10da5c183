--------------------------- MODULE HostSessionFacts ---------------------------
(***************************************************************************)
(* What the proofs about HostSession rest on, for any commands, timers and *)
(* bounds: the types, that accepted supplements are kept, and that the     *)
(* history only grows.                                                     *)
(***************************************************************************)
EXTENDS HostSession, SequenceTheorems, FiniteSetTheorems, WellFoundedInduction, TLAPS

(* What RemoveAt leaves of a sequence. *)
LEMMA RemoveAtProperties ==
    ASSUME NEW S, NEW s \in Seq(S), NEW k \in DOMAIN s
    PROVE  /\ RemoveAt(s, k) \in Seq(S)
           /\ Len(RemoveAt(s, k)) = Len(s) - 1
           /\ \A i \in 1 .. Len(s) - 1 :
                RemoveAt(s, k)[i] = IF i < k THEN s[i] ELSE s[i+1]
<1> DEFINE a == SubSeq(s, 1, k-1)
           b == SubSeq(s, k+1, Len(s))
<1>0. k \in 1 .. Len(s) /\ Len(s) \in Nat
  BY LenProperties
<1>1. a \in Seq(S) /\ Len(a) = k - 1 /\ \A i \in 1 .. k-1 : a[i] = s[i]
  BY <1>0, SubSeqProperties, ElementOfSeq, \A i \in 1 .. k-1 : s[i] \in S
<1>2. b \in Seq(S) /\ Len(b) = Len(s) - k /\ \A i \in 1 .. Len(s)-k : b[i] = s[k+i]
  <2>1. \A i \in k+1 .. Len(s) : s[i] \in S
    BY <1>0, ElementOfSeq
  <2>2. /\ b \in Seq(S)
        /\ Len(b) = IF k+1 <= Len(s) THEN Len(s)-(k+1)+1 ELSE 0
        /\ \A i \in 1 .. Len(s)-(k+1)+1 : b[i] = s[(k+1)+i-1]
    BY <1>0, <2>1, SubSeqProperties, k+1 \in Int, Len(s) \in Int
  <2> QED BY <2>2, <1>0
<1>3. RemoveAt(s, k) = a \o b
  BY DEF RemoveAt
<1> HIDE DEF a, b
<1>4. /\ a \o b \in Seq(S)
      /\ Len(a \o b) = Len(a) + Len(b)
      /\ \A i \in 1 .. Len(a) + Len(b) :
            (a \o b)[i] = IF i <= Len(a) THEN a[i] ELSE b[i - Len(a)]
  BY <1>1, <1>2, ConcatProperties
<1>5. Len(a \o b) = Len(s) - 1
  BY <1>0, <1>1, <1>2, <1>4
<1>6. ASSUME NEW i \in 1 .. Len(s) - 1
      PROVE  (a \o b)[i] = IF i < k THEN s[i] ELSE s[i+1]
  <2>1. CASE i < k
    <3>1. i \in 1 .. Len(a) + Len(b) /\ i <= Len(a) /\ i \in 1 .. k-1
      BY <2>1, <1>0, <1>1, <1>2
    <3> QED BY <3>1, <2>1, <1>1, <1>4
  <2>2. CASE ~(i < k)
    <3>0. i \in 1 .. Len(a) + Len(b) /\ ~(i <= Len(a))
      BY <2>2, <1>0, <1>1, <1>2
    <3>1. (a \o b)[i] = b[i - (k-1)]
      BY <3>0, <1>1, <1>4
    <3>2. i - (k-1) \in 1 .. Len(s)-k /\ k + (i - (k-1)) = i + 1
      BY <2>2, <1>0
    <3> QED BY <3>1, <3>2, <1>2, <2>2
  <2> QED BY <2>1, <2>2
<1> QED BY <1>3, <1>4, <1>5, <1>6

-----------------------------------------------------------------------------
(* Types. *)

HandoffSteps == {"resubmit", "handoff", "save_handoff", "send_handoff"}
HandlerSteps == {"dispatch", "send_queued"} \cup HandoffSteps
TaskSteps ==
  {"idle", "start", "save_turn", "ask", "send", "resolve", "enqueue", "save_queue",
   "dispatch", "send_queued"}
Steps ==
  TaskSteps \cup HandlerSteps \cup
  {"note", "save_note", "append", "save_entry", "settle", "now", "append_now", "save_now",
   "save_stop", "stop"}
CarryingSteps ==
  {"save_turn", "ask", "send", "resolve", "save_handoff", "send_handoff", "save_now", "send_queued"}
SavingSteps ==
  {"save_turn", "save_note", "save_queue", "save_entry", "save_stop", "save_handoff"}

StepsOf(p) ==
  CASE p = "bridge" -> HandlerSteps \cup {"idle"} [] p = "lane" -> Steps [] OTHER -> TaskSteps

ThreadType ==
  [at : Steps, cmd : Names \cup {NoCommand}, turn : MaybeTurn, ids : SUBSET Names,
   asks : BOOLEAN, image : SessionType, left : SessionType, back : {"idle", "settle"}]

(* The steps at which a thread has a command of its own to bring on. *)
Says(p, r) ==
  \/ r.at \in {"start", "enqueue", "append", "settle"} \/ r.back = "settle"
  \/ p = "task" /\ r.at \in {"save_turn", "send"}

Reserved(s) ==
  s.dispatching # NoTurn => \E i \in DOMAIN s.queue : s.queue[i].turn = s.dispatching

ThreadOK(p, r) ==
  /\ r.at \in StepsOf(p)
  /\ Reserved(r.image)
  /\ r.at \in CarryingSteps => r.turn # NoTurn
  /\ r.back = "settle" => p = "lane" /\ r.at \in HandlerSteps \cup {"settle"}
  /\ p = "lane" /\ r.at \in HandoffSteps \cup {"settle"} => r.back = "settle"
  /\ Says(p, r) => r.cmd # NoCommand

Hows == {"none", "cut"} \cup Outcomes
EventType ==
  [kind : {"started", "projected", "unconsumed", "finished"}, turn : Turns,
   ids : SUBSET Names, how : Hows]

HistType ==
  [made : 0 .. MaxTurns, sent : SUBSET Names, faults : Nat, stops : Nat, elder : Handlers,
   overtaken : BOOLEAN, undone : BOOLEAN, hurried : BOOLEAN, stranded : SUBSET Turns,
   accepted : SUBSET Names, reached : SUBSET Names, misplaced : SUBSET Turns, last : Hows]

CoreType ==
  [queue : Seq(SubmissionType), run : SubmissionType, open : BOOLEAN,
   closing : {"no", "cut"} \cup Outcomes, mail : SUBSET Names, known : SUBSET Names]

CoreOK ==
  /\ core \in CoreType
  /\ core.run # NoRun => core.run.turn # NoTurn
  /\ \A i \in DOMAIN core.queue : core.queue[i].turn # NoTurn
  /\ core.closing # "no" => core.run # NoRun

SessionOK == session \in SessionType /\ Reserved(session)
EventsOK == channel \in Seq(EventType) /\ hand \in [Handlers -> Seq(EventType)]
ThreadsOK == pc \in [Threads -> ThreadType] /\ \A p \in Threads : ThreadOK(p, pc[p])

Types == SessionOK /\ CoreOK /\ EventsOK /\ ThreadsOK /\ hist \in HistType

-----------------------------------------------------------------------------
(* What the steps of a thread leave of it. *)

(* No other thread moves. *)
Alone(p) == \A q \in Threads : q # p => pc'[q] = pc[q]

LEMMA BecomeEffect ==
    ASSUME pc \in [Threads -> ThreadType], NEW p \in Threads, NEW r \in ThreadType, Become(p, r)
    PROVE  pc' \in [Threads -> ThreadType] /\ Alone(p) /\ pc'[p] = r
BY DEF Become, Alone

LEMMA GoEffect ==
    ASSUME pc \in [Threads -> ThreadType], NEW p \in Threads, NEW x \in Steps, Go(p, x)
    PROVE  /\ pc' \in [Threads -> ThreadType] /\ Alone(p)
           /\ pc'[p].at = x /\ pc'[p].cmd = pc[p].cmd /\ pc'[p].turn = pc[p].turn
           /\ pc'[p].ids = pc[p].ids /\ pc'[p].back = pc[p].back
           /\ pc'[p].image = pc[p].image /\ pc'[p].left = pc[p].left
BY DEF Go, Become, Alone, ThreadType

LEMMA CarryEffect ==
    ASSUME pc \in [Threads -> ThreadType], NEW p \in Threads, NEW x \in Steps,
           NEW t \in MaybeTurn, NEW i \in SUBSET Names, Carry(p, x, t, i)
    PROVE  /\ pc' \in [Threads -> ThreadType] /\ Alone(p)
           /\ pc'[p].at = x /\ pc'[p].cmd = pc[p].cmd /\ pc'[p].turn = t
           /\ pc'[p].ids = i /\ pc'[p].back = pc[p].back
           /\ pc'[p].image = pc[p].image /\ pc'[p].left = pc[p].left
BY DEF Carry, Become, Alone, ThreadType

LEMMA SaveEffect ==
    ASSUME pc \in [Threads -> ThreadType], NEW p \in Threads, NEW x \in Steps,
           NEW t \in MaybeTurn, NEW i \in SUBSET Names,
           session \in SessionType, session' \in SessionType, Save(p, x, t, i)
    PROVE  /\ pc' \in [Threads -> ThreadType] /\ Alone(p)
           /\ pc'[p].at = x /\ pc'[p].cmd = pc[p].cmd /\ pc'[p].turn = t
           /\ pc'[p].ids = i /\ pc'[p].back = pc[p].back
           /\ pc'[p].image = session /\ pc'[p].left = session'
BY ZenonT(60) DEF Save, Become, Alone, ThreadType

LEMMA NoImageType == NoImage \in SessionType /\ NoImage.dispatching = NoTurn
<1> [t \in Turns |-> "none"] \in [Turns -> {"none", "pending", "working", "done"}]
  OBVIOUS
<1> [t \in Turns |-> {}] \in [Turns -> SUBSET Names]
  OBVIOUS
<1> <<>> \in Seq([id : Names, turn : Turns, afterStop : BOOLEAN])
  OBVIOUS
<1> QED BY DEF NoImage, NewSession, SessionType, MaybeTurn

LEMMA RestingType ==
    ASSUME NEW back \in {"idle", "settle"}, NEW cmd \in Names \cup {NoCommand}
    PROVE  Resting(back, cmd) \in ThreadType
BY NoImageType DEF Resting, ThreadType, Steps, TaskSteps, MaybeTurn

LEMMA RestEffect ==
    ASSUME pc \in [Threads -> ThreadType], NEW p \in Threads, NEW back \in {"idle", "settle"},
           NEW cmd \in Names \cup {NoCommand}, Become(p, Resting(back, cmd))
    PROVE  /\ pc' \in [Threads -> ThreadType] /\ Alone(p)
           /\ pc'[p].at = back /\ pc'[p].cmd = cmd /\ pc'[p].turn = NoTurn
           /\ pc'[p].ids = {} /\ pc'[p].back = back
           /\ pc'[p].image = NoImage /\ pc'[p].left = NoImage
<1>1. pc' \in [Threads -> ThreadType] /\ Alone(p) /\ pc'[p] = Resting(back, cmd)
  BY BecomeEffect, RestingType
<1> QED BY <1>1 DEF Resting

LEMMA EndEffect ==
    ASSUME pc \in [Threads -> ThreadType], NEW p \in Threads, End(p)
    PROVE  /\ pc' \in [Threads -> ThreadType] /\ Alone(p)
           /\ pc'[p].at = "idle" /\ pc'[p].cmd = NoCommand /\ pc'[p].turn = NoTurn
           /\ pc'[p].ids = {} /\ pc'[p].back = "idle"
           /\ pc'[p].image = NoImage /\ pc'[p].left = NoImage
BY RestEffect DEF End

LEMMA ReturnEffect ==
    ASSUME pc \in [Threads -> ThreadType], NEW p \in Threads, Return(p)
    PROVE  /\ pc' \in [Threads -> ThreadType] /\ Alone(p)
           /\ pc'[p].at = pc[p].back /\ pc'[p].turn = NoTurn
           /\ pc'[p].cmd = IF pc[p].back = "settle" THEN pc[p].cmd ELSE NoCommand
           /\ pc'[p].ids = {} /\ pc'[p].back = pc[p].back
           /\ pc'[p].image = NoImage /\ pc'[p].left = NoImage
<1>1. pc[p].back \in {"idle", "settle"} /\ pc[p].cmd \in Names \cup {NoCommand}
  BY DEF ThreadType
<1> QED BY <1>1, RestEffect DEF Return

LEMMA BeginEffect ==
    ASSUME pc \in [Threads -> ThreadType], session \in SessionType, NEW p \in Threads,
           NEW x \in Steps, NEW cmd \in Names \cup {NoCommand}, Begin(p, x, cmd)
    PROVE  /\ pc' \in [Threads -> ThreadType] /\ Alone(p)
           /\ pc'[p].at = x /\ pc'[p].cmd = cmd /\ pc'[p].turn = NoTurn
           /\ pc'[p].ids = {} /\ pc'[p].back = "idle"
           /\ pc'[p].image = NoImage /\ pc'[p].left = NoImage
<1> DEFINE r == [Resting("idle", cmd) EXCEPT !.at = x, !.asks = session.ask]
<1>1. Resting("idle", cmd) \in ThreadType
  BY RestingType
<1>2. session.ask \in BOOLEAN
  BY DEF SessionType
<1>3. r \in ThreadType /\ r.at = x /\ r.cmd = Resting("idle", cmd).cmd
      /\ r.turn = Resting("idle", cmd).turn /\ r.ids = Resting("idle", cmd).ids
      /\ r.back = Resting("idle", cmd).back /\ r.image = Resting("idle", cmd).image
      /\ r.left = Resting("idle", cmd).left
  BY <1>1, <1>2 DEF ThreadType
<1>4. pc' \in [Threads -> ThreadType] /\ Alone(p) /\ pc'[p] = r
  BY <1>3, BecomeEffect DEF Begin
<1> HIDE DEF r
<1> QED BY <1>3, <1>4 DEF Resting

-----------------------------------------------------------------------------
(* What the operations on a session's record do to it. *)

(* Everything but the turn that is there and the list of turns. *)
SameQueue(r, s) ==
  r.unconsumed = s.unconsumed /\ r.queue = s.queue /\ r.dispatching = s.dispatching

Statuses == {"none", "pending", "working", "done"}
Item == [id : Names, turn : Turns, afterStop : BOOLEAN]

LEMMA NewTurnEffect ==
    ASSUME NEW s \in SessionType, NEW t \in Turns, NEW ids \in SUBSET Names
    PROVE  LET r == NewTurn(s, t, ids)
           IN  /\ r \in SessionType /\ SameQueue(r, s)
               /\ r.pending = t /\ r.active = s.active /\ r.cancelling = s.cancelling
               /\ r.asking = s.asking /\ r.askedFor = s.askedFor
               /\ r.turns = [s.turns EXCEPT ![t] = "pending"]
               /\ r.entries = [s.entries EXCEPT ![t] = ids]
BY DEF NewTurn, SessionType, SameQueue, MaybeTurn

LEMMA RecordedEffect ==
    ASSUME NEW s \in SessionType, NEW ids \in SUBSET Names
    PROVE  LET r == Recorded(s, ids)
           IN  /\ r \in SessionType /\ SameQueue(r, s)
               /\ r.pending = s.pending /\ r.active = s.active /\ r.cancelling = s.cancelling
               /\ r.asking = s.asking /\ r.askedFor = s.askedFor /\ r.turns = s.turns
               /\ r.entries = [s.entries EXCEPT ![Current(s)] = @ \cup ids]
BY DEF Recorded, SessionType, SameQueue

LEMMA RolledBackEffect ==
    ASSUME NEW s \in SessionType, NEW t
    PROVE  LET r == RolledBack(s, t)
           IN  /\ r \in SessionType /\ SameQueue(r, s)
               /\ r.pending = IF s.pending = t THEN NoTurn ELSE s.pending
               /\ r.active = IF s.active = t THEN NoTurn ELSE s.active
               /\ r.cancelling = IF s.cancelling = t THEN NoTurn ELSE s.cancelling
               /\ r.asking = s.asking /\ r.askedFor = s.askedFor
               /\ r.turns = [s.turns EXCEPT ![t] = "none"] /\ r.entries = s.entries
BY ZenonT(60) DEF RolledBack, SessionType, SameQueue, MaybeTurn, NoTurn

LEMMA AbandonedEffect ==
    ASSUME NEW s \in SessionType
    PROVE  LET r == Abandoned(s)
           IN  /\ r \in SessionType /\ SameQueue(r, s)
               /\ r.pending = NoTurn /\ r.active = NoTurn /\ r.cancelling = NoTurn
               /\ r.asking = NoTurn /\ r.askedFor = {}
               /\ r.turns = [s.turns EXCEPT ![s.pending] = "done"] /\ r.entries = s.entries
BY DEF Abandoned, SessionType, SameQueue, MaybeTurn, NoTurn

LEMMA CancelledEffect ==
    ASSUME NEW s \in SessionType
    PROVE  LET r == Cancelled(s)
           IN  /\ r \in SessionType /\ SameQueue(r, s)
               /\ r.pending = s.pending /\ r.active = s.active /\ r.cancelling = Current(s)
               /\ r.asking = s.asking /\ r.askedFor = s.askedFor
               /\ r.turns = [s.turns EXCEPT ![Current(s)] = "done"] /\ r.entries = s.entries
BY DEF Cancelled, Current, SessionType, SameQueue, MaybeTurn, NoTurn

LEMMA FinishedEffect ==
    ASSUME NEW s \in SessionType
    PROVE  LET r == Finished(s)
           IN  /\ r \in SessionType /\ SameQueue(r, s)
               /\ r.pending = NoTurn /\ r.active = NoTurn /\ r.cancelling = NoTurn
               /\ r.asking = s.asking /\ r.askedFor = s.askedFor
               /\ r.turns = (IF s.active = NoTurn THEN s.turns ELSE [s.turns EXCEPT ![s.active] = "done"])
               /\ r.entries = s.entries
BY DEF Finished, SessionType, SameQueue, MaybeTurn, NoTurn

LEMMA RetainedEffect ==
    ASSUME NEW s \in SessionType, NEW ids \in SUBSET Names
    PROVE  LET r == Retained(s, ids)
           IN  /\ r \in SessionType /\ r.queue = s.queue /\ r.dispatching = s.dispatching
               /\ r.unconsumed = s.unconsumed \cup ids
               /\ r.pending = s.pending /\ r.active = s.active /\ r.cancelling = s.cancelling
               /\ r.asking = s.asking /\ r.askedFor = s.askedFor
               /\ r.turns = s.turns /\ r.entries = s.entries
BY DEF Retained, SessionType

LEMMA DispatchingEffect ==
    ASSUME NEW s \in SessionType, NEW item \in Item
    PROVE  LET r == Dispatching(s, item)
           IN  /\ r \in SessionType /\ r.queue = s.queue /\ r.unconsumed = s.unconsumed
               /\ r.dispatching = item.turn /\ r.pending = item.turn
               /\ r.active = s.active /\ r.cancelling = s.cancelling
               /\ r.asking = s.asking /\ r.askedFor = s.askedFor
               /\ r.turns = s.turns /\ r.entries = s.entries /\ r.next = s.next
BY DEF Dispatching, SessionType, Item, MaybeTurn

LEMMA DispatchRejectedEffect ==
    ASSUME NEW s \in SessionType, NEW t
    PROVE  LET r == DispatchRejected(s, t)
           IN  /\ r \in SessionType /\ r.queue = s.queue /\ r.unconsumed = s.unconsumed
               /\ r.dispatching = IF s.dispatching = t THEN NoTurn ELSE s.dispatching
               /\ r.pending = IF s.pending = t THEN NoTurn ELSE s.pending
               /\ r.active = s.active /\ r.cancelling = s.cancelling
               /\ r.asking = s.asking /\ r.askedFor = s.askedFor
               /\ r.turns = s.turns /\ r.entries = s.entries
BY ZenonT(60) DEF DispatchRejected, SessionType, MaybeTurn, NoTurn

LEMMA CurrentType ==
    ASSUME NEW s \in SessionType
    PROVE  Current(s) \in MaybeTurn
BY DEF Current, SessionType

(* The place of a message, and what is left of the queue without it. *)
LEMMA PlaceOfQueued ==
    ASSUME NEW s, NEW ids, IsQueued(s, ids)
    PROVE  Place(s, ids) \in DOMAIN s.queue /\ s.queue[Place(s, ids)].id \in ids
BY DEF IsQueued, Place

LEMMA UnqueuedEffect ==
    ASSUME NEW s \in SessionType, NEW ids, IsQueued(s, ids)
    PROVE  LET r == Unqueued(s, ids)
           IN  /\ r \in SessionType /\ r.dispatching = s.dispatching /\ r.unconsumed = s.unconsumed
               /\ r.pending = s.pending /\ r.active = s.active /\ r.cancelling = s.cancelling
               /\ r.asking = s.asking /\ r.askedFor = s.askedFor
               /\ r.turns = s.turns /\ r.entries = s.entries
               /\ r.queue = RemoveAt(s.queue, Place(s, ids))
<1>1. s.queue \in Seq(Item)
  BY DEF SessionType, Item
<1>2. RemoveAt(s.queue, Place(s, ids)) \in Seq(Item)
  BY <1>1, PlaceOfQueued, RemoveAtProperties
<1> DEFINE q == RemoveAt(s.queue, Place(s, ids))
<1> HIDE DEF q
<1>3. q \in Seq([id : Names, turn : Turns, afterStop : BOOLEAN])
  BY <1>2 DEF q, Item
<1>4. Unqueued(s, ids) = [s EXCEPT !.queue = q]
  BY DEF q, Unqueued
<1>5. /\ [s EXCEPT !.queue = q] \in SessionType /\ [s EXCEPT !.queue = q].dispatching = s.dispatching
      /\ [s EXCEPT !.queue = q].unconsumed = s.unconsumed
      /\ [s EXCEPT !.queue = q].pending = s.pending /\ [s EXCEPT !.queue = q].active = s.active
      /\ [s EXCEPT !.queue = q].cancelling = s.cancelling
      /\ [s EXCEPT !.queue = q].asking = s.asking /\ [s EXCEPT !.queue = q].askedFor = s.askedFor
      /\ [s EXCEPT !.queue = q].turns = s.turns /\ [s EXCEPT !.queue = q].entries = s.entries
      /\ [s EXCEPT !.queue = q].queue = q
  BY <1>3 DEF SessionType
<1> QED BY <1>4, <1>5 DEF q

(* What is left are the other messages, in their order. *)
LEMMA UnqueuedItems ==
    ASSUME NEW s \in SessionType, NEW ids, IsQueued(s, ids)
    PROVE  LET q == RemoveAt(s.queue, Place(s, ids))
               k == Place(s, ids)
           IN  /\ \A j \in DOMAIN s.queue : j # k => \E i \in DOMAIN q : q[i] = s.queue[j]
               /\ \A i \in DOMAIN q : \E j \in DOMAIN s.queue : j # k /\ q[i] = s.queue[j]
               /\ \A i, j \in DOMAIN q : i # j =>
                    \E m, n \in DOMAIN s.queue : m # n /\ q[i] = s.queue[m] /\ q[j] = s.queue[n]
<1> DEFINE q == RemoveAt(s.queue, Place(s, ids))
           k == Place(s, ids)
           old(i) == IF i < k THEN i ELSE i + 1
<1>1. s.queue \in Seq(Item) /\ k \in DOMAIN s.queue
  BY PlaceOfQueued DEF SessionType, Item
<1>2. /\ q \in Seq(Item) /\ Len(q) = Len(s.queue) - 1
      /\ \A i \in 1 .. Len(s.queue) - 1 : q[i] = IF i < k THEN s.queue[i] ELSE s.queue[i+1]
  BY <1>1, RemoveAtProperties
<1>3. k \in 1 .. Len(s.queue) /\ Len(s.queue) \in Nat /\ DOMAIN s.queue = 1 .. Len(s.queue)
  BY <1>1
<1> HIDE DEF q, k
<1>4. DOMAIN q = 1 .. Len(s.queue) - 1
  BY <1>2, <1>3
<1>5. \A i \in DOMAIN q : old(i) \in DOMAIN s.queue /\ old(i) # k /\ q[i] = s.queue[old(i)]
  BY <1>2, <1>3, <1>4
<1>6. \A i, j \in DOMAIN q : i # j => old(i) # old(j)
  BY <1>3, <1>4
<1>7. ASSUME NEW j \in DOMAIN s.queue, j # k
      PROVE  \E i \in DOMAIN q : q[i] = s.queue[j]
  <2>1. CASE j < k
    <3>1. j \in DOMAIN q /\ q[j] = s.queue[j]
      BY <1>2, <1>3, <1>4, <2>1
    <3> QED BY <3>1
  <2>2. CASE ~(j < k)
    <3>1. j - 1 \in DOMAIN q /\ ~(j - 1 < k) /\ (j - 1) + 1 = j
      BY <1>3, <1>4, <1>7, <2>2
    <3>2. q[j - 1] = s.queue[j]
      BY <1>2, <1>4, <3>1
    <3> QED BY <3>1, <3>2
  <2> QED BY <2>1, <2>2
<1> HIDE DEF old
<1> QED BY <1>5, <1>6, <1>7 DEF q, k

-----------------------------------------------------------------------------
(* The types are kept by every step. *)

LEMMA ThreadsApart ==
    /\ "bridge" \in Threads /\ "lane" \in Threads /\ "task" \in Threads
    /\ \A p \in Threads : p \in {"bridge", "lane", "task"}
    /\ Handlers \subseteq Threads
BY DEF Threads, Handlers

LEMMA ThreadsKept ==
    ASSUME ThreadsOK, NEW p \in Threads, pc' \in [Threads -> ThreadType], Alone(p),
           ThreadOK(p, pc'[p])
    PROVE  ThreadsOK'
<1>1. ASSUME NEW q \in Threads PROVE ThreadOK(q, pc'[q])
  <2>1. CASE q = p  BY <2>1
  <2>2. CASE q # p  BY <2>2 DEF ThreadsOK, Alone
  <2> QED BY <2>1, <2>2
<1> QED BY <1>1 DEF ThreadsOK

LEMMA EndOK ==
    ASSUME ThreadsOK, NEW p \in Threads, End(p)
    PROVE  ThreadsOK'
<1>1. pc \in [Threads -> ThreadType]
  BY DEF ThreadsOK
<1>2. /\ pc' \in [Threads -> ThreadType] /\ Alone(p)
      /\ pc'[p].at = "idle" /\ pc'[p].back = "idle" /\ pc'[p].image = NoImage
  BY <1>1, EndEffect
<1>3. ThreadOK(p, pc'[p])
  BY <1>2, NoImageType
     DEF ThreadOK, Reserved, StepsOf, Steps, HandlerSteps, HandoffSteps, TaskSteps, CarryingSteps, Says
<1> QED BY <1>2, <1>3, ThreadsKept

LEMMA ReturnOK ==
    ASSUME ThreadsOK, NEW p \in Threads, Return(p)
    PROVE  ThreadsOK'
<1>1. pc \in [Threads -> ThreadType] /\ ThreadOK(p, pc[p]) /\ pc[p].back \in {"idle", "settle"}
  BY DEF ThreadsOK, ThreadType
<1>2. /\ pc' \in [Threads -> ThreadType] /\ Alone(p)
      /\ pc'[p].at = pc[p].back /\ pc'[p].back = pc[p].back /\ pc'[p].image = NoImage
      /\ pc'[p].cmd = IF pc[p].back = "settle" THEN pc[p].cmd ELSE NoCommand
  BY <1>1, ReturnEffect
<1>3. ThreadOK(p, pc'[p])
  BY <1>1, <1>2, NoImageType
     DEF ThreadOK, Reserved, StepsOf, Steps, HandlerSteps, HandoffSteps, TaskSteps, CarryingSteps, Says
<1> QED BY <1>1, <1>2, <1>3, ThreadsKept

LEMMA BeginOK ==
    ASSUME ThreadsOK, session \in SessionType, NEW p \in {"lane", "task"},
           NEW x \in {"start", "enqueue", "append"}, p = "task" => x # "append",
           NEW cmd \in Names, Begin(p, x, cmd)
    PROVE  ThreadsOK'
<1>1. pc \in [Threads -> ThreadType] /\ p \in Threads /\ x \in Steps
  BY ThreadsApart DEF ThreadsOK, Steps, TaskSteps
<1>2. /\ pc' \in [Threads -> ThreadType] /\ Alone(p)
      /\ pc'[p].at = x /\ pc'[p].back = "idle" /\ pc'[p].image = NoImage /\ pc'[p].cmd = cmd
  BY <1>1, BeginEffect
<1>3. cmd # NoCommand
  BY HostAssumption DEF Names
<1>4. ThreadOK(p, pc'[p])
  BY <1>2, <1>3, NoImageType
     DEF ThreadOK, Reserved, StepsOf, Steps, HandlerSteps, HandoffSteps, TaskSteps, CarryingSteps, Says
<1> QED BY <1>1, <1>2, <1>4, ThreadsKept

(* The conditions under which a thread may come to a step with what it has. *)
Fits(p, x, turn) ==
  /\ x \in StepsOf(p)
  /\ x \in CarryingSteps => turn # NoTurn
  /\ pc[p].back = "settle" => x \in HandlerSteps \cup {"settle"}
  /\ p = "lane" /\ x \in HandoffSteps \cup {"settle"} => pc[p].back = "settle"
  /\ x \in {"start", "enqueue", "append", "settle"} \/ (p = "task" /\ x \in {"save_turn", "send"})
       => pc[p].cmd # NoCommand

LEMMA StepsOfSteps == \A p \in Threads : StepsOf(p) \subseteq Steps
BY DEF StepsOf, Steps, HandlerSteps, HandoffSteps, TaskSteps, Threads, Handlers

LEMMA GoOK ==
    ASSUME ThreadsOK, NEW p \in Threads, NEW x, Fits(p, x, pc[p].turn), Go(p, x)
    PROVE  ThreadsOK'
<1>1. pc \in [Threads -> ThreadType] /\ ThreadOK(p, pc[p]) /\ x \in Steps
  BY StepsOfSteps DEF ThreadsOK, Fits
<1>2. /\ pc' \in [Threads -> ThreadType] /\ Alone(p)
      /\ pc'[p].at = x /\ pc'[p].back = pc[p].back /\ pc'[p].image = pc[p].image
      /\ pc'[p].cmd = pc[p].cmd /\ pc'[p].turn = pc[p].turn
  BY <1>1, GoEffect
<1>3. ThreadOK(p, pc'[p])
  BY <1>1, <1>2 DEF ThreadOK, Says, Fits
<1> QED BY <1>1, <1>2, <1>3, ThreadsKept

LEMMA CarryOK ==
    ASSUME ThreadsOK, NEW p \in Threads, NEW x, NEW t \in MaybeTurn, NEW i \in SUBSET Names,
           Fits(p, x, t), Carry(p, x, t, i)
    PROVE  ThreadsOK'
<1>1. pc \in [Threads -> ThreadType] /\ ThreadOK(p, pc[p]) /\ x \in Steps
  BY StepsOfSteps DEF ThreadsOK, Fits
<1>2. /\ pc' \in [Threads -> ThreadType] /\ Alone(p)
      /\ pc'[p].at = x /\ pc'[p].back = pc[p].back /\ pc'[p].image = pc[p].image
      /\ pc'[p].cmd = pc[p].cmd /\ pc'[p].turn = t
  BY <1>1, CarryEffect
<1>3. ThreadOK(p, pc'[p])
  BY <1>1, <1>2 DEF ThreadOK, Says, Fits
<1> QED BY <1>1, <1>2, <1>3, ThreadsKept

LEMMA SaveOK ==
    ASSUME ThreadsOK, SessionOK, session' \in SessionType, NEW p \in Threads, NEW x,
           NEW t \in MaybeTurn, NEW i \in SUBSET Names, Fits(p, x, t), Save(p, x, t, i)
    PROVE  ThreadsOK'
<1>1. pc \in [Threads -> ThreadType] /\ ThreadOK(p, pc[p]) /\ x \in Steps
  BY StepsOfSteps DEF ThreadsOK, Fits
<1>2. /\ pc' \in [Threads -> ThreadType] /\ Alone(p)
      /\ pc'[p].at = x /\ pc'[p].back = pc[p].back /\ pc'[p].image = session
      /\ pc'[p].cmd = pc[p].cmd /\ pc'[p].turn = t
  BY <1>1, SaveEffect DEF SessionOK
<1>3. ThreadOK(p, pc'[p])
  BY <1>1, <1>2 DEF ThreadOK, Says, Fits, SessionOK
<1> QED BY <1>1, <1>2, <1>3, ThreadsKept

LEMMA ThreadFields ==
    ASSUME ThreadsOK, NEW p \in Threads
    PROVE  /\ pc[p].at \in StepsOf(p) /\ pc[p].back \in {"idle", "settle"}
           /\ pc[p].cmd \in Names \cup {NoCommand} /\ pc[p].ids \in SUBSET Names
           /\ pc[p].turn \in MaybeTurn
           /\ pc[p].at \in CarryingSteps => pc[p].turn \in Turns
           /\ pc[p].image \in SessionType /\ pc[p].left \in SessionType /\ Reserved(pc[p].image)
           /\ Says(p, pc[p]) => pc[p].cmd \in Names
           /\ pc[p].back = "settle" => p = "lane" /\ pc[p].at \in HandlerSteps \cup {"settle"}
           /\ p = "lane" /\ pc[p].at \in HandoffSteps \cup {"settle"} => pc[p].back = "settle"
BY DEF ThreadsOK, ThreadOK, ThreadType, MaybeTurn

LEMMA SameQueueOK ==
    ASSUME NEW s, Reserved(s), NEW r, r.queue = s.queue,
           r.dispatching = s.dispatching \/ r.dispatching = NoTurn
    PROVE  Reserved(r)
BY DEF Reserved

LEMMA FreshOK ==
    ASSUME hist \in HistType, CanMake
    PROVE  Fresh \in Turns /\ Made(hist) \in HistType
BY HostAssumption DEF HistType, CanMake, Fresh, Made, Turns

LEMMA HistOK ==
    ASSUME hist \in HistType
    PROVE  /\ Failed(hist) \in HistType
           /\ \A b \in BOOLEAN : [Failed(hist) EXCEPT !.undone = b] \in HistType
           /\ \A t \in Turns : [Failed(hist) EXCEPT !.stranded = @ \cup {t}] \in HistType
           /\ \A c \in Names : [hist EXCEPT !.sent = @ \cup {c}] \in HistType
           /\ \A ids \in SUBSET Names : [hist EXCEPT !.reached = @ \cup ids] \in HistType
           /\ \A ids \in SUBSET Names : [hist EXCEPT !.accepted = @ \cup ids] \in HistType
           /\ \A b \in BOOLEAN : [hist EXCEPT !.hurried = b] \in HistType
<1>1. Failed(hist) \in HistType
  BY DEF HistType, Failed
<1>2. \A h \in HistType : \A b \in BOOLEAN : [h EXCEPT !.undone = b] \in HistType
  BY DEF HistType
<1>3. \A h \in HistType : \A t \in Turns : [h EXCEPT !.stranded = @ \cup {t}] \in HistType
  BY DEF HistType
<1>4. \A c \in Names : [hist EXCEPT !.sent = @ \cup {c}] \in HistType
  BY DEF HistType
<1>5. \A ids \in SUBSET Names : [hist EXCEPT !.reached = @ \cup ids] \in HistType
  BY DEF HistType
<1>6. \A ids \in SUBSET Names : [hist EXCEPT !.accepted = @ \cup ids] \in HistType
  BY DEF HistType
<1>7. \A b \in BOOLEAN : [hist EXCEPT !.hurried = b] \in HistType
  BY DEF HistType
<1> QED BY <1>1, <1>2, <1>3, <1>4, <1>5, <1>6, <1>7

LEMMA PutBackOK ==
    ASSUME Types, NEW p \in Threads, PutBack(p)
    PROVE  SessionOK' /\ hist' \in HistType
<1>1. pc[p].image \in SessionType /\ Reserved(pc[p].image)
  BY ThreadFields DEF Types
<1>2. hist.undone \in BOOLEAN
  BY DEF Types, HistType
<1>3. (hist.undone \/ session # pc[p].left) \in BOOLEAN
  BY <1>2
<1>4. hist' = [Failed(hist) EXCEPT !.undone = hist.undone \/ session # pc[p].left]
  BY DEF PutBack, Failed
<1>5. hist' \in HistType
  BY <1>3, <1>4, HistOK DEF Types
<1> QED BY <1>1, <1>5 DEF PutBack, SessionOK

LEMMA SubmissionOK ==
    ASSUME CoreOK, hist \in HistType, NEW t \in Turns, NEW ids \in SUBSET Names,
           NEW named \in BOOLEAN, SubmitToCore(t, ids, named)
    PROVE  CoreOK' /\ hist' \in HistType
<1> DEFINE sub == Submission(t, IF named THEN ids ELSE {})
<1>1. sub \in SubmissionType /\ sub.turn = t
  BY DEF Submission, SubmissionType, MaybeTurn
<1>2. hist' \in HistType
  BY HistOK DEF SubmitToCore
<1>3. CASE core' = core
  BY <1>2, <1>3 DEF CoreOK
<1>4. CASE core' = [core EXCEPT !.queue = Append(@, sub), !.open = TRUE,
                      !.mail = IF core.open THEN @ ELSE {}, !.known = @ \cup ids]
  <2> HIDE DEF sub
  <2>1. core.queue \in Seq(SubmissionType)
    BY DEF CoreOK, CoreType
  <2>2. /\ Append(core.queue, sub) \in Seq(SubmissionType)
        /\ \A i \in DOMAIN Append(core.queue, sub) : Append(core.queue, sub)[i].turn # NoTurn
    BY <1>1, <2>1 DEF CoreOK, Turns, NoTurn
  <2> DEFINE q == Append(core.queue, sub)
  <2> HIDE DEF q
  <2>3. core' = [core EXCEPT !.queue = q, !.open = TRUE,
                      !.mail = IF core.open THEN @ ELSE {}, !.known = @ \cup ids]
    BY <1>4 DEF q
  <2>4. core' \in CoreType /\ core'.queue = q /\ core'.run = core.run /\ core'.closing = core.closing
    BY <2>2, <2>3 DEF CoreOK, CoreType, q
  <2> QED BY <1>2, <2>2, <2>4 DEF CoreOK, q
<1> QED BY <1>3, <1>4 DEF SubmitToCore

LEMMA ReadyItem ==
    ASSUME session \in SessionType, MayDispatch(session)
    PROVE  /\ Head(session.queue) \in Item /\ 1 \in DOMAIN session.queue
           /\ Head(session.queue) = session.queue[1]
<1>1. session.queue \in Seq(Item) /\ session.queue # <<>>
  BY DEF MayDispatch, SessionType, Item
<1> QED BY <1>1

LEMMA QueuedItem ==
    ASSUME NEW s \in SessionType, NEW ids, IsQueued(s, ids)
    PROVE  /\ Queued(s, ids) \in Item /\ Queued(s, ids).id \in ids
           /\ Place(s, ids) \in DOMAIN s.queue /\ Queued(s, ids) = s.queue[Place(s, ids)]
<1>1. s.queue \in Seq(Item)
  BY DEF SessionType, Item
<1> QED BY <1>1, PlaceOfQueued DEF Queued

(* What a refused turn's thread does next. *)
LEMMA RefusedOK ==
    ASSUME Types, NEW p \in {"lane", "task"}, pc[p].at \in {"start", "save_turn", "send"}, Refused(p)
    PROVE  ThreadsOK'
<1>1. ThreadsOK /\ p \in Threads /\ session \in SessionType
  BY ThreadsApart DEF SessionOK, Types
<1>2. CASE End(p)
  BY <1>1, <1>2, EndOK
<1>3. CASE p = "task" /\ Begin(p, "enqueue", pc[p].cmd)
  <2>1. pc[p].cmd \in Names
    BY <1>1, <1>3, ThreadFields DEF Says
  <2> QED BY <1>1, <1>3, <2>1, BeginOK
<1> QED BY <1>2, <1>3 DEF Refused

(* The steps at which each thread can be, for the provers. *)
LEMMA AtSteps ==
    ASSUME ThreadsOK
    PROVE  /\ \A p \in Threads :
                pc[p].at \in {"start", "save_turn", "ask", "send", "resolve", "enqueue", "save_queue"}
                  => p \in {"lane", "task"}
           /\ \A p \in Threads : pc[p].at \in HandoffSteps => p \in Handlers
BY ThreadFields
   DEF StepsOf, Steps, HandlerSteps, HandoffSteps, TaskSteps, Threads, Handlers

LEMMA DispatchNextTypes ==
    ASSUME Types, NEW p \in Threads, DispatchNext(p)
    PROVE  Types'
<1>1. /\ SessionOK /\ CoreOK /\ EventsOK /\ ThreadsOK /\ hist \in HistType
      /\ pc[p].at = "dispatch" /\ session \in SessionType
  BY DEF DispatchNext, At, SessionOK, Types
<1>2. UNCHANGED <<core, channel, hand, hist>>
  BY DEF DispatchNext
<1>3. SessionOK' /\ ThreadsOK'
  <2>1. CASE MayDispatch(session)
    <3> DEFINE item == Head(session.queue)
               next == IF item.afterStop THEN Dispatching(session, item).next ELSE "awaiting"
    <3>1. item \in Item /\ 1 \in DOMAIN session.queue /\ item = session.queue[1]
      BY <1>1, <2>1, ReadyItem
    <3>2. /\ session' = [Dispatching(session, item) EXCEPT !.next = next]
          /\ Carry(p, "send_queued", item.turn, {item.id})
      BY <2>1 DEF DispatchNext
    <3> HIDE DEF item
    <3>3. /\ Dispatching(session, item) \in SessionType
          /\ Dispatching(session, item).queue = session.queue
          /\ Dispatching(session, item).dispatching = item.turn
      BY <1>1, <3>1, DispatchingEffect
    <3>4. session' \in SessionType /\ session'.queue = session.queue /\ session'.dispatching = item.turn
      BY <3>2, <3>3 DEF SessionType
    <3>5. SessionOK'
      BY <3>1, <3>4 DEF SessionOK, Reserved
    <3>6. item.turn \in MaybeTurn /\ item.turn # NoTurn /\ {item.id} \in SUBSET Names
      BY <3>1 DEF Item, MaybeTurn, Turns, NoTurn
    <3>7. Fits(p, "send_queued", item.turn)
      BY <1>1, <3>6, ThreadFields
         DEF Fits, StepsOf, Steps, HandlerSteps, HandoffSteps, TaskSteps, Threads, Handlers
    <3> QED BY <1>1, <3>2, <3>5, <3>6, <3>7, CarryOK
  <2>2. CASE ~MayDispatch(session)
    <3>1. session' = session /\ Return(p)
      BY <2>2 DEF DispatchNext
    <3> QED BY <1>1, <3>1, ReturnOK DEF SessionOK
  <2> QED BY <2>1, <2>2
<1> QED BY <1>1, <1>2, <1>3 DEF CoreOK, EventsOK, Types

LEMMA SendQueuedTypes ==
    ASSUME Types, NEW p \in Threads, SendQueued(p)
    PROVE  Types'
<1>1. /\ SessionOK /\ CoreOK /\ EventsOK /\ ThreadsOK /\ hist \in HistType
      /\ pc[p].at = "send_queued" /\ session \in SessionType /\ Return(p)
  BY DEF SendQueued, At, SessionOK, Types
<1>2. pc[p].turn \in Turns /\ pc[p].ids \in SUBSET Names
  BY <1>1, ThreadFields DEF CarryingSteps
<1>3. ThreadsOK' /\ EventsOK'
  BY <1>1, ReturnOK DEF EventsOK, SendQueued
<1>4. CASE SubmitToCore(pc[p].turn, pc[p].ids, TRUE) /\ session' = session
  <2>1. CoreOK' /\ hist' \in HistType
    BY <1>1, <1>2, <1>4, SubmissionOK
  <2> QED BY <1>1, <1>3, <1>4, <2>1 DEF SessionOK, Types
<1>5. CASE hist' = Failed(hist) /\ session' = DispatchRejected(session, pc[p].turn) /\ core' = core
  <2>1. /\ session' \in SessionType /\ session'.queue = session.queue
        /\ session'.dispatching = session.dispatching \/ session'.dispatching = NoTurn
    BY <1>1, <1>5, DispatchRejectedEffect
  <2>2. SessionOK'
    BY <1>1, <2>1, SameQueueOK DEF SessionOK
  <2> QED BY <1>1, <1>3, <1>5, <2>2, HistOK DEF CoreOK, Types
<1> QED BY <1>1, <1>4, <1>5 DEF SendQueued

LEMMA SentTypes ==
    ASSUME Types, NEW p \in {"lane", "task"}, pc[p].at = "idle",
           NEW x \in {"start", "enqueue", "append"}, p = "task" => x # "append",
           NEW c \in Names, Begin(p, x, c), hist' = [hist EXCEPT !.sent = @ \cup {c}],
           UNCHANGED <<session, core, channel, hand>>
    PROVE  Types'
<1>1. /\ SessionOK /\ CoreOK /\ EventsOK /\ ThreadsOK /\ hist \in HistType
      /\ session \in SessionType
  BY DEF SessionOK, Types
<1>2. ThreadsOK'
  BY <1>1, BeginOK
<1>3. hist' \in HistType
  BY <1>1, HistOK
<1> QED BY <1>1, <1>2, <1>3 DEF SessionOK, CoreOK, EventsOK, Types

LEMMA SubmitTypes ==
    ASSUME Types, NEW c \in Commands, Submit(c)
    PROVE  Types'
<1>1. c \in Names /\ (IF Quiet(session) THEN "start" ELSE "enqueue") \in {"start", "enqueue", "append"}
  BY DEF Names
<1> QED BY <1>1, SentTypes DEF Submit, At

LEMMA FireTypes ==
    ASSUME Types, NEW f \in Fires, Fire(f)
    PROVE  Types'
<1>1. f \in Names /\ (IF Quiet(session) THEN "start" ELSE "enqueue") \in {"start", "enqueue", "append"}
      /\ (IF Quiet(session) THEN "start" ELSE "enqueue") # "append"
  BY DEF Names
<1> QED BY <1>1, SentTypes DEF Fire, At

LEMMA SupplementTypes ==
    ASSUME Types, NEW c \in Commands, Supplement(c)
    PROVE  Types'
<1>1. c \in Names /\ (IF HasActive(session) THEN "append" ELSE "start") \in {"start", "enqueue", "append"}
  BY DEF Names
<1> QED BY <1>1, SentTypes DEF Supplement, At

LEMMA StartTypes ==
    ASSUME Types, NEW p \in Threads, Start(p)
    PROVE  Types'
<1>1. /\ SessionOK /\ CoreOK /\ EventsOK /\ ThreadsOK /\ hist \in HistType
      /\ pc[p].at = "start" /\ session \in SessionType
  BY DEF Start, At, SessionOK, Types
<1>2. p \in {"lane", "task"} /\ pc[p].cmd \in Names
  BY <1>1, AtSteps, ThreadFields DEF Says
<1>3. UNCHANGED <<core, channel, hand>>
  BY DEF Start
<1>4. CASE session' = session /\ Refused(p) /\ hist' = hist
  <2>1. ThreadsOK'
    BY <1>1, <1>2, <1>4, RefusedOK
  <2> QED BY <1>1, <1>3, <1>4, <2>1 DEF SessionOK, CoreOK, EventsOK, Types
<1>5. CASE /\ CanMake /\ hist' = Made(hist) /\ session' = NewTurn(session, Fresh, Ids(p))
           /\ Save(p, "save_turn", Fresh, Ids(p))
  <2>1. Fresh \in Turns /\ hist' \in HistType /\ Ids(p) \in SUBSET Names
    BY <1>1, <1>2, <1>5, FreshOK DEF Ids
  <2>2. session' \in SessionType /\ SameQueue(session', session)
    BY <1>1, <1>5, <2>1, NewTurnEffect
  <2>3. SessionOK'
    BY <1>1, <2>2, SameQueueOK DEF SessionOK, SameQueue
  <2>4. Fits(p, "save_turn", Fresh)
    BY <1>1, <1>2, <2>1, ThreadFields, HostAssumption
       DEF Fits, StepsOf, Steps, HandlerSteps, HandoffSteps, TaskSteps, Turns, NoTurn, Names
  <2>5. ThreadsOK'
    BY <1>1, <1>2, <1>5, <2>1, <2>2, <2>4, SaveOK DEF MaybeTurn
  <2> QED BY <1>1, <1>3, <2>1, <2>3, <2>5 DEF CoreOK, EventsOK, Types
<1> QED BY <1>4, <1>5 DEF Start

LEMMA TurnSavedTypes ==
    ASSUME Types, NEW p \in Threads, TurnSaved(p)
    PROVE  Types'
<1>1. SessionOK /\ ThreadsOK /\ hist \in HistType /\ pc[p].at = "save_turn"
  BY DEF Types, TurnSaved, At
<1>2. p \in {"lane", "task"} /\ pc[p].turn \in Turns
  BY <1>1, AtSteps, ThreadFields DEF CarryingSteps
<1>3. CASE Go(p, IF pc[p].asks THEN "ask" ELSE "send") /\ UNCHANGED <<session, hist>>
  <2> DEFINE x == IF pc[p].asks THEN "ask" ELSE "send"
  <2>1. Fits(p, x, pc[p].turn)
    BY <1>1, <1>2, ThreadFields, HostAssumption
       DEF Fits, StepsOf, Steps, HandlerSteps, HandoffSteps, TaskSteps, Turns, NoTurn, Names, Says
  <2> HIDE DEF x
  <2>2. ThreadsOK'
    BY <1>1, <1>3, <2>1, GoOK DEF x
  <2> QED BY <1>3, <2>2 DEF TurnSaved, Types, SessionOK, CoreOK, EventsOK
<1>4. CASE PutBack(p) /\ Refused(p)
  <2>1. ThreadsOK'
    BY <1>1, <1>2, <1>4, RefusedOK
  <2> QED BY <1>4, <2>1, PutBackOK DEF TurnSaved, Types, CoreOK, EventsOK
<1> QED BY <1>3, <1>4 DEF TurnSaved

LEMMA AskTypes ==
    ASSUME Types, NEW p \in Threads, Ask(p)
    PROVE  Types'
<1>1. SessionOK /\ ThreadsOK /\ hist \in HistType /\ pc[p].at = "ask"
  BY DEF Types, Ask, At
<1>2. pc[p].turn \in MaybeTurn /\ pc[p].ids \in SUBSET Names
  BY <1>1, ThreadFields
<1>3. /\ session' \in SessionType /\ session'.queue = session.queue
      /\ session'.dispatching = session.dispatching
  BY <1>1, <1>2 DEF Ask, SessionOK, SessionType
<1>4. ThreadsOK'
  BY <1>1, EndOK DEF Ask
<1> QED BY <1>1, <1>3, <1>4, SameQueueOK DEF Ask, Types, SessionOK, CoreOK, EventsOK

LEMMA SendTypes ==
    ASSUME Types, NEW p \in Threads, Send(p)
    PROVE  Types'
<1>1. SessionOK /\ CoreOK /\ ThreadsOK /\ hist \in HistType /\ pc[p].at = "send" /\ session \in SessionType
  BY DEF Types, Send, At, SessionOK
<1>2. p \in {"lane", "task"} /\ pc[p].turn \in Turns /\ pc[p].ids \in SUBSET Names
  BY <1>1, AtSteps, ThreadFields DEF CarryingSteps
<1>3. CASE SubmitToCore(pc[p].turn, pc[p].ids, TRUE) /\ End(p) /\ UNCHANGED session
  <2>1. CoreOK' /\ hist' \in HistType
    BY <1>1, <1>2, <1>3, SubmissionOK
  <2> QED BY <1>1, <1>3, <2>1, EndOK DEF Send, Types, SessionOK, EventsOK
<1>4. CASE /\ hist' = Failed(hist) /\ session' = RolledBack(session, pc[p].turn)
           /\ Refused(p) /\ UNCHANGED core
  <2>1. session' \in SessionType /\ SameQueue(session', session)
    BY <1>1, <1>4, RolledBackEffect
  <2>2. SessionOK'
    BY <1>1, <2>1, SameQueueOK DEF SessionOK, SameQueue
  <2>3. ThreadsOK'
    BY <1>1, <1>2, <1>4, RefusedOK
  <2> QED BY <1>1, <1>4, <2>2, <2>3, HistOK DEF Send, Types, CoreOK, EventsOK
<1>5. CASE Strand(pc[p].turn) /\ UNCHANGED <<session, core>> /\ Refused(p)
  <2>1. ThreadsOK'
    BY <1>1, <1>2, <1>5, RefusedOK
  <2>2. hist' \in HistType
    BY <1>1, <1>2, <1>5, HistOK DEF Strand
  <2> QED BY <1>5, <2>1, <2>2 DEF Send, Types, SessionOK, CoreOK, EventsOK
<1> QED BY <1>3, <1>4, <1>5 DEF Send

LEMMA ResolveTypes ==
    ASSUME Types, NEW p \in Threads, Resolve(p)
    PROVE  Types'
<1>1. /\ SessionOK /\ ThreadsOK /\ hist \in HistType /\ pc[p].at = "idle" /\ p \in {"lane", "task"}
      /\ session.asking # NoTurn
  BY DEF Types, Resolve, At
<1>2. session.asking \in MaybeTurn /\ session.askedFor \in SUBSET Names
  BY <1>1 DEF SessionOK, SessionType
<1>3. /\ session' \in SessionType /\ session'.queue = session.queue
      /\ session'.dispatching = session.dispatching
  BY <1>1 DEF Resolve, SessionOK, SessionType, MaybeTurn, NoTurn
<1>4. Fits(p, "resolve", session.asking)
  BY <1>1, ThreadFields DEF Fits, StepsOf, Steps, HandlerSteps, HandoffSteps, TaskSteps
<1>5. Carry(p, "resolve", session.asking, session.askedFor) /\ p \in Threads
  BY ThreadsApart DEF Resolve
<1>6. ThreadsOK'
  BY <1>1, <1>2, <1>4, <1>5, CarryOK
<1> QED BY <1>1, <1>3, <1>6, SameQueueOK DEF Resolve, Types, SessionOK, CoreOK, EventsOK

LEMMA ResolveSendTypes ==
    ASSUME Types, NEW p \in Threads, ResolveSend(p)
    PROVE  Types'
<1>1. SessionOK /\ CoreOK /\ ThreadsOK /\ hist \in HistType /\ pc[p].at = "resolve"
  BY DEF Types, ResolveSend, At
<1>2. p \in {"lane", "task"} /\ pc[p].turn \in Turns /\ pc[p].ids \in SUBSET Names
  BY <1>1, AtSteps, ThreadFields DEF CarryingSteps
<1>3. CASE /\ SubmitToCore(pc[p].turn, pc[p].ids, TRUE)
           /\ IF p = "lane" THEN Go(p, "note") ELSE End(p)
  <2>1. CoreOK' /\ hist' \in HistType
    BY <1>1, <1>2, <1>3, SubmissionOK
  <2>2. p = "lane" => Fits(p, "note", pc[p].turn)
    BY <1>1, ThreadFields
       DEF Fits, StepsOf, Steps, HandlerSteps, HandoffSteps, TaskSteps, CarryingSteps
  <2>3. ThreadsOK'
    BY <1>1, <1>3, <2>2, EndOK, GoOK
  <2> QED BY <1>1, <2>1, <2>3 DEF ResolveSend, Types, SessionOK, EventsOK
<1>4. CASE Strand(pc[p].turn) /\ End(p) /\ UNCHANGED core
  <2>1. hist' \in HistType
    BY <1>1, <1>2, <1>4, HistOK DEF Strand
  <2> QED BY <1>1, <1>4, <2>1, EndOK DEF ResolveSend, Types, SessionOK, CoreOK, EventsOK
<1> QED BY <1>3, <1>4 DEF ResolveSend

LEMMA NoteTypes ==
    ASSUME Types, Note
    PROVE  Types'
<1>1. /\ SessionOK /\ ThreadsOK /\ pc["lane"].at = "note" /\ "lane" \in Threads
      /\ session' = session /\ session \in SessionType
  BY ThreadsApart DEF Types, Note, At, SessionOK
<1>2. Fits("lane", "save_note", NoTurn)
  BY <1>1, ThreadFields
     DEF Fits, StepsOf, Steps, HandlerSteps, HandoffSteps, TaskSteps, CarryingSteps
<1>3. CASE Save("lane", "save_note", NoTurn, {})
  <2>1. ThreadsOK'
    BY <1>1, <1>2, <1>3, SaveOK DEF MaybeTurn
  <2> QED BY <1>1, <2>1 DEF Note, Types, SessionOK, CoreOK, EventsOK
<1>4. CASE End("lane")
  BY <1>1, <1>4, EndOK DEF Note, Types, SessionOK, CoreOK, EventsOK
<1> QED BY <1>3, <1>4 DEF Note

LEMMA NoteSavedTypes ==
    ASSUME Types, NoteSaved
    PROVE  Types'
<1>1. ThreadsOK'
  BY EndOK, ThreadsApart DEF Types, NoteSaved
<1>2. SessionOK' /\ hist' \in HistType
  BY PutBackOK, ThreadsApart DEF NoteSaved, Types, SessionOK
<1> QED BY <1>1, <1>2 DEF NoteSaved, Types, CoreOK, EventsOK

LEMMA EnqueueTypes ==
    ASSUME Types, NEW p \in Threads, Enqueue(p)
    PROVE  Types'
<1>1. /\ SessionOK /\ ThreadsOK /\ hist \in HistType /\ pc[p].at = "enqueue" /\ session \in SessionType
  BY DEF Types, Enqueue, At, SessionOK
<1>2. p \in {"lane", "task"} /\ pc[p].cmd \in Names
  BY <1>1, AtSteps, ThreadFields DEF Says
<1>3. CASE session' = session /\ End(p) /\ hist' = hist
  BY <1>1, <1>3, EndOK DEF Enqueue, Types, SessionOK, CoreOK, EventsOK
<1>4. CASE ~Quiet(session)
  <2> DEFINE item == [id |-> pc[p].cmd, turn |-> Fresh,
                      afterStop |-> session.cancelling # NoTurn /\ session.queue = <<>>]
  <2>1. /\ CanMake /\ hist' = Made(hist) /\ session' = [session EXCEPT !.queue = Append(@, item)]
        /\ Save(p, "save_queue", Fresh, {})
    BY <1>4 DEF Enqueue
  <2>2. Fresh \in Turns /\ hist' \in HistType
    BY <1>1, <2>1, FreshOK
  <2>3. item \in Item
    BY <1>2, <2>2 DEF Item
  <2> HIDE DEF item
  <2>4. session.queue \in Seq(Item)
    BY <1>1 DEF SessionType, Item
  <2>5. /\ Append(session.queue, item) \in Seq(Item)
        /\ \A i \in DOMAIN session.queue : i \in DOMAIN Append(session.queue, item)
                                        /\ Append(session.queue, item)[i] = session.queue[i]
    BY <2>3, <2>4
  <2>6. /\ session' \in SessionType /\ session'.queue = Append(session.queue, item)
        /\ session'.dispatching = session.dispatching
    BY <1>1, <2>1, <2>5 DEF SessionType, Item
  <2>7. SessionOK'
    BY <1>1, <2>5, <2>6 DEF SessionOK, Reserved
  <2>8. Fits(p, "save_queue", Fresh)
    BY <1>1, <1>2, <2>2, ThreadFields
       DEF Fits, StepsOf, Steps, HandlerSteps, HandoffSteps, TaskSteps, CarryingSteps
  <2>9. ThreadsOK'
    BY <1>1, <2>1, <2>2, <2>6, <2>8, SaveOK DEF MaybeTurn
  <2> QED BY <2>2, <2>7, <2>9 DEF Enqueue, Types, CoreOK, EventsOK
<1> QED BY <1>3, <1>4 DEF Enqueue

LEMMA QueueSavedTypes ==
    ASSUME Types, NEW p \in Threads, QueueSaved(p)
    PROVE  Types'
<1>1. SessionOK /\ ThreadsOK /\ pc[p].at = "save_queue"
  BY DEF Types, QueueSaved, At
<1>2. CASE Go(p, "dispatch") /\ UNCHANGED <<session, hist>>
  <2>1. Fits(p, "dispatch", pc[p].turn)
    BY <1>1, ThreadFields
       DEF Fits, StepsOf, Steps, HandlerSteps, HandoffSteps, TaskSteps, CarryingSteps, Threads, Handlers
  <2> QED BY <1>1, <1>2, <2>1, GoOK DEF QueueSaved, Types, SessionOK, CoreOK, EventsOK
<1>3. CASE PutBack(p) /\ End(p)
  BY <1>1, <1>3, PutBackOK, EndOK DEF QueueSaved, Types, CoreOK, EventsOK
<1> QED BY <1>2, <1>3 DEF QueueSaved

LEMMA AppendEntryTypes ==
    ASSUME Types, AppendEntry
    PROVE  Types'
<1>1. /\ SessionOK /\ ThreadsOK /\ pc["lane"].at = "append" /\ "lane" \in Threads
      /\ session \in SessionType
  BY ThreadsApart DEF Types, AppendEntry, At, SessionOK
<1>2. pc["lane"].cmd \in Names /\ pc["lane"].cmd # NoCommand
  BY <1>1, ThreadFields, HostAssumption DEF Says, Names
<1>3. CASE Become("lane", Resting("settle", pc["lane"].cmd)) /\ session' = session
  <2>1. /\ pc' \in [Threads -> ThreadType] /\ Alone("lane")
        /\ pc'["lane"].at = "settle" /\ pc'["lane"].cmd = pc["lane"].cmd
        /\ pc'["lane"].back = "settle" /\ pc'["lane"].image = NoImage
    BY <1>1, <1>2, <1>3, RestEffect DEF ThreadsOK
  <2>2. ThreadOK("lane", pc'["lane"])
    BY <1>2, <2>1, NoImageType
       DEF ThreadOK, Reserved, StepsOf, Steps, HandlerSteps, HandoffSteps, TaskSteps, CarryingSteps, Says
  <2>3. ThreadsOK'
    BY <1>1, <2>1, <2>2, ThreadsKept
  <2> QED BY <1>3, <2>3 DEF AppendEntry, Types, SessionOK, CoreOK, EventsOK
<1>4. CASE End("lane") /\ session' = session
  BY <1>1, <1>4, EndOK DEF AppendEntry, Types, SessionOK, CoreOK, EventsOK
<1>5. CASE /\ session' = Recorded(session, {pc["lane"].cmd})
           /\ Save("lane", "save_entry", NoTurn, {pc["lane"].cmd})
  <2>1. session' \in SessionType /\ SameQueue(session', session)
    BY <1>1, <1>2, <1>5, RecordedEffect
  <2>2. Fits("lane", "save_entry", NoTurn)
    BY <1>1, ThreadFields
       DEF Fits, StepsOf, Steps, HandlerSteps, HandoffSteps, TaskSteps, CarryingSteps
  <2>3. ThreadsOK'
    BY <1>1, <1>2, <1>5, <2>1, <2>2, SaveOK DEF MaybeTurn
  <2>4. SessionOK'
    BY <1>1, <2>1, SameQueueOK DEF SessionOK, SameQueue
  <2> QED BY <2>3, <2>4 DEF AppendEntry, Types, CoreOK, EventsOK
<1> QED BY <1>3, <1>4, <1>5 DEF AppendEntry

LEMMA EntrySavedTypes ==
    ASSUME Types, EntrySaved
    PROVE  Types'
<1>1. /\ SessionOK /\ CoreOK /\ ThreadsOK /\ "lane" \in Threads /\ End("lane") /\ hist \in HistType
      /\ EventsOK'
  BY ThreadsApart DEF Types, EntrySaved, EventsOK
<1>2. pc["lane"].ids \in SUBSET Names
  BY <1>1, ThreadFields
<1>3. CASE /\ core' = [core EXCEPT !.mail = @ \cup pc["lane"].ids, !.known = @ \cup pc["lane"].ids]
           /\ hist' = [hist EXCEPT !.accepted = @ \cup pc["lane"].ids]
           /\ UNCHANGED session
  <2>1. /\ core' \in CoreType /\ core'.queue = core.queue /\ core'.run = core.run
        /\ core'.closing = core.closing
    BY <1>1, <1>2, <1>3 DEF CoreOK, CoreType
  <2>2. hist' \in HistType
    BY <1>1, <1>2, <1>3, HistOK
  <2> QED BY <1>1, <1>3, <2>1, <2>2, EndOK DEF Types, SessionOK, CoreOK
<1>4. CASE PutBack("lane") /\ UNCHANGED core
  BY <1>1, <1>4, EndOK, PutBackOK DEF Types, CoreOK
<1> QED BY <1>3, <1>4 DEF EntrySaved

LEMMA SettledTypes ==
    ASSUME Types, Settled
    PROVE  Types'
<1>1. SessionOK /\ ThreadsOK /\ pc["lane"].at = "settle" /\ "lane" \in Threads /\ session \in SessionType
  BY ThreadsApart DEF Types, Settled, At, SessionOK
<1>2. pc["lane"].cmd \in Names
  BY <1>1, ThreadFields DEF Says
<1>3. ThreadsOK'
  BY <1>1, <1>2, BeginOK, EndOK DEF Settled
<1> QED BY <1>3 DEF Settled, Types, SessionOK, CoreOK, EventsOK

LEMMA SendNowTypes ==
    ASSUME Types, NEW item \in ToSet(session.queue), SendNow(item)
    PROVE  Types'
<1>1. SessionOK /\ ThreadsOK /\ pc["lane"].at = "idle" /\ "lane" \in Threads
  BY ThreadsApart DEF Types, SendNow, At
<1>2. {item.id} \in SUBSET Names
  <2>1. session.queue \in Seq(Item)
    BY <1>1 DEF SessionOK, SessionType, Item
  <2>2. PICK i \in DOMAIN session.queue : item = session.queue[i]
    BY DEF ToSet
  <2>3. item \in Item
    BY <2>1, <2>2
  <2> QED BY <2>3 DEF Item
<1> DEFINE x == IF HasActive(session) THEN "append_now" ELSE "now"
<1>3. Fits("lane", x, NoTurn)
  BY <1>1, ThreadFields
     DEF Fits, StepsOf, Steps, HandlerSteps, HandoffSteps, TaskSteps, CarryingSteps
<1>4. Carry("lane", x, NoTurn, {item.id})
  BY DEF SendNow
<1> HIDE DEF x
<1>5. ThreadsOK'
  BY <1>1, <1>2, <1>3, <1>4, CarryOK DEF MaybeTurn
<1> QED BY <1>5 DEF SendNow, Types, SessionOK, CoreOK, EventsOK

LEMMA DispatchNowTypes ==
    ASSUME Types, DispatchNow
    PROVE  Types'
<1>1. /\ SessionOK /\ ThreadsOK /\ pc["lane"].at = "now" /\ "lane" \in Threads
      /\ session \in SessionType /\ hist \in HistType
  BY ThreadsApart DEF Types, DispatchNow, At, SessionOK
<1>2. CASE End("lane") /\ UNCHANGED <<session, hist>>
  BY <1>1, <1>2, EndOK DEF DispatchNow, Types, SessionOK, CoreOK, EventsOK
<1>3. CASE ~(session.dispatching # NoTurn \/ ~IsQueued(session, pc["lane"].ids))
  <2> DEFINE item == Queued(session, pc["lane"].ids)
  <2>1. /\ session' = Dispatching(session, item)
        /\ hist' = [hist EXCEPT !.hurried = @ \/ Current(session) # NoTurn]
        /\ Carry("lane", "save_now", item.turn, pc["lane"].ids)
    BY <1>3 DEF DispatchNow
  <2>2. /\ item \in Item /\ Place(session, pc["lane"].ids) \in DOMAIN session.queue
        /\ item = session.queue[Place(session, pc["lane"].ids)]
    BY <1>1, <1>3, QueuedItem
  <2> HIDE DEF item
  <2>3. /\ session' \in SessionType /\ session'.queue = session.queue
        /\ session'.dispatching = item.turn
    BY <1>1, <2>1, <2>2, DispatchingEffect
  <2>4. SessionOK'
    BY <2>2, <2>3 DEF SessionOK, Reserved
  <2>5. item.turn \in MaybeTurn /\ item.turn # NoTurn /\ pc["lane"].ids \in SUBSET Names
    BY <1>1, <2>2, ThreadFields DEF Item, MaybeTurn, Turns, NoTurn
  <2>6. Fits("lane", "save_now", item.turn)
    BY <1>1, <2>5, ThreadFields
       DEF Fits, StepsOf, Steps, HandlerSteps, HandoffSteps, TaskSteps
  <2>7. ThreadsOK'
    BY <1>1, <2>1, <2>5, <2>6, CarryOK
  <2>8. (hist.hurried \/ Current(session) # NoTurn) \in BOOLEAN
    BY <1>1 DEF HistType
  <2>9. hist' \in HistType
    BY <1>1, <2>1, <2>8, HistOK
  <2> QED BY <2>4, <2>7, <2>9 DEF DispatchNow, Types, CoreOK, EventsOK
<1> QED BY <1>2, <1>3 DEF DispatchNow

LEMMA SupplementNowTypes ==
    ASSUME Types, SupplementNow
    PROVE  Types'
<1>1. /\ SessionOK /\ ThreadsOK /\ pc["lane"].at = "append_now" /\ "lane" \in Threads
      /\ session \in SessionType
  BY ThreadsApart DEF Types, SupplementNow, At, SessionOK
<1>2. CASE End("lane") /\ UNCHANGED session
  BY <1>1, <1>2, EndOK DEF SupplementNow, Types, SessionOK, CoreOK, EventsOK
<1>3. CASE ~(\/ ~core.open \/ ~IsQueued(session, pc["lane"].ids) \/ ~HasActive(session)
             \/ session.dispatching = Queued(session, pc["lane"].ids).turn)
  <2> DEFINE ids == pc["lane"].ids
             s == Unqueued(session, ids)
  <2>1. session' = Recorded(s, ids) /\ Save("lane", "save_entry", NoTurn, ids)
    BY <1>3 DEF SupplementNow
  <2>2. IsQueued(session, ids) /\ session.dispatching # Queued(session, ids).turn
    BY <1>3
  <2>3. ids \in SUBSET Names
    BY <1>1, ThreadFields
  <2> HIDE DEF ids
  <2>4. /\ s \in SessionType /\ s.dispatching = session.dispatching
        /\ s.queue = RemoveAt(session.queue, Place(session, ids))
    BY <1>1, <2>2, UnqueuedEffect
  <2>5. \A j \in DOMAIN session.queue : j # Place(session, ids) =>
           \E i \in DOMAIN s.queue : s.queue[i] = session.queue[j]
    BY <1>1, <2>2, <2>4, UnqueuedItems
  <2> HIDE DEF s
  <2>6. Reserved(s)
    BY <1>1, <2>2, <2>4, <2>5 DEF SessionOK, Reserved, Queued
  <2>7. session' \in SessionType /\ SameQueue(session', s)
    BY <2>1, <2>3, <2>4, RecordedEffect
  <2>8. SessionOK'
    BY <2>6, <2>7, SameQueueOK DEF SessionOK, SameQueue
  <2>9. Fits("lane", "save_entry", NoTurn)
    BY <1>1, ThreadFields
       DEF Fits, StepsOf, Steps, HandlerSteps, HandoffSteps, TaskSteps, CarryingSteps
  <2>10. ThreadsOK'
    BY <1>1, <2>1, <2>3, <2>7, <2>9, SaveOK DEF MaybeTurn
  <2> QED BY <2>8, <2>10 DEF SupplementNow, Types, CoreOK, EventsOK
<1> QED BY <1>2, <1>3 DEF SupplementNow

LEMMA NowSavedTypes ==
    ASSUME Types, NowSaved
    PROVE  Types'
<1>1. /\ SessionOK /\ ThreadsOK /\ pc["lane"].at = "save_now" /\ "lane" \in Threads
      /\ hist \in HistType
  BY ThreadsApart DEF Types, NowSaved, At
<1>2. pc["lane"].turn \in Turns
  BY <1>1, ThreadFields DEF CarryingSteps
<1>3. CASE Go("lane", "send_queued") /\ UNCHANGED hist
  <2>1. Fits("lane", "send_queued", pc["lane"].turn)
    BY <1>1, <1>2, ThreadFields
       DEF Fits, StepsOf, Steps, HandlerSteps, HandoffSteps, TaskSteps, Turns, NoTurn
  <2> QED BY <1>1, <1>3, <2>1, GoOK DEF NowSaved, Types, SessionOK, CoreOK, EventsOK
<1>4. CASE Strand(pc["lane"].turn) /\ End("lane")
  <2>1. hist' \in HistType
    BY <1>1, <1>2, <1>4, HistOK DEF Strand
  <2> QED BY <1>1, <1>4, <2>1, EndOK DEF NowSaved, Types, SessionOK, CoreOK, EventsOK
<1> QED BY <1>3, <1>4 DEF NowSaved

LEMMA CancelTypes ==
    ASSUME Types, Cancel
    PROVE  Types'
<1>1. /\ SessionOK /\ ThreadsOK /\ pc["lane"].at = "idle" /\ "lane" \in Threads
      /\ session \in SessionType /\ hist \in HistType
  BY ThreadsApart DEF Types, Cancel, At, SessionOK
<1>2. hist' \in HistType
  <2> DEFINE last == IF session.asking # NoTurn THEN "stopped" ELSE hist.last
  <2>1. hist.last \in Hows /\ hist.stops \in Nat
    BY <1>1 DEF HistType
  <2>2. last \in Hows
    BY <2>1 DEF Hows, Outcomes
  <2>3. hist' = [hist EXCEPT !.stops = @ + 1, !.last = last]
    BY DEF Cancel
  <2> HIDE DEF last
  <2>4. [hist EXCEPT !.stops = @ + 1] \in HistType
    BY <1>1, <2>1 DEF HistType
  <2> QED BY <2>2, <2>3, <2>4 DEF HistType
<1>3. Current(session) \in MaybeTurn
  BY <1>1, CurrentType
<1>4. CASE session.asking # NoTurn
  <2>1. session' = session \/ (session' \in SessionType /\ SameQueue(session', session))
    BY <1>1, <1>4, AbandonedEffect DEF Cancel
  <2>2. SessionOK'
    BY <1>1, <2>1, SameQueueOK DEF SessionOK, SameQueue
  <2>3. pc' = pc
    BY <1>4 DEF Cancel
  <2> QED BY <1>2, <2>2, <2>3 DEF Cancel, Types, CoreOK, EventsOK, ThreadsOK
<1>5. CASE session.asking = NoTurn /\ HasActive(session)
  <2>1. session' = Cancelled(session) /\ Save("lane", "save_stop", Current(session), {})
    BY <1>5 DEF Cancel
  <2>2. session' \in SessionType /\ SameQueue(session', session)
    BY <1>1, <2>1, CancelledEffect
  <2>3. SessionOK'
    BY <1>1, <2>2, SameQueueOK DEF SessionOK, SameQueue
  <2>4. Fits("lane", "save_stop", Current(session))
    BY <1>1, ThreadFields
       DEF Fits, StepsOf, Steps, HandlerSteps, HandoffSteps, TaskSteps, CarryingSteps
  <2>5. ThreadsOK'
    BY <1>1, <1>3, <2>1, <2>2, <2>4, SaveOK
  <2> QED BY <1>2, <2>3, <2>5 DEF Cancel, Types, CoreOK, EventsOK
<1>6. CASE session.asking = NoTurn /\ ~HasActive(session)
  <2>1. session' = session /\ Carry("lane", "stop", Current(session), {})
    BY <1>6 DEF Cancel
  <2>2. Fits("lane", "stop", Current(session))
    BY <1>1, ThreadFields
       DEF Fits, StepsOf, Steps, HandlerSteps, HandoffSteps, TaskSteps, CarryingSteps
  <2>3. ThreadsOK'
    BY <1>1, <1>3, <2>1, <2>2, CarryOK
  <2> QED BY <1>2, <2>1, <2>3 DEF Cancel, Types, SessionOK, CoreOK, EventsOK
<1> QED BY <1>4, <1>5, <1>6

LEMMA StopSavedTypes ==
    ASSUME Types, StopSaved
    PROVE  Types'
<1>1. SessionOK /\ ThreadsOK /\ pc["lane"].at = "save_stop" /\ "lane" \in Threads
  BY ThreadsApart DEF Types, StopSaved, At
<1>2. CASE Go("lane", "stop") /\ UNCHANGED <<session, hist>>
  <2>1. Fits("lane", "stop", pc["lane"].turn)
    BY <1>1, ThreadFields
       DEF Fits, StepsOf, Steps, HandlerSteps, HandoffSteps, TaskSteps, CarryingSteps
  <2> QED BY <1>1, <1>2, <2>1, GoOK DEF StopSaved, Types, SessionOK, CoreOK, EventsOK
<1>3. CASE PutBack("lane") /\ End("lane")
  BY <1>1, <1>3, PutBackOK, EndOK DEF StopSaved, Types, CoreOK, EventsOK
<1> QED BY <1>2, <1>3 DEF StopSaved

(* A Stop marks what Core has, and changes neither its turns nor their ids. *)
LEMMA StopCoreEffect ==
    ASSUME CoreOK, StopCore
    PROVE  /\ core' \in CoreType /\ DOMAIN core'.queue = DOMAIN core.queue
           /\ Len(core'.queue) = Len(core.queue) /\ (core'.queue = <<>> <=> core.queue = <<>>)
           /\ \A i \in DOMAIN core.queue : core'.queue[i].turn = core.queue[i].turn
                                         /\ core'.queue[i].ids = core.queue[i].ids
           /\ core'.run.turn = core.run.turn /\ core'.run.ids = core.run.ids
           /\ (core'.run = NoRun <=> core.run = NoRun)
           /\ core'.closing = core.closing /\ core'.open = core.open
           /\ core'.mail = core.mail /\ core'.known = core.known
<1> DEFINE q == [i \in DOMAIN core.queue |-> [core.queue[i] EXCEPT !.cut = TRUE]]
           busy == core.run # NoRun
           run == [core.run EXCEPT !.stop = busy]
<1>1. core.queue \in Seq(SubmissionType) /\ core.run \in SubmissionType /\ core \in CoreType
  BY DEF CoreOK, CoreType
<1>2. /\ q \in Seq(SubmissionType) /\ DOMAIN q = DOMAIN core.queue /\ Len(q) = Len(core.queue)
      /\ \A i \in DOMAIN q : q[i].turn = core.queue[i].turn /\ q[i].ids = core.queue[i].ids
  <2>1. \A i \in DOMAIN core.queue : core.queue[i] \in SubmissionType
    BY <1>1
  <2>2. \A i \in DOMAIN core.queue :
           /\ [core.queue[i] EXCEPT !.cut = TRUE] \in SubmissionType
           /\ [core.queue[i] EXCEPT !.cut = TRUE].turn = core.queue[i].turn
           /\ [core.queue[i] EXCEPT !.cut = TRUE].ids = core.queue[i].ids
    BY <2>1 DEF SubmissionType
  <2>3. DOMAIN core.queue = 1 .. Len(core.queue) /\ Len(core.queue) \in Nat
    BY <1>1
  <2>4. DOMAIN q = DOMAIN core.queue /\ \A i \in DOMAIN q : q[i] \in SubmissionType
    BY <2>2
  <2>5. q \in [1 .. Len(core.queue) -> SubmissionType]
    BY <2>3, <2>4
  <2>6. q \in Seq(SubmissionType)
    BY <2>3, <2>5, SeqDef
  <2>7. Len(q) = Len(core.queue)
    BY <2>3, <2>5, <2>6
  <2> QED BY <2>2, <2>6, <2>7
<1>3. busy \in BOOLEAN
  OBVIOUS
<1>4. core' = [core EXCEPT !.queue = q, !.run = run]
  <2>1. core' = [core EXCEPT !.queue = q, !.run.stop = busy]
    BY DEF StopCore
  <2> HIDE DEF q, busy
  <2> QED BY <1>1, <2>1 DEF CoreType
<1>5. core.run = NoRun => run = NoRun
  <2>1. ASSUME core.run = NoRun PROVE run = NoRun
    <3>1. run = [NoRun EXCEPT !.stop = FALSE]
      BY <2>1
    <3>2. [NoRun EXCEPT !.stop = FALSE] = NoRun
      <4> DEFINE r == [NoRun EXCEPT !.stop = FALSE]
      <4>1. NoRun \in SubmissionType /\ NoRun.stop = FALSE
        BY DEF NoRun, Submission, SubmissionType, MaybeTurn
      <4>2. /\ r \in SubmissionType /\ r.turn = NoRun.turn /\ r.ids = NoRun.ids
            /\ r.cut = NoRun.cut /\ r.stop = NoRun.stop
        BY <4>1 DEF SubmissionType
      <4> HIDE DEF r
      <4>3. r = NoRun
        BY <4>1, <4>2 DEF SubmissionType
      <4> QED BY <4>3 DEF r
    <3> HIDE DEF run
    <3> QED BY <3>1, <3>2
  <2> QED BY <2>1
<1>6. run.stop = busy /\ (NoRun.stop = FALSE)
  BY <1>1 DEF SubmissionType, NoRun, Submission
<1>7. run = NoRun => core.run = NoRun
  BY <1>6
<1> HIDE DEF busy
<1>8. run \in SubmissionType /\ run.turn = core.run.turn /\ run.ids = core.run.ids
  BY <1>1, <1>3 DEF SubmissionType
<1> HIDE DEF q, run
<1>9. /\ core' \in CoreType /\ core'.queue = q /\ core'.run = run /\ core'.closing = core.closing
      /\ core'.open = core.open /\ core'.mail = core.mail /\ core'.known = core.known
  BY <1>1, <1>2, <1>4, <1>8 DEF CoreType
<1>10. q = <<>> <=> core.queue = <<>>
  BY <1>1, <1>2
<1> QED BY <1>2, <1>5, <1>7, <1>8, <1>9, <1>10

LEMMA StopCoreTypes ==
    ASSUME Types, StopCore
    PROVE  Types'
<1>1. ThreadsOK'
  BY EndOK, ThreadsApart DEF Types, StopCore
<1>2. CoreOK'
  BY StopCoreEffect DEF Types, CoreOK
<1> QED BY <1>1, <1>2 DEF StopCore, Types, SessionOK, EventsOK

(* What Core tells the Host. *)
LEMMA EventIs ==
    ASSUME NEW kind \in {"started", "projected", "unconsumed", "finished"}, NEW t \in Turns,
           NEW ids \in SUBSET Names, NEW how \in Hows
    PROVE  Event(kind, t, ids, how) \in EventType
BY DEF Event, EventType

LEMMA CoreStartEffect ==
    ASSUME CoreOK, CoreStart
    PROVE  /\ core.run = NoRun /\ 1 \in DOMAIN core.queue /\ Len(core.queue) > 0
           /\ core' \in CoreType /\ core'.queue = Tail(core.queue)
           /\ core'.run \in SubmissionType /\ core'.run # NoRun
           /\ core'.run.turn = core.queue[1].turn /\ core'.run.ids = core.queue[1].ids
           /\ core'.run.turn \in Turns
           /\ core'.open = core.open /\ core'.mail = core.mail /\ core'.known = core.known
           /\ channel' = channel \o <<Event("started", core'.run.turn, core'.run.ids, "none")>>
<1> DEFINE sub == Head(core.queue)
           run == [sub EXCEPT !.stop = FALSE]
<1>1. core \in CoreType /\ core.queue \in Seq(SubmissionType) /\ core.queue # <<>> /\ core.run = NoRun
  BY DEF CoreStart, CoreOK, CoreType
<1>2. /\ sub \in SubmissionType /\ sub = core.queue[1] /\ 1 \in DOMAIN core.queue
      /\ Tail(core.queue) \in Seq(SubmissionType) /\ Len(core.queue) > 0
  BY <1>1
<1>3. sub.turn # NoTurn /\ sub.turn \in Turns
  BY <1>2 DEF CoreOK, SubmissionType, MaybeTurn
<1>4. /\ core' = [core EXCEPT !.run = run, !.queue = Tail(@), !.closing = IF sub.cut THEN "cut" ELSE "no"]
      /\ channel' = channel \o <<Event("started", sub.turn, sub.ids, "none")>>
  BY DEF CoreStart, Emit
<1> HIDE DEF sub
<1>5. run \in SubmissionType /\ run.turn = sub.turn /\ run.ids = sub.ids
  BY <1>2 DEF SubmissionType
<1>6. run # NoRun
  BY <1>3, <1>5 DEF NoRun, Submission
<1> DEFINE tail == Tail(core.queue)
           closing == IF sub.cut THEN "cut" ELSE "no"
<1> HIDE DEF run
<1>7. closing \in {"no", "cut"} \cup Outcomes /\ tail \in Seq(SubmissionType)
  BY <1>2
<1> HIDE DEF tail, closing
<1>8. core' = [core EXCEPT !.run = run, !.queue = tail, !.closing = closing]
  BY <1>4 DEF tail, closing
<1>9. /\ core' \in CoreType /\ core'.queue = tail /\ core'.run = run
      /\ core'.open = core.open /\ core'.mail = core.mail /\ core'.known = core.known
  BY <1>1, <1>5, <1>7, <1>8 DEF CoreType
<1> QED BY <1>1, <1>2, <1>3, <1>4, <1>5, <1>6, <1>9 DEF tail

LEMMA EmitOK ==
    ASSUME EventsOK, NEW es \in Seq(EventType), Emit(es), UNCHANGED hand
    PROVE  EventsOK'
BY DEF EventsOK, Emit

LEMMA CoreStartTypes ==
    ASSUME Types, CoreStart
    PROVE  Types'
<1>1. /\ core' \in CoreType /\ core'.queue = Tail(core.queue) /\ core'.run \in SubmissionType
      /\ core'.run # NoRun /\ core'.run.turn \in Turns
      /\ channel' = channel \o <<Event("started", core'.run.turn, core'.run.ids, "none")>>
      /\ core \in CoreType /\ 1 \in DOMAIN core.queue
  BY CoreStartEffect DEF Types, CoreOK
<1>2. core'.run.ids \in SUBSET Names /\ "none" \in Hows
  BY <1>1 DEF SubmissionType, Hows
<1>3. Event("started", core'.run.turn, core'.run.ids, "none") \in EventType
  BY <1>1, <1>2, EventIs
<1> DEFINE es == <<Event("started", core'.run.turn, core'.run.ids, "none")>>
<1>7. es \in Seq(EventType) /\ channel' = channel \o es
  BY <1>1, <1>3
<1> HIDE DEF es
<1>4. EventsOK'
  BY <1>7, EmitOK DEF Types, CoreStart, Emit
<1>5. \A i \in DOMAIN core'.queue : core'.queue[i].turn # NoTurn
  <2>1. core.queue \in Seq(SubmissionType) /\ core.queue # <<>>
    BY <1>1 DEF CoreType
  <2>2. \A i \in DOMAIN Tail(core.queue) :
           i + 1 \in DOMAIN core.queue /\ Tail(core.queue)[i] = core.queue[i + 1]
    BY <2>1
  <2> QED BY <1>1, <2>2 DEF Types, CoreOK
<1>6. CoreOK'
  BY <1>1, <1>5, NoTurn \notin Turns DEF CoreOK, NoTurn, Turns
<1> QED BY <1>4, <1>6 DEF CoreStart, Types, SessionOK, ThreadsOK

LEMMA CoreTakeEffect ==
    ASSUME CoreOK, CoreTake
    PROVE  /\ core' \in CoreType /\ core'.queue = core.queue /\ core'.run = core.run
           /\ core'.closing = core.closing /\ core'.open = core.open
           /\ core'.mail = {} /\ core'.known = core.known
BY DEF CoreOK, CoreType, CoreTake

LEMMA CoreTakeTypes ==
    ASSUME Types, CoreTake
    PROVE  Types'
<1>1. CoreOK'
  BY CoreTakeEffect DEF Types, CoreOK
<1>2. core.mail \in SUBSET Names
  BY DEF Types, CoreOK, CoreType
<1>3. hist' \in HistType
  BY <1>2, HistOK DEF CoreTake, Types
<1> QED BY <1>1, <1>3 DEF CoreTake, Types, SessionOK, ThreadsOK, EventsOK

LEMMA CoreCloseEffect ==
    ASSUME CoreOK, NEW how \in Outcomes, CoreClose(how)
    PROVE  LET projected == Event("projected", core.run.turn, {}, how)
               unconsumed == Event("unconsumed", core.run.turn, core.mail, how)
           IN  /\ core' \in CoreType /\ core'.queue = core.queue /\ core'.run = core.run
               /\ core'.closing = how /\ core'.open = FALSE
               /\ core'.mail = {} /\ core'.known = core.known
               /\ core.run # NoRun /\ core.run.turn \in Turns /\ core.mail \in SUBSET Names
               /\ projected \in EventType /\ unconsumed \in EventType
               /\ channel' = channel \o (<<projected>> \o (IF core.mail = {} THEN <<>> ELSE <<unconsumed>>))
<1>1. /\ core' \in CoreType /\ core'.queue = core.queue /\ core'.run = core.run
      /\ core'.closing = how /\ core'.open = FALSE
      /\ core'.mail = {} /\ core'.known = core.known
  BY DEF CoreOK, CoreType, CoreClose
<1>2. core.run # NoRun /\ core.run.turn \in Turns /\ core.mail \in SUBSET Names /\ how \in Hows
  BY DEF CoreOK, CoreType, CoreClose, SubmissionType, MaybeTurn, Hows
<1>3. /\ Event("projected", core.run.turn, {}, how) \in EventType
      /\ Event("unconsumed", core.run.turn, core.mail, how) \in EventType
  BY <1>2, EventIs
<1> QED BY <1>1, <1>2, <1>3 DEF CoreClose, Emit

LEMMA CoreCloseTypes ==
    ASSUME Types, NEW how \in Outcomes, CoreClose(how)
    PROVE  Types'
<1> DEFINE projected == Event("projected", core.run.turn, {}, how)
           unconsumed == Event("unconsumed", core.run.turn, core.mail, how)
           es == <<projected>> \o (IF core.mail = {} THEN <<>> ELSE <<unconsumed>>)
<1>1. /\ core' \in CoreType /\ core'.queue = core.queue /\ core'.run = core.run
      /\ core'.closing = how /\ core.run # NoRun /\ projected \in EventType
      /\ unconsumed \in EventType /\ channel' = channel \o es
  BY CoreCloseEffect DEF Types
<1> HIDE DEF projected, unconsumed
<1>2. es \in Seq(EventType)
  BY <1>1
<1> HIDE DEF es
<1>3. EventsOK'
  BY <1>1, <1>2, EmitOK DEF Types, CoreClose, Emit
<1>4. CoreOK'
  BY <1>1 DEF Types, CoreOK
<1> QED BY <1>3, <1>4 DEF CoreClose, Types, SessionOK, ThreadsOK

LEMMA NoRunType == NoRun \in SubmissionType
BY DEF NoRun, Submission, SubmissionType, MaybeTurn

LEMMA CoreFinishEffect ==
    ASSUME CoreOK, CoreFinish
    PROVE  /\ core' \in CoreType /\ core'.queue = core.queue /\ core'.run = NoRun
           /\ core'.closing = "no" /\ core'.open = core.open
           /\ core'.mail = core.mail /\ core'.known = core.known
           /\ core.run # NoRun /\ core.run.turn \in Turns
           /\ Event("finished", core.run.turn, {}, core.closing) \in EventType
           /\ channel' = channel \o <<Event("finished", core.run.turn, {}, core.closing)>>
<1>1. /\ core' \in CoreType /\ core'.queue = core.queue /\ core'.run = NoRun
      /\ core'.closing = "no" /\ core'.open = core.open
      /\ core'.mail = core.mail /\ core'.known = core.known
  BY NoRunType DEF CoreOK, CoreType, CoreFinish
<1>2. core.run # NoRun /\ core.run.turn \in Turns /\ core.closing \in Hows
  BY DEF CoreOK, CoreType, CoreFinish, SubmissionType, MaybeTurn, Hows
<1>3. Event("finished", core.run.turn, {}, core.closing) \in EventType
  BY <1>2, EventIs
<1> QED BY <1>1, <1>2, <1>3 DEF CoreFinish, Emit

LEMMA CoreFinishTypes ==
    ASSUME Types, CoreFinish
    PROVE  Types'
<1> DEFINE e == Event("finished", core.run.turn, {}, core.closing)
<1>1. /\ core' \in CoreType /\ core'.queue = core.queue /\ core'.run = NoRun
      /\ core'.closing = "no" /\ e \in EventType /\ channel' = channel \o <<e>>
  BY CoreFinishEffect DEF Types
<1> HIDE DEF e
<1> DEFINE es == <<e>>
<1>4. es \in Seq(EventType) /\ channel' = channel \o es
  BY <1>1
<1> HIDE DEF es
<1>2. EventsOK'
  BY <1>4, EmitOK DEF Types, CoreFinish, Emit
<1>3. CoreOK'
  BY <1>1 DEF Types, CoreOK
<1> QED BY <1>2, <1>3 DEF CoreFinish, Types, SessionOK, ThreadsOK

LEMMA DrainEffect ==
    ASSUME EventsOK, hist \in HistType, NEW h \in Handlers, Drain(h)
    PROVE  /\ hand[h] = <<>> /\ channel # <<>> /\ channel' = <<>>
           /\ hand'[h] = channel /\ \A g \in Handlers : g # h => hand'[g] = hand[g]
           /\ EventsOK' /\ hist' \in HistType
           /\ hist' = [hist EXCEPT !.elder = hist'.elder]
<1>1. /\ hand[h] = <<>> /\ channel # <<>> /\ channel' = <<>>
      /\ hand'[h] = channel /\ \A g \in Handlers : g # h => hand'[g] = hand[g]
      /\ EventsOK'
  BY DEF EventsOK, Drain
<1> DEFINE elder == IF \E g \in Handlers : hand[g] # <<>> THEN hist.elder ELSE h
<1>2. hist' = [hist EXCEPT !.elder = elder]
  BY DEF Drain
<1>3. elder \in Handlers
  BY DEF HistType
<1> HIDE DEF elder
<1>4. hist' \in HistType /\ hist'.elder = elder
  BY <1>2, <1>3 DEF HistType
<1> QED BY <1>1, <1>2, <1>4

LEMMA DrainTypes ==
    ASSUME Types, NEW h \in Handlers, Drain(h)
    PROVE  Types'
BY DrainEffect DEF Types, Drain, SessionOK, ThreadsOK, CoreOK

(* What handling an event leaves behind, whatever the event. *)
LEMMA HandleEffect ==
    ASSUME EventsOK, hist \in HistType, NEW h \in Handlers, NEW kind, Handle(h, kind)
    PROVE  /\ hand[h] # <<>> /\ 1 \in DOMAIN hand[h] /\ Head(hand[h]) = hand[h][1]
           /\ Head(hand[h]) \in EventType /\ Head(hand[h]).kind = kind
           /\ channel' = channel /\ hand'[h] = Tail(hand[h])
           /\ \A g \in Handlers : g # h => hand'[g] = hand[g]
           /\ EventsOK' /\ hist' \in HistType
           /\ hist'.last = IF kind = "finished" THEN Head(hand[h]).how ELSE hist.last
           /\ hist'.made = hist.made /\ hist'.sent = hist.sent /\ hist'.faults = hist.faults
           /\ hist'.undone = hist.undone /\ hist'.hurried = hist.hurried
           /\ hist'.stranded = hist.stranded /\ hist'.accepted = hist.accepted
           /\ hist'.reached = hist.reached
<1>1. hand[h] \in Seq(EventType) /\ hand[h] # <<>> /\ Head(hand[h]).kind = kind
  BY DEF EventsOK, Handle
<1>2. /\ 1 \in DOMAIN hand[h] /\ Head(hand[h]) = hand[h][1] /\ Head(hand[h]) \in EventType
      /\ Tail(hand[h]) \in Seq(EventType)
  BY <1>1
<1>3. /\ channel' = channel /\ hand'[h] = Tail(hand[h])
      /\ \A g \in Handlers : g # h => hand'[g] = hand[g]
      /\ EventsOK'
  BY <1>2 DEF EventsOK, Handle
<1> DEFINE e == Head(hand[h])
           misplaced == IF kind = "finished" /\ session.active # e.turn
                        THEN hist.misplaced \cup {e.turn} ELSE hist.misplaced
           last == IF kind = "finished" THEN e.how ELSE hist.last
           overtaken == hist.overtaken \/ (hand[Other(h)] # <<>> /\ hist.elder = Other(h))
           elder == IF Tail(hand[h]) = <<>> /\ hand[Other(h)] # <<>> THEN Other(h) ELSE hist.elder
<1>4. hist' = [hist EXCEPT !.misplaced = misplaced, !.last = last, !.overtaken = overtaken,
                           !.elder = elder]
  BY DEF Handle
<1>5. e.turn \in Turns /\ e.how \in Hows /\ Other(h) \in Handlers
  BY <1>2 DEF EventType, Other, Handlers
<1>6. misplaced \in SUBSET Turns /\ last \in Hows /\ elder \in Handlers
  BY <1>5 DEF HistType
<1>7. overtaken \in BOOLEAN
  BY DEF HistType
<1>8. hist \in HistType
  OBVIOUS
<1> HIDE DEF e, misplaced, last, overtaken, elder
<1>9. /\ hist' \in HistType /\ hist'.last = last
      /\ hist'.made = hist.made /\ hist'.sent = hist.sent /\ hist'.faults = hist.faults
      /\ hist'.undone = hist.undone /\ hist'.hurried = hist.hurried
      /\ hist'.stranded = hist.stranded /\ hist'.accepted = hist.accepted
      /\ hist'.reached = hist.reached
  BY <1>4, <1>6, <1>7, <1>8 DEF HistType
<1> QED BY <1>1, <1>2, <1>3, <1>9 DEF last, e

(* Core's start activates the turn it names, or nothing: either a turn the *)
(* list has, or the one of the queued message, which leaves the queue.     *)
ActivatesTurn(r, s, t) ==
  /\ s.turns[t] # "none" /\ r.queue = s.queue /\ r.dispatching = s.dispatching
  /\ r.turns = [s.turns EXCEPT ![t] = IF @ = "done" THEN @ ELSE "working"]
  /\ r.entries = s.entries

ActivatesQueued(r, s, t, ids) ==
  /\ IsQueued(s, ids) /\ t = Queued(s, ids).turn /\ s.dispatching = t
  /\ r.queue = RemoveAt(s.queue, Place(s, ids)) /\ r.dispatching = NoTurn
  /\ r.turns = [s.turns EXCEPT ![t] = "working"]
  /\ r.entries = [s.entries EXCEPT ![t] = ids]

Activating(n, p, t, status) ==
  [n EXCEPT !.pending = p, !.active = t, !.turns[t] = status]

LEMMA ActivatingEffect ==
    ASSUME NEW n \in SessionType, NEW t \in Turns, NEW status \in Statuses, NEW p \in MaybeTurn
    PROVE  LET r == Activating(n, p, t, status)
           IN  /\ r \in SessionType /\ r.unconsumed = n.unconsumed /\ r.queue = n.queue
               /\ r.dispatching = n.dispatching /\ r.active = t /\ r.pending = p
               /\ r.cancelling = n.cancelling /\ r.asking = n.asking /\ r.askedFor = n.askedFor
               /\ r.entries = n.entries /\ r.turns = [n.turns EXCEPT ![t] = status]
BY DEF Activating, SessionType, Statuses, MaybeTurn

LEMMA ActivatedEffect ==
    ASSUME NEW s \in SessionType, NEW ids \in SUBSET Names
    PROVE  LET r == Activated(s, ids)
           IN  \/ r = s
               \/ \E t \in Turns :
                    /\ t = StartedTurn(s, ids)
                    /\ r \in SessionType /\ r.unconsumed = s.unconsumed
                    /\ r.active = t /\ r.pending = (IF s.pending = t THEN NoTurn ELSE s.pending)
                    /\ r.cancelling = s.cancelling /\ r.asking = s.asking /\ r.askedFor = s.askedFor
                    /\ \/ ~IsQueued(s, ids) /\ ActivatesTurn(r, s, t)
                       \/ ActivatesQueued(r, s, t, ids)
<1> DEFINE t == StartedTurn(s, ids)
           m == IF IsQueued(s, ids) THEN Materialized(s, ids) ELSE s
           r == Activated(s, ids)
<1>1. CASE t = NoTurn
  BY <1>1 DEF Activated
<1>2. CASE t # NoTurn /\ m.turns[t] = "none"
  BY <1>2 DEF Activated
<1>3. CASE t # NoTurn /\ m.turns[t] # "none"
  <2>1. r = [m EXCEPT !.pending = IF @ = t THEN NoTurn ELSE @, !.active = t,
                      !.turns[t] = IF @ = "done" THEN @ ELSE "working"]
    BY <1>3 DEF Activated
  <2>2. t \in MaybeTurn
    <3>1. Current([s EXCEPT !.active = s.pending, !.pending = s.active]) \in MaybeTurn
      BY DEF Current, SessionType
    <3>2. s.dispatching \in MaybeTurn /\ s.pending \in MaybeTurn /\ NoTurn \in MaybeTurn
      BY DEF SessionType, MaybeTurn
    <3> QED BY <3>1, <3>2 DEF StartedTurn
  <2>3. t \in Turns
    BY <1>3, <2>2 DEF MaybeTurn
  <2>5. CASE ~IsQueued(s, ids)
    <3> DEFINE status == IF s.turns[t] = "done" THEN s.turns[t] ELSE "working"
               p == IF s.pending = t THEN NoTurn ELSE s.pending
    <3>1. m = s /\ r = Activating(s, p, t, status)
      BY <2>1, <2>5 DEF Activating
    <3>2. status \in Statuses /\ p \in MaybeTurn
      BY <2>3 DEF Statuses, SessionType, MaybeTurn
    <3> HIDE DEF status, p, r, t, m
    <3>3. /\ r \in SessionType /\ r.unconsumed = s.unconsumed /\ r.queue = s.queue
          /\ r.dispatching = s.dispatching /\ r.active = t /\ r.pending = p
          /\ r.cancelling = s.cancelling /\ r.asking = s.asking /\ r.askedFor = s.askedFor
          /\ r.entries = s.entries /\ r.turns = [s.turns EXCEPT ![t] = status]
      BY <2>3, <3>1, <3>2, ActivatingEffect
    <3>4. ActivatesTurn(r, s, t)
      <4>1. r.turns = [s.turns EXCEPT ![t] = IF @ = "done" THEN @ ELSE "working"]
        BY <3>3 DEF status
      <4>2. s.turns[t] # "none"
        BY <1>3, <3>1
      <4> QED BY <3>3, <4>1, <4>2 DEF ActivatesTurn
    <3> QED BY <2>3, <2>5, <3>3, <3>4 DEF p, r, t
  <2>6. CASE IsQueued(s, ids)
    <3> DEFINE u == Unqueued(s, ids)
               q == Queued(s, ids)
    <3>1. /\ u \in SessionType /\ u.dispatching = s.dispatching /\ u.unconsumed = s.unconsumed
          /\ u.pending = s.pending /\ u.active = s.active /\ u.cancelling = s.cancelling
          /\ u.asking = s.asking /\ u.askedFor = s.askedFor
          /\ u.turns = s.turns /\ u.entries = s.entries
          /\ u.queue = RemoveAt(s.queue, Place(s, ids))
      BY <2>6, UnqueuedEffect
    <3>2. s.dispatching = q.turn /\ t = q.turn
      <4>1. q.id \in ids
        BY <2>6, QueuedItem
      <4> QED BY <1>3, <2>6, <4>1 DEF StartedTurn
    <3>3. m = [u EXCEPT !.dispatching = NoTurn, !.turns[q.turn] = "pending", !.entries[q.turn] = ids]
      BY <2>6 DEF Materialized
    <3> HIDE DEF u, q, t, m
    <3>4. /\ m \in SessionType /\ m.unconsumed = u.unconsumed /\ m.queue = u.queue
          /\ m.dispatching = NoTurn /\ m.active = u.active /\ m.pending = u.pending
          /\ m.cancelling = u.cancelling /\ m.asking = u.asking /\ m.askedFor = u.askedFor
          /\ m.entries = [u.entries EXCEPT ![q.turn] = ids]
          /\ m.turns = [u.turns EXCEPT ![q.turn] = "pending"]
      BY <2>3, <3>1, <3>2, <3>3 DEF SessionType, MaybeTurn
    <3>5. m.turns[t] = "pending"
      BY <2>3, <3>1, <3>2, <3>4 DEF SessionType
    <3> DEFINE p == IF m.pending = t THEN NoTurn ELSE m.pending
    <3>6. p \in MaybeTurn /\ "working" \in Statuses
      BY <3>4 DEF SessionType, MaybeTurn, Statuses
    <3> HIDE DEF r
    <3>7. r = Activating(m, p, t, "working")
      BY <2>1, <3>5 DEF p, Activating
    <3> HIDE DEF p
    <3>8. /\ r \in SessionType /\ r.unconsumed = m.unconsumed /\ r.queue = m.queue
          /\ r.dispatching = m.dispatching /\ r.active = t /\ r.pending = p
          /\ r.cancelling = m.cancelling /\ r.asking = m.asking /\ r.askedFor = m.askedFor
          /\ r.entries = m.entries /\ r.turns = [m.turns EXCEPT ![t] = "working"]
      BY <2>3, <3>4, <3>6, <3>7, ActivatingEffect
    <3>9. r.turns = [s.turns EXCEPT ![t] = "working"]
      BY <3>1, <3>2, <3>4, <3>8 DEF SessionType
    <3>10. ActivatesQueued(r, s, t, ids)
      BY <2>6, <3>1, <3>2, <3>4, <3>8, <3>9 DEF ActivatesQueued, q
    <3> QED BY <2>3, <3>1, <3>4, <3>8, <3>10 DEF p, r, t
  <2> QED BY <2>5, <2>6
<1> QED BY <1>1, <1>2, <1>3

LEMMA ActivatedOK ==
    ASSUME NEW s \in SessionType, Reserved(s), NEW ids \in SUBSET Names
    PROVE  Activated(s, ids) \in SessionType /\ Reserved(Activated(s, ids))
<1> DEFINE r == Activated(s, ids)
<1> HIDE DEF r
<1>1. CASE r = s
  BY <1>1 DEF r
<1>2. CASE r # s
  <2>1. PICK t \in Turns :
          /\ r \in SessionType
          /\ \/ ~IsQueued(s, ids) /\ ActivatesTurn(r, s, t)
             \/ ActivatesQueued(r, s, t, ids)
    BY <1>2, ActivatedEffect DEF r
  <2> QED BY <2>1 DEF Reserved, ActivatesTurn, ActivatesQueued, r
<1> QED BY <1>1, <1>2

LEMMA AtHandler ==
    ASSUME ThreadsOK, NEW h \in Handlers
    PROVE  /\ h \in Threads
           /\ \A x \in {"dispatch", "resubmit"} :
                Handling(h) => Fits(h, x, pc[h].turn)
<1>1. h \in Threads /\ ThreadOK(h, pc[h])
  BY ThreadsApart DEF ThreadsOK
<1>2. Handling(h) => IF h = "bridge" THEN pc[h].at = "idle" ELSE pc[h].at = "settle"
  BY DEF Handling, At
<1> QED BY <1>1, <1>2
     DEF Fits, ThreadOK, StepsOf, Steps, HandlerSteps, HandoffSteps, TaskSteps, CarryingSteps, Handlers

LEMMA HandleStartedTypes ==
    ASSUME Types, NEW h \in Handlers, HandleStarted(h)
    PROVE  Types'
<1>1. EventsOK' /\ hist' \in HistType /\ Head(hand[h]) \in EventType
  BY HandleEffect DEF Types, HandleStarted
<1>2. SessionOK'
  <2>1. Head(hand[h]).ids \in SUBSET Names
    BY <1>1 DEF EventType
  <2> QED BY <2>1, ActivatedOK DEF Types, SessionOK, HandleStarted
<1> QED BY <1>1, <1>2 DEF HandleStarted, Handle, Types, ThreadsOK, CoreOK

LEMMA HandleProjectedTypes ==
    ASSUME Types, NEW h \in Handlers, HandleProjected(h)
    PROVE  Types'
<1>1. EventsOK' /\ hist' \in HistType
  BY HandleEffect DEF Types, HandleProjected
<1>2. ThreadsOK /\ session \in SessionType /\ Reserved(session) /\ Handling(h) /\ Go(h, "dispatch")
  BY DEF Types, SessionOK, HandleProjected, Handle
<1>3. ThreadsOK'
  BY <1>2, AtHandler, GoOK
<1>4. /\ session' \in SessionType /\ session'.queue = session.queue
      /\ session'.dispatching = session.dispatching
  BY <1>2 DEF HandleProjected, SessionType
<1> QED BY <1>1, <1>2, <1>3, <1>4, SameQueueOK DEF HandleProjected, Handle, Types, SessionOK, CoreOK

LEMMA HandleUnconsumedTypes ==
    ASSUME Types, NEW h \in Handlers, HandleUnconsumed(h)
    PROVE  Types'
<1>1. EventsOK' /\ hist' \in HistType /\ Head(hand[h]).ids \in SUBSET Names
  BY HandleEffect DEF Types, HandleUnconsumed, EventType
<1>2. session \in SessionType /\ Reserved(session)
  BY DEF Types, SessionOK
<1>3. /\ session' \in SessionType /\ session'.queue = session.queue
      /\ session'.dispatching = session.dispatching
  BY <1>1, <1>2 DEF HandleUnconsumed, SessionType
<1> QED BY <1>1, <1>2, <1>3, SameQueueOK DEF HandleUnconsumed, Handle, Types, SessionOK, CoreOK, ThreadsOK

LEMMA HandleFinishedTypes ==
    ASSUME Types, NEW h \in Handlers, HandleFinished(h)
    PROVE  Types'
<1>1. EventsOK' /\ hist' \in HistType
  BY HandleEffect DEF Types, HandleFinished
<1>2. /\ ThreadsOK /\ session \in SessionType /\ Reserved(session) /\ Handling(h)
      /\ Go(h, Then(Head(hand[h]).how)) /\ Then(Head(hand[h]).how) \in {"dispatch", "resubmit"}
  BY DEF Types, SessionOK, HandleFinished, Handle, Then
<1>3. ThreadsOK'
  BY <1>2, AtHandler, GoOK
<1>4. session' \in SessionType /\ SameQueue(session', session)
  BY <1>2, FinishedEffect DEF HandleFinished
<1>5. SessionOK'
  BY <1>2, <1>4, SameQueueOK DEF SessionOK, SameQueue
<1> QED BY <1>1, <1>3, <1>5 DEF HandleFinished, Handle, Types, CoreOK

LEMMA AtHandoff ==
    ASSUME ThreadsOK, NEW h \in Handlers, pc[h].at \in HandoffSteps
    PROVE  /\ h \in Threads
           /\ \A x \in HandoffSteps \cup {"dispatch"}, t \in Turns : Fits(h, x, t)
           /\ \A x \in {"dispatch", "handoff"} : Fits(h, x, NoTurn)
<1>1. h \in Threads /\ ThreadOK(h, pc[h])
  BY ThreadsApart DEF ThreadsOK
<1> QED BY <1>1
     DEF Fits, ThreadOK, StepsOf, Steps, HandlerSteps, HandoffSteps, TaskSteps, CarryingSteps, Handlers,
         Turns, NoTurn

LEMMA ResubmitTypes ==
    ASSUME Types, NEW h \in Handlers, Resubmit(h)
    PROVE  Types'
<1>1. ThreadsOK /\ session \in SessionType /\ Reserved(session) /\ pc[h].at = "resubmit"
  BY DEF Types, SessionOK, Resubmit, At
<1>2. /\ session' \in SessionType /\ session'.queue = session.queue
      /\ session'.dispatching = session.dispatching /\ session.unconsumed \in SUBSET Names
  BY <1>1 DEF Resubmit, SessionType
<1> DEFINE x == IF session.unconsumed = {} THEN "dispatch" ELSE "handoff"
<1>3. Fits(h, x, NoTurn) /\ h \in Threads
  BY <1>1, AtHandoff DEF HandoffSteps
<1>4. Carry(h, x, NoTurn, session.unconsumed)
  BY DEF Resubmit
<1> HIDE DEF x
<1>5. ThreadsOK'
  BY <1>1, <1>2, <1>3, <1>4, CarryOK DEF MaybeTurn
<1> QED BY <1>1, <1>2, <1>5, SameQueueOK DEF Resubmit, Types, SessionOK, CoreOK, EventsOK

LEMMA HandoffTypes ==
    ASSUME Types, NEW h \in Handlers, Handoff(h)
    PROVE  Types'
<1>1. /\ ThreadsOK /\ SessionOK /\ session \in SessionType /\ pc[h].at = "handoff" /\ h \in Threads
      /\ hist \in HistType
  BY ThreadsApart DEF Types, SessionOK, Handoff, At
<1>2. pc[h].ids \in SUBSET Names
  BY <1>1, ThreadFields
<1>3. CASE session' = Retained(session, pc[h].ids) /\ Return(h) /\ hist' = hist
  <2>1. /\ session' \in SessionType /\ session'.queue = session.queue
        /\ session'.dispatching = session.dispatching
    BY <1>1, <1>2, <1>3, RetainedEffect
  <2>2. SessionOK'
    BY <1>1, <2>1, SameQueueOK DEF SessionOK
  <2> QED BY <1>1, <1>3, <2>2, ReturnOK DEF Handoff, Types, CoreOK, EventsOK
<1>4. CASE /\ CanMake /\ hist' = Made(hist) /\ session' = NewTurn(session, Fresh, pc[h].ids)
           /\ Save(h, "save_handoff", Fresh, pc[h].ids)
  <2>1. Fresh \in Turns /\ hist' \in HistType
    BY <1>1, <1>4, FreshOK
  <2>2. session' \in SessionType /\ SameQueue(session', session)
    BY <1>1, <1>2, <1>4, <2>1, NewTurnEffect
  <2>3. SessionOK'
    BY <1>1, <2>2, SameQueueOK DEF SessionOK, SameQueue
  <2>4. Fits(h, "save_handoff", Fresh)
    BY <1>1, <2>1, AtHandoff DEF HandoffSteps
  <2>5. ThreadsOK'
    BY <1>1, <1>2, <1>4, <2>1, <2>2, <2>4, SaveOK DEF MaybeTurn
  <2> QED BY <2>1, <2>3, <2>5 DEF Handoff, Types, CoreOK, EventsOK
<1> QED BY <1>3, <1>4 DEF Handoff

LEMMA HandoffFailsTypes ==
    ASSUME Types, NEW h \in Handlers, HandoffFails(h), UNCHANGED <<channel, hand>>
    PROVE  Types'
<1>1. ThreadsOK /\ h \in Threads /\ hist \in HistType
  BY ThreadsApart DEF Types
<1>2. pc[h].ids \in SUBSET Names /\ pc[h].image \in SessionType /\ Reserved(pc[h].image)
  BY <1>1, ThreadFields
<1>3. /\ session' \in SessionType /\ session'.queue = pc[h].image.queue
      /\ session'.dispatching = pc[h].image.dispatching
  BY <1>2, RetainedEffect DEF HandoffFails
<1>4. SessionOK'
  BY <1>2, <1>3, SameQueueOK DEF SessionOK
<1>5. hist' \in HistType
  <2>1. hist.undone \in BOOLEAN
    BY <1>1 DEF HistType
  <2>2. (hist.undone \/ session # pc[h].left) \in BOOLEAN
    BY <2>1
  <2>3. hist' = [Failed(hist) EXCEPT !.undone = hist.undone \/ session # pc[h].left]
    BY DEF HandoffFails, Failed
  <2> QED BY <1>1, <2>2, <2>3, HistOK
<1>6. ThreadsOK'
  BY <1>1, ReturnOK DEF HandoffFails
<1> QED BY <1>4, <1>5, <1>6 DEF HandoffFails, Types, CoreOK, EventsOK

LEMMA HandoffSavedTypes ==
    ASSUME Types, NEW h \in Handlers, HandoffSaved(h)
    PROVE  Types'
<1>1. ThreadsOK /\ pc[h].at = "save_handoff" /\ h \in Threads
  BY ThreadsApart DEF Types, HandoffSaved, At
<1>2. CASE Go(h, "send_handoff") /\ UNCHANGED <<session, core, hist>>
  <2>1. pc[h].turn \in Turns
    BY <1>1, ThreadFields DEF CarryingSteps
  <2>2. Fits(h, "send_handoff", pc[h].turn)
    BY <1>1, <2>1, AtHandoff DEF HandoffSteps
  <2>3. ThreadsOK'
    BY <1>1, <1>2, <2>2, GoOK
  <2> QED BY <1>2, <2>3 DEF HandoffSaved, Types, SessionOK, CoreOK, EventsOK
<1>3. CASE HandoffFails(h)
  BY <1>3, HandoffFailsTypes DEF HandoffSaved
<1> QED BY <1>2, <1>3 DEF HandoffSaved

LEMMA SendHandoffTypes ==
    ASSUME Types, NEW h \in Handlers, SendHandoff(h)
    PROVE  Types'
<1>1. /\ ThreadsOK /\ pc[h].at = "send_handoff" /\ h \in Threads /\ hist \in HistType
      /\ CoreOK /\ SessionOK /\ session \in SessionType /\ UNCHANGED <<channel, hand>>
  BY ThreadsApart DEF Types, SendHandoff, At, SessionOK
<1>2. pc[h].turn \in Turns /\ pc[h].ids \in SUBSET Names
  BY <1>1, ThreadFields DEF CarryingSteps
<1>3. CASE SubmitToCore(pc[h].turn, pc[h].ids, FALSE) /\ Go(h, "dispatch") /\ UNCHANGED session
  <2>1. CoreOK' /\ hist' \in HistType
    BY <1>1, <1>2, <1>3, SubmissionOK
  <2>2. Fits(h, "dispatch", pc[h].turn)
    BY <1>1, <1>2, AtHandoff DEF HandoffSteps
  <2>3. ThreadsOK'
    BY <1>1, <1>3, <2>2, GoOK
  <2> QED BY <1>1, <1>3, <2>1, <2>3 DEF Types, SessionOK, EventsOK
<1>4. CASE HandoffFails(h)
  BY <1>1, <1>4, HandoffFailsTypes
<1>5. CASE /\ Strand(pc[h].turn) /\ Return(h) /\ UNCHANGED core
           /\ session' = Retained(session, pc[h].ids)
  <2>1. /\ session' \in SessionType /\ session'.queue = session.queue
        /\ session'.dispatching = session.dispatching
    BY <1>1, <1>2, <1>5, RetainedEffect
  <2>2. SessionOK'
    BY <1>1, <2>1, SameQueueOK DEF SessionOK
  <2>3. hist' \in HistType
    BY <1>1, <1>2, <1>5, HistOK DEF Strand
  <2> QED BY <1>1, <1>5, <2>2, <2>3, ReturnOK DEF Types, CoreOK, EventsOK
<1> QED BY <1>3, <1>4, <1>5 DEF SendHandoff

LEMMA TypesInit == Init => Types
<1> SUFFICES ASSUME Init PROVE Types
  OBVIOUS
<1>1. SessionOK
  <2>1. PICK ask \in BOOLEAN : session = NewSession(ask)
    BY DEF Init
  <2>2. [t \in Turns |-> "none"] \in [Turns -> {"none", "pending", "working", "done"}]
    OBVIOUS
  <2>3. [t \in Turns |-> {}] \in [Turns -> SUBSET Names]
    OBVIOUS
  <2>4. <<>> \in Seq([id : Names, turn : Turns, afterStop : BOOLEAN])
    OBVIOUS
  <2> QED BY <2>1, <2>2, <2>3, <2>4 DEF NewSession, SessionType, MaybeTurn, SessionOK, Reserved
<1>2. CoreOK
  BY NoRunType DEF Init, CoreOK, CoreType
<1>3. EventsOK
  BY DEF Init, EventsOK
<1>4. ThreadsOK
  <2>1. pc = [p \in Threads |-> Resting("idle", NoCommand)]
    BY DEF Init
  <2>2. Resting("idle", NoCommand) \in ThreadType
    BY RestingType
  <2>3. \A p \in Threads : ThreadOK(p, Resting("idle", NoCommand))
    BY NoImageType
       DEF ThreadOK, Reserved, StepsOf, Steps, HandlerSteps, HandoffSteps, TaskSteps, CarryingSteps,
           Says, Resting
  <2> QED BY <2>1, <2>2, <2>3 DEF ThreadsOK
<1>5. hist \in HistType
  BY HostAssumption DEF Init, HistType, Handlers, Hows
<1> QED BY <1>1, <1>2, <1>3, <1>4, <1>5 DEF Types

LEMMA TypesStep == Types /\ [Next]_vars => Types'
<1> SUFFICES ASSUME Types, [Next]_vars PROVE Types'
  OBVIOUS
<1>1. CASE UNCHANGED vars
  BY <1>1 DEF vars, Types, SessionOK, CoreOK, EventsOK, ThreadsOK
<1>2. CASE Next
  BY <1>2, DispatchNextTypes, SendQueuedTypes, SubmitTypes, FireTypes, SupplementTypes, StartTypes,
     TurnSavedTypes, AskTypes, SendTypes, ResolveTypes, ResolveSendTypes, NoteTypes, NoteSavedTypes,
     EnqueueTypes, QueueSavedTypes, AppendEntryTypes, EntrySavedTypes, SettledTypes, SendNowTypes,
     DispatchNowTypes, SupplementNowTypes, NowSavedTypes, CancelTypes, StopSavedTypes, StopCoreTypes,
     CoreStartTypes, CoreTakeTypes, CoreCloseTypes, CoreFinishTypes, DrainTypes, HandleStartedTypes,
     HandleProjectedTypes, HandleUnconsumedTypes, HandleFinishedTypes, ResubmitTypes, HandoffTypes,
     HandoffSavedTypes, SendHandoffTypes, Zenon DEF Next
<1> QED BY <1>1, <1>2

(* In every reachable state the records have their shapes. *)
THEOREM SessionTypes == Spec => []Types
<1>1. Init => Types
  BY TypesInit
<1>2. Types /\ [Next]_vars => Types'
  BY TypesStep
<1> QED BY <1>1, <1>2, PTL DEF Spec


-----------------------------------------------------------------------------
(* What is underway. *)

(* A thread at these steps may put the session back as it was.             *)
Restores(p) == pc[p].at \in SavingSteps \cup {"send_handoff"}

LEMMA ElementsOfConcat ==
    ASSUME NEW S, NEW s \in Seq(S), NEW t \in Seq(S)
    PROVE  ToSet(s \o t) = ToSet(s) \cup ToSet(t)
<1> DEFINE c == s \o t
<1>1. \A i \in DOMAIN s : i \in DOMAIN c /\ c[i] = s[i]
  OBVIOUS
<1>2. \A i \in DOMAIN t : i + Len(s) \in DOMAIN c /\ c[i + Len(s)] = t[i]
  OBVIOUS
<1>3. \A i \in DOMAIN c : \/ i \in DOMAIN s /\ c[i] = s[i]
                          \/ i - Len(s) \in DOMAIN t /\ c[i] = t[i - Len(s)]
  OBVIOUS
<1> HIDE DEF c
<1>4. \A i \in DOMAIN s : \E j \in DOMAIN c : c[j] = s[i]
  BY <1>1
<1>5. \A i \in DOMAIN t : \E j \in DOMAIN c : c[j] = t[i]
  BY <1>2
<1>6. \A i \in DOMAIN c : (\E j \in DOMAIN s : c[i] = s[j]) \/ (\E j \in DOMAIN t : c[i] = t[j])
  BY <1>3
<1>7. ToSet(c) = ToSet(s) \cup ToSet(t)
  <2>1. ASSUME NEW x PROVE x \in ToSet(c) <=> x \in ToSet(s) \cup ToSet(t)
    BY <1>4, <1>5, <1>6 DEF ToSet
  <2> QED BY <2>1
<1> QED BY <1>7 DEF c

LEMMA ElementsOfOne ==
    ASSUME NEW S, NEW e \in S
    PROVE  <<e>> \in Seq(S) /\ ToSet(<<e>>) = {e}
BY DEF ToSet

LEMMA ElementsOfTail ==
    ASSUME NEW S, NEW s \in Seq(S), s # <<>>
    PROVE  /\ Tail(s) \in Seq(S) /\ ToSet(s) = {s[1]} \cup ToSet(Tail(s))
           /\ Head(s) = s[1] /\ s[1] \in ToSet(s)
<1> DEFINE c == Tail(s)
<1>1. c \in Seq(S) /\ Head(s) = s[1] /\ 1 \in DOMAIN s
  OBVIOUS
<1>2. \A i \in DOMAIN c : i + 1 \in DOMAIN s /\ c[i] = s[i + 1]
  OBVIOUS
<1>3. \A i \in DOMAIN s : i = 1 \/ (i - 1 \in DOMAIN c /\ s[i] = c[i - 1])
  OBVIOUS
<1> HIDE DEF c
<1>4. \A i \in DOMAIN c : \E j \in DOMAIN s : c[i] = s[j]
  BY <1>2
<1>5. \A i \in DOMAIN s : s[i] = s[1] \/ \E j \in DOMAIN c : s[i] = c[j]
  BY <1>3
<1>6. ToSet(s) = {s[1]} \cup ToSet(c) /\ s[1] \in ToSet(s)
  <2>1. ASSUME NEW x PROVE x \in ToSet(s) <=> x \in {s[1]} \cup ToSet(c)
    BY <1>1, <1>4, <1>5 DEF ToSet
  <2> QED BY <1>1, <2>1 DEF ToSet
<1> QED BY <1>1, <1>6 DEF c

LEMMA EmitUnderway ==
    ASSUME EventsOK, NEW es \in Seq(EventType), channel' = channel \o es, hand' = hand
    PROVE  Underway' = Underway \cup ToSet(es)
<1>1. ToSet(channel') = ToSet(channel) \cup ToSet(es)
  BY ElementsOfConcat DEF EventsOK
<1> HIDE DEF ToSet
<1> QED BY <1>1, Zenon DEF Underway

LEMMA DrainUnderway ==
    ASSUME EventsOK, hist \in HistType, NEW h \in Handlers, Drain(h)
    PROVE  Underway' = Underway
<1>1. /\ hand[h] = <<>> /\ channel' = <<>> /\ hand'[h] = channel
      /\ \A g \in Handlers : g # h => hand'[g] = hand[g]
  BY DrainEffect
<1>2. ToSet(<<>>) = {}
  BY DEF ToSet
<1> HIDE DEF ToSet
<1>3. \A g \in Handlers : g # h => ToSet(hand'[g]) = ToSet(hand[g])
  BY <1>1
<1>4. ToSet(hand'[h]) = ToSet(channel) /\ ToSet(hand[h]) = {} /\ ToSet(channel') = {}
  BY <1>1, <1>2
<1> DEFINE U(e) == \E g \in Handlers : e \in ToSet(hand[g])
           V(e) == \E g \in Handlers : e \in ToSet(hand'[g])
<1>5. \A e : V(e) <=> U(e) \/ e \in ToSet(channel)
  BY <1>3, <1>4, Zenon
<1>6. \A e : e \in Underway <=> U(e) \/ e \in ToSet(channel)
  BY Zenon DEF Underway
<1>7. \A e : e \in Underway' <=> V(e) \/ e \in ToSet(channel')
  BY Zenon DEF Underway
<1> QED BY <1>4, <1>5, <1>6, <1>7

LEMMA HandleUnderway ==
    ASSUME EventsOK, hist \in HistType, NEW h \in Handlers, NEW kind, Handle(h, kind)
    PROVE  /\ Underway = Underway' \cup {Head(hand[h])}
           /\ Head(hand[h]) \in ToSet(hand[h])
<1>1. /\ hand[h] # <<>> /\ channel' = channel /\ hand'[h] = Tail(hand[h])
      /\ \A g \in Handlers : g # h => hand'[g] = hand[g]
  BY HandleEffect
<1>2. hand[h] \in Seq(EventType)
  BY DEF EventsOK
<1>3. ToSet(hand[h]) = {Head(hand[h])} \cup ToSet(Tail(hand[h]))
  BY <1>1, <1>2, ElementsOfTail
<1> HIDE DEF ToSet
<1>4. \A g \in Handlers : g # h => ToSet(hand'[g]) = ToSet(hand[g])
  BY <1>1
<1>5. ToSet(hand[h]) = {Head(hand[h])} \cup ToSet(hand'[h]) /\ ToSet(channel') = ToSet(channel)
  BY <1>1, <1>3
<1> DEFINE U(e) == \E g \in Handlers : e \in ToSet(hand[g])
           V(e) == \E g \in Handlers : e \in ToSet(hand'[g])
<1>6. \A e : U(e) <=> V(e) \/ e = Head(hand[h])
  BY <1>4, <1>5, Zenon
<1>7. \A e : e \in Underway <=> U(e) \/ e \in ToSet(channel)
  BY Zenon DEF Underway
<1>8. \A e : e \in Underway' <=> V(e) \/ e \in ToSet(channel')
  BY Zenon DEF Underway
<1> QED BY <1>5, <1>6, <1>7, <1>8

-----------------------------------------------------------------------------
(* What the session is once it is put back. *)

LEMMA PutBackEffect ==
    ASSUME hist \in HistType, NEW p \in Threads, PutBack(p)
    PROVE  /\ session' = pc[p].image
           /\ hist'.undone <=> (hist.undone \/ session # pc[p].left)
           /\ hist' = [hist EXCEPT !.faults = hist'.faults, !.undone = hist'.undone]
           /\ hist'.faults = hist.faults + 1
           /\ hist'.made = hist.made /\ hist'.sent = hist.sent /\ hist'.hurried = hist.hurried
           /\ hist'.overtaken = hist.overtaken /\ hist'.stranded = hist.stranded
           /\ hist'.accepted = hist.accepted /\ hist'.reached = hist.reached
           /\ hist'.elder = hist.elder /\ hist'.last = hist.last
<1> DEFINE undone == hist.undone \/ session # pc[p].left
<1>1. session' = pc[p].image /\ hist' = [hist EXCEPT !.faults = @ + 1, !.undone = undone]
  BY DEF PutBack, Failed
<1> HIDE DEF undone
<1>2. /\ hist'.undone = undone
      /\ hist'.faults = hist.faults + 1
      /\ hist'.made = hist.made /\ hist'.sent = hist.sent /\ hist'.hurried = hist.hurried
      /\ hist'.overtaken = hist.overtaken /\ hist'.stranded = hist.stranded
      /\ hist'.accepted = hist.accepted /\ hist'.reached = hist.reached
      /\ hist'.elder = hist.elder /\ hist'.last = hist.last
  BY <1>1 DEF HistType
<1>3. hist' = [hist EXCEPT !.faults = hist'.faults, !.undone = hist'.undone]
  BY <1>1, <1>2
<1> QED BY <1>1, <1>2, <1>3 DEF undone

-----------------------------------------------------------------------------
(* The supplements the user was told are accepted. *)

OnTheWay(s) == \E e \in Underway : e.kind = "unconsumed" /\ s \in e.ids
InHandoff(s) == \E h \in Handlers : HandsOff(h) /\ s \in pc[h].ids
Kept(s) == s \in hist.reached \cup core.mail \cup session.unconsumed \/ OnTheWay(s) \/ InHandoff(s)

(* The mailbox holds something, or is about to, only while it is open; no  *)
(* save that fails takes anything from what was handed back.               *)
KeepsSupplements ==
  /\ ~core.open => core.mail = {}
  /\ pc["lane"].at = "save_entry" => core.open
  /\ ~hist.undone => \A s \in hist.accepted : Kept(s)
  /\ ~hist.undone => \A p \in Threads :
       Restores(p) => pc[p].image.unconsumed = pc[p].left.unconsumed

(* The mailbox is left alone, but for what is added to it. *)
MailKept ==
  /\ core.mail \subseteq core'.mail /\ (core.open => core'.open)
  /\ ~core'.open => core'.mail = {}

(* History forgets nothing. *)
HistGrows == hist.reached \subseteq hist'.reached /\ (hist.undone => hist'.undone)

(* A step of a thread, which may take up or put down supplements. *)
LEMMA ThreadKeepsSupplements ==
    ASSUME KeepsSupplements, NEW p \in Threads, Alone(p), UNCHANGED <<channel, hand>>,
           MailKept, HistGrows, hist'.accepted \subseteq hist.accepted \cup core'.mail,
           ~hist'.undone => session.unconsumed \subseteq
             session'.unconsumed \cup (IF pc'[p].at \in {"handoff", "save_handoff", "send_handoff"}
                                         /\ p \in Handlers THEN pc'[p].ids ELSE {}),
           p \in Handlers /\ HandsOff(p) /\ ~hist'.undone => pc[p].ids \subseteq
             hist'.reached \cup session'.unconsumed \cup
             (IF pc'[p].at \in {"handoff", "save_handoff", "send_handoff"} THEN pc'[p].ids ELSE {}),
           pc'[p].at \in SavingSteps \cup {"send_handoff"} /\ ~hist'.undone =>
             pc'[p].image.unconsumed = pc'[p].left.unconsumed,
           pc'["lane"].at = "save_entry" /\ p = "lane" => core.open
    PROVE  KeepsSupplements'
<1>1. pc'["lane"].at = "save_entry" => core'.open
  BY ThreadsApart DEF KeepsSupplements, MailKept, Alone
<1>2. ASSUME ~hist'.undone, NEW q \in Threads, Restores(q)'
      PROVE  pc'[q].image.unconsumed = pc'[q].left.unconsumed
  BY <1>2 DEF KeepsSupplements, Alone, Restores, HistGrows
<1>3. ASSUME ~hist'.undone, NEW s \in hist'.accepted
      PROVE  Kept(s)'
  <2>1. CASE s \in core'.mail
    BY <2>1 DEF Kept
  <2>2. CASE Kept(s)
    <3>1. CASE s \in hist.reached \cup core.mail
      BY <3>1 DEF Kept, MailKept, HistGrows
    <3>2. CASE s \in session.unconsumed
      BY <1>3, <3>2 DEF Kept, InHandoff, HandsOff
    <3>3. CASE OnTheWay(s)
      BY <3>3 DEF Kept, OnTheWay, Underway
    <3>4. CASE InHandoff(s)
      <4>1. PICK h \in Handlers : HandsOff(h) /\ s \in pc[h].ids
        BY <3>4 DEF InHandoff
      <4>2. CASE h = p
        BY <1>3, <4>1, <4>2 DEF Kept, InHandoff, HandsOff
      <4>3. CASE h # p
        BY <4>1, <4>3, ThreadsApart DEF Kept, InHandoff, HandsOff, Alone
      <4> QED BY <4>2, <4>3
    <3> QED BY <2>2, <3>1, <3>2, <3>3, <3>4 DEF Kept
  <2> QED BY <1>3, <2>1, <2>2 DEF KeepsSupplements, HistGrows
<1> QED BY <1>1, <1>2, <1>3 DEF KeepsSupplements, MailKept

(* The usual case: nothing is handed back, and nothing told. *)
LEMMA PlainlyKeepsSupplements ==
    ASSUME KeepsSupplements, NEW p \in Threads, Alone(p), UNCHANGED <<channel, hand>>,
           MailKept, HistGrows, hist'.accepted = hist.accepted,
           ~hist'.undone => session.unconsumed \subseteq session'.unconsumed,
           pc[p].at \notin {"handoff", "save_handoff", "send_handoff"},
           pc'[p].at \in SavingSteps => session.unconsumed = session'.unconsumed
              /\ pc'[p].image = session /\ pc'[p].left = session',
           pc'[p].at # "send_handoff",
           pc'[p].at = "save_entry" => core.open
    PROVE  KeepsSupplements'
BY ThreadKeepsSupplements DEF HandsOff

LEMMA SameMail ==
    ASSUME KeepsSupplements, core'.mail = core.mail, core'.open = core.open
    PROVE  MailKept
BY DEF MailKept, KeepsSupplements

LEMMA SubmittedMail ==
    ASSUME KeepsSupplements, CoreOK, NEW t, NEW ids, NEW named, SubmitToCore(t, ids, named), hist \in HistType
    PROVE  /\ MailKept /\ HistGrows /\ hist'.accepted = hist.accepted
           /\ hist'.undone = hist.undone /\ hist'.reached = hist.reached \cup ids
<1>1. core' = core \/ (core'.open = TRUE /\ core'.mail = IF core.open THEN core.mail ELSE {})
  <2> DEFINE q == Append(core.queue, Submission(t, IF named THEN ids ELSE {}))
             mail == IF core.open THEN core.mail ELSE {}
             known == core.known \cup ids
  <2>1. core' = core \/ core' = [core EXCEPT !.queue = q, !.open = TRUE, !.mail = mail, !.known = known]
    BY DEF SubmitToCore
  <2> HIDE DEF q, mail, known
  <2>2. core' = core \/ (core'.open = TRUE /\ core'.mail = mail)
    BY <2>1 DEF CoreOK, CoreType
  <2> QED BY <2>2 DEF mail
<1>2. hist' = [hist EXCEPT !.reached = @ \cup ids]
  BY DEF SubmitToCore
<1>3. /\ hist'.accepted = hist.accepted /\ hist'.undone = hist.undone
      /\ hist'.reached = hist.reached \cup ids
  BY <1>2 DEF HistType
<1> QED BY <1>1, <1>3 DEF MailKept, HistGrows, KeepsSupplements

LEMMA AllSteps ==
    /\ SavingSteps \cup CarryingSteps \cup TaskSteps \cup HandlerSteps \cup HandoffSteps \subseteq Steps
    /\ {"idle", "start", "save_turn", "ask", "send", "resolve", "note", "save_note", "enqueue",
        "save_queue", "dispatch", "send_queued", "append", "save_entry", "settle", "now",
        "append_now", "save_now", "save_stop", "stop"} \subseteq Steps
BY DEF Steps, TaskSteps, HandlerSteps, HandoffSteps, SavingSteps, CarryingSteps

(* Where a thread is after each way it has to go on. *)
LEMMA Moves ==
    ASSUME ThreadsOK, session \in SessionType, NEW p \in Threads
    PROVE  /\ End(p) => Alone(p) /\ pc'[p].at = "idle"
           /\ Return(p) => Alone(p) /\ pc'[p].at = pc[p].back /\ pc'[p].at \in {"idle", "settle"}
           /\ \A x \in Steps : Go(p, x) => Alone(p) /\ pc'[p].at = x
           /\ \A x \in Steps, t \in MaybeTurn, i \in SUBSET Names :
                Carry(p, x, t, i) => Alone(p) /\ pc'[p].at = x /\ pc'[p].ids = i /\ pc'[p].turn = t
           /\ \A x \in Steps, c \in Names \cup {NoCommand} :
                Begin(p, x, c) => Alone(p) /\ pc'[p].at = x /\ pc'[p].cmd = c
<1>1. pc \in [Threads -> ThreadType]
  BY DEF ThreadsOK
<1>2. pc[p].back \in {"idle", "settle"}
  BY ThreadFields
<1> QED BY <1>1, <1>2, EndEffect, ReturnEffect, GoEffect, CarryEffect, BeginEffect

LEMMA Saving ==
    ASSUME ThreadsOK, session \in SessionType, session' \in SessionType, NEW p \in Threads,
           NEW x \in Steps, NEW t \in MaybeTurn, NEW i \in SUBSET Names, Save(p, x, t, i)
    PROVE  /\ Alone(p) /\ pc'[p].at = x /\ pc'[p].turn = t /\ pc'[p].ids = i
           /\ pc'[p].image = session /\ pc'[p].left = session'
BY SaveEffect DEF ThreadsOK

LEMMA HistPlain ==
    ASSUME hist \in HistType,
           \/ hist' = hist \/ hist' = Failed(hist) \/ hist' = Made(hist)
           \/ \E t : Strand(t)
           \/ \E c : hist' = [hist EXCEPT !.sent = @ \cup {c}]
           \/ \E b : hist' = [hist EXCEPT !.hurried = b]
    PROVE  /\ HistGrows /\ hist'.accepted = hist.accepted /\ hist'.undone = hist.undone
           /\ hist'.reached = hist.reached
BY DEF HistType, HistGrows, Failed, Made, Strand

LEMMA Unpacked ==
    ASSUME Types
    PROVE  /\ SessionOK /\ session \in SessionType /\ Reserved(session) /\ CoreOK /\ EventsOK
           /\ ThreadsOK /\ hist \in HistType /\ pc \in [Threads -> ThreadType]
           /\ \A p \in Threads : pc[p].ids \in SUBSET Names /\ pc[p].turn \in MaybeTurn
                                 /\ pc[p].cmd \in Names \cup {NoCommand}
BY ThreadFields DEF Types, SessionOK, ThreadsOK

(* A thread goes on and leaves the session's supplements and Core alone. *)
LEMMA PassingKeepsSupplements ==
    ASSUME Types, KeepsSupplements, NEW p \in Threads, Alone(p), UNCHANGED <<core, channel, hand>>,
           HistGrows, hist'.accepted = hist.accepted,
           session'.unconsumed = session.unconsumed,
           pc[p].at \notin HandoffSteps,
           pc'[p].at \notin SavingSteps \cup {"send_handoff"}
    PROVE  KeepsSupplements'
BY PlainlyKeepsSupplements, SameMail DEF SavingSteps, HandoffSteps

LEMMA SavingKeepsSupplements ==
    ASSUME Types, KeepsSupplements, NEW p \in Threads, UNCHANGED <<core, channel, hand>>,
           HistGrows, hist'.accepted = hist.accepted,
           session' \in SessionType, session'.unconsumed = session.unconsumed,
           pc[p].at \notin HandoffSteps, NEW x \in SavingSteps \ {"save_handoff"},
           NEW t \in MaybeTurn, NEW i \in SUBSET Names, Save(p, x, t, i),
           x = "save_entry" => core.open
    PROVE  KeepsSupplements'
<1>1. x \in Steps
  BY DEF Steps, TaskSteps, HandlerSteps, SavingSteps
<1>2. Alone(p) /\ pc'[p].at = x /\ pc'[p].image = session /\ pc'[p].left = session'
  BY <1>1, Saving, Unpacked
<1> QED BY <1>2, PlainlyKeepsSupplements, SameMail DEF SavingSteps, HandoffSteps

LEMMA PutBackKeepsSupplements ==
    ASSUME Types, KeepsSupplements, NEW p \in Threads, PutBack(p), Alone(p),
           UNCHANGED <<core, channel, hand>>, pc[p].at \in SavingSteps \ {"save_handoff"},
           pc'[p].at \notin SavingSteps \cup {"send_handoff"}
    PROVE  KeepsSupplements'
<1>1. /\ session' = pc[p].image /\ (hist'.undone <=> (hist.undone \/ session # pc[p].left))
      /\ HistGrows /\ hist'.accepted = hist.accepted
  BY PutBackEffect, Unpacked DEF HistGrows
<1>2. ~hist'.undone => session'.unconsumed = session.unconsumed
  BY <1>1 DEF KeepsSupplements, Restores
<1> QED BY <1>1, <1>2, PlainlyKeepsSupplements, SameMail DEF SavingSteps

LEMMA DispatchNextKeeps ==
    ASSUME Types, KeepsSupplements, NEW p \in Threads, DispatchNext(p)
    PROVE  KeepsSupplements'
<1>1. pc[p].at = "dispatch" /\ UNCHANGED <<core, channel, hand, hist>>
  BY DEF DispatchNext, At
<1>2. CASE MayDispatch(session)
  <2> DEFINE item == Head(session.queue)
             next == IF item.afterStop THEN Dispatching(session, item).next ELSE "awaiting"
  <2>1. item \in Item
    BY <1>2, Unpacked, ReadyItem
  <2>2. session' = [Dispatching(session, item) EXCEPT !.next = next]
        /\ Carry(p, "send_queued", item.turn, {item.id})
    BY <1>2 DEF DispatchNext
  <2> HIDE DEF item
  <2>3. session'.unconsumed = session.unconsumed
    BY <2>1, <2>2, Unpacked, DispatchingEffect DEF SessionType
  <2>4. item.turn \in MaybeTurn /\ {item.id} \in SUBSET Names /\ "send_queued" \in Steps
    BY <2>1 DEF Item, MaybeTurn, Steps, TaskSteps
  <2>5. Alone(p) /\ pc'[p].at = "send_queued"
    BY <2>2, <2>4, Unpacked, Moves
  <2> QED BY <1>1, <2>3, <2>5, HistPlain, Unpacked, PassingKeepsSupplements DEF SavingSteps, HandoffSteps
<1>3. CASE ~MayDispatch(session)
  <2>1. session' = session /\ Return(p)
    BY <1>3 DEF DispatchNext
  <2> QED BY <1>1, <2>1, Moves, HistPlain, Unpacked, PassingKeepsSupplements DEF SavingSteps, HandoffSteps
<1> QED BY <1>2, <1>3

LEMMA SendQueuedKeeps ==
    ASSUME Types, KeepsSupplements, NEW p \in Threads, SendQueued(p)
    PROVE  KeepsSupplements'
<1>1. pc[p].at = "send_queued" /\ UNCHANGED <<channel, hand>> /\ Alone(p) /\ pc'[p].at \in {"idle", "settle"}
  BY Moves, Unpacked DEF SendQueued, At
<1>2. CASE SubmitToCore(pc[p].turn, pc[p].ids, TRUE) /\ UNCHANGED session
  BY <1>1, <1>2, SubmittedMail, Unpacked, PlainlyKeepsSupplements DEF SavingSteps
<1>3. CASE hist' = Failed(hist) /\ session' = DispatchRejected(session, pc[p].turn) /\ core' = core
  <2>1. session'.unconsumed = session.unconsumed
    BY <1>3, Unpacked, DispatchRejectedEffect
  <2> QED BY <1>1, <1>3, <2>1, HistPlain, Unpacked, PassingKeepsSupplements DEF SavingSteps, HandoffSteps
<1> QED BY <1>2, <1>3 DEF SendQueued

LEMMA SentKeeps ==
    ASSUME Types, KeepsSupplements, NEW p \in {"lane", "task"}, pc[p].at = "idle",
           NEW x \in {"start", "enqueue", "append"},
           NEW c \in Names, Begin(p, x, c), hist' = [hist EXCEPT !.sent = @ \cup {c}],
           UNCHANGED <<session, core, channel, hand>>
    PROVE  KeepsSupplements'
<1>1. Alone(p) /\ pc'[p].at = x /\ p \in Threads
  BY Moves, Unpacked, ThreadsApart DEF Steps, TaskSteps
<1> QED BY <1>1, HistPlain, Unpacked, PassingKeepsSupplements DEF SavingSteps, HandoffSteps

LEMMA SubmitKeeps ==
    ASSUME Types, KeepsSupplements, NEW c \in Commands, Submit(c)
    PROVE  KeepsSupplements'
<1>1. c \in Names /\ (IF Quiet(session) THEN "start" ELSE "enqueue") \in {"start", "enqueue", "append"}
  BY DEF Names
<1> QED BY <1>1, SentKeeps DEF Submit, At

LEMMA FireKeeps ==
    ASSUME Types, KeepsSupplements, NEW f \in Fires, Fire(f)
    PROVE  KeepsSupplements'
<1>1. f \in Names /\ (IF Quiet(session) THEN "start" ELSE "enqueue") \in {"start", "enqueue", "append"}
  BY DEF Names
<1> QED BY <1>1, SentKeeps DEF Fire, At

LEMMA SupplementKeeps ==
    ASSUME Types, KeepsSupplements, NEW c \in Commands, Supplement(c)
    PROVE  KeepsSupplements'
<1>1. c \in Names /\ (IF HasActive(session) THEN "append" ELSE "start") \in {"start", "enqueue", "append"}
  BY DEF Names
<1> QED BY <1>1, SentKeeps DEF Supplement, At

LEMMA RefusedMoves ==
    ASSUME Types, NEW p \in Threads, Refused(p)
    PROVE  Alone(p) /\ pc'[p].at \in {"idle", "enqueue"}
BY Moves, Unpacked DEF Refused, Steps, TaskSteps

LEMMA StartKeeps ==
    ASSUME Types, KeepsSupplements, NEW p \in Threads, Start(p)
    PROVE  KeepsSupplements'
<1>1. pc[p].at = "start" /\ UNCHANGED <<core, channel, hand>>
  BY DEF Start, At
<1>2. CASE session' = session /\ Refused(p) /\ hist' = hist
  BY <1>1, <1>2, RefusedMoves, HistPlain, Unpacked, PassingKeepsSupplements DEF SavingSteps, HandoffSteps
<1>3. CASE /\ CanMake /\ hist' = Made(hist) /\ session' = NewTurn(session, Fresh, Ids(p))
           /\ Save(p, "save_turn", Fresh, Ids(p))
  <2>1. Fresh \in Turns /\ Fresh \in MaybeTurn
    BY <1>3, Unpacked, FreshOK DEF MaybeTurn
  <2>2. Ids(p) \in SUBSET Names
    BY <1>1, ThreadFields, Unpacked DEF Ids, Says
  <2>3. session' \in SessionType /\ SameQueue(session', session)
    BY <1>3, <2>1, <2>2, Unpacked, NewTurnEffect
  <2>4. session'.unconsumed = session.unconsumed
    BY <2>3 DEF SameQueue
  <2> QED BY <1>1, <1>3, <2>1, <2>2, <2>3, <2>4, HistPlain, Unpacked, SavingKeepsSupplements
          DEF SavingSteps, HandoffSteps
<1> QED BY <1>2, <1>3 DEF Start

LEMMA TurnSavedKeeps ==
    ASSUME Types, KeepsSupplements, NEW p \in Threads, TurnSaved(p)
    PROVE  KeepsSupplements'
<1>1. pc[p].at = "save_turn" /\ UNCHANGED <<core, channel, hand>>
  BY DEF TurnSaved, At
<1>2. CASE Go(p, IF pc[p].asks THEN "ask" ELSE "send") /\ UNCHANGED <<session, hist>>
  <2>1. Alone(p) /\ pc'[p].at \in {"ask", "send"}
    BY <1>2, Moves, Unpacked DEF Steps, TaskSteps
  <2> QED BY <1>1, <1>2, <2>1, HistPlain, Unpacked, PassingKeepsSupplements DEF SavingSteps, HandoffSteps
<1>3. CASE PutBack(p) /\ Refused(p)
  BY <1>1, <1>3, RefusedMoves, PutBackKeepsSupplements DEF SavingSteps
<1> QED BY <1>2, <1>3 DEF TurnSaved

LEMMA AskKeeps ==
    ASSUME Types, KeepsSupplements, NEW p \in Threads, Ask(p)
    PROVE  KeepsSupplements'
<1>1. session'.unconsumed = session.unconsumed
  BY Unpacked DEF Ask, SessionType
<1> QED BY <1>1, Moves, HistPlain, Unpacked, PassingKeepsSupplements DEF Ask, At, SavingSteps, HandoffSteps

LEMMA SendKeeps ==
    ASSUME Types, KeepsSupplements, NEW p \in Threads, Send(p)
    PROVE  KeepsSupplements'
<1>1. pc[p].at = "send" /\ UNCHANGED <<channel, hand>> /\ Alone(p) /\ pc'[p].at \in {"idle", "enqueue"}
  BY Moves, RefusedMoves, Unpacked DEF Send, At
<1>2. CASE SubmitToCore(pc[p].turn, pc[p].ids, TRUE) /\ UNCHANGED session
  BY <1>1, <1>2, SubmittedMail, Unpacked, PlainlyKeepsSupplements DEF SavingSteps
<1>3. CASE hist' = Failed(hist) /\ session' = RolledBack(session, pc[p].turn) /\ UNCHANGED core
  <2>1. SameQueue(RolledBack(session, pc[p].turn), session)
    BY Unpacked, RolledBackEffect
  <2>2. session'.unconsumed = session.unconsumed
    BY <1>3, <2>1 DEF SameQueue
  <2> QED BY <1>1, <1>3, <2>2, HistPlain, Unpacked, PassingKeepsSupplements DEF SavingSteps, HandoffSteps
<1>4. CASE Strand(pc[p].turn) /\ UNCHANGED <<session, core>>
  BY <1>1, <1>4, HistPlain, Unpacked, PassingKeepsSupplements DEF SavingSteps, HandoffSteps
<1> QED BY <1>2, <1>3, <1>4 DEF Send

LEMMA ResolveKeeps ==
    ASSUME Types, KeepsSupplements, NEW p \in Threads, Resolve(p)
    PROVE  KeepsSupplements'
<1>1. session'.unconsumed = session.unconsumed
  BY Unpacked DEF Resolve, SessionType
<1>2. session.asking \in MaybeTurn /\ session.askedFor \in SUBSET Names
  BY Unpacked DEF SessionType
<1>3. Alone(p) /\ pc'[p].at = "resolve"
  BY <1>2, Moves, Unpacked DEF Resolve, Steps, TaskSteps
<1> QED BY <1>1, <1>3, HistPlain, Unpacked, PassingKeepsSupplements
        DEF Resolve, At, SavingSteps, HandoffSteps

LEMMA ResolveSendKeeps ==
    ASSUME Types, KeepsSupplements, NEW p \in Threads, ResolveSend(p)
    PROVE  KeepsSupplements'
<1>1. /\ pc[p].at = "resolve" /\ UNCHANGED <<session, channel, hand>> /\ Alone(p)
      /\ pc'[p].at \in {"idle", "note"}
  BY Moves, Unpacked DEF ResolveSend, At, Steps
<1>2. CASE SubmitToCore(pc[p].turn, pc[p].ids, TRUE)
  BY <1>1, <1>2, SubmittedMail, Unpacked, PlainlyKeepsSupplements DEF SavingSteps
<1>3. CASE Strand(pc[p].turn) /\ UNCHANGED core
  BY <1>1, <1>3, HistPlain, Unpacked, PassingKeepsSupplements DEF SavingSteps, HandoffSteps
<1> QED BY <1>2, <1>3 DEF ResolveSend

LEMMA NoteKeeps ==
    ASSUME Types, KeepsSupplements, Note
    PROVE  KeepsSupplements'
<1>1. pc["lane"].at = "note" /\ UNCHANGED <<session, core, channel, hand, hist>> /\ "lane" \in Threads
  BY ThreadsApart DEF Note, At
<1>2. CASE Save("lane", "save_note", NoTurn, {})
  BY <1>1, <1>2, HistPlain, Unpacked, SavingKeepsSupplements DEF SavingSteps, HandoffSteps, MaybeTurn
<1>3. CASE End("lane")
  BY <1>1, <1>3, Moves, HistPlain, Unpacked, PassingKeepsSupplements DEF SavingSteps, HandoffSteps
<1> QED BY <1>2, <1>3 DEF Note

LEMMA NoteSavedKeeps ==
    ASSUME Types, KeepsSupplements, NoteSaved
    PROVE  KeepsSupplements'
<1>1. /\ pc["lane"].at = "save_note" /\ UNCHANGED <<core, channel, hand>> /\ "lane" \in Threads
      /\ Alone("lane") /\ pc'["lane"].at = "idle"
  BY ThreadsApart, Moves, Unpacked DEF NoteSaved, At
<1>2. CASE UNCHANGED <<session, hist>>
  BY <1>1, <1>2, HistPlain, Unpacked, PassingKeepsSupplements, PlainlyKeepsSupplements, SameMail
     DEF SavingSteps, HandoffSteps
<1>3. CASE PutBack("lane")
  BY <1>1, <1>3, PutBackKeepsSupplements DEF SavingSteps
<1> QED BY <1>2, <1>3 DEF NoteSaved

LEMMA EnqueueKeeps ==
    ASSUME Types, KeepsSupplements, NEW p \in Threads, Enqueue(p), Types'
    PROVE  KeepsSupplements'
<1>1. pc[p].at = "enqueue" /\ UNCHANGED <<core, channel, hand>>
  BY DEF Enqueue, At
<1>2. CASE session' = session /\ End(p) /\ hist' = hist
  BY <1>1, <1>2, Moves, HistPlain, Unpacked, PassingKeepsSupplements DEF SavingSteps, HandoffSteps
<1>3. CASE ~Quiet(session)
  <2> DEFINE q == Append(session.queue, [id |-> pc[p].cmd, turn |-> Fresh,
                      afterStop |-> session.cancelling # NoTurn /\ session.queue = <<>>])
  <2>1. /\ CanMake /\ hist' = Made(hist) /\ session' = [session EXCEPT !.queue = q]
        /\ Save(p, "save_queue", Fresh, {})
    BY <1>3 DEF Enqueue
  <2> HIDE DEF q
  <2>2. Fresh \in MaybeTurn
    BY <2>1, Unpacked, FreshOK DEF MaybeTurn
  <2>3. session'.unconsumed = session.unconsumed
    BY <2>1, Unpacked DEF SessionType
  <2>4. session' \in SessionType
    BY DEF Types, SessionOK
  <2> QED BY <1>1, <2>1, <2>2, <2>3, <2>4, HistPlain, Unpacked, SavingKeepsSupplements
          DEF SavingSteps, HandoffSteps
<1> QED BY <1>2, <1>3 DEF Enqueue

LEMMA QueueSavedKeeps ==
    ASSUME Types, KeepsSupplements, NEW p \in Threads, QueueSaved(p)
    PROVE  KeepsSupplements'
<1>1. pc[p].at = "save_queue" /\ UNCHANGED <<core, channel, hand>>
  BY DEF QueueSaved, At
<1>2. CASE Go(p, "dispatch") /\ UNCHANGED <<session, hist>>
  <2>1. Alone(p) /\ pc'[p].at = "dispatch"
    BY <1>2, Moves, Unpacked DEF Steps, TaskSteps
  <2> QED BY <1>1, <1>2, <2>1, HistPlain, Unpacked, PassingKeepsSupplements DEF SavingSteps, HandoffSteps
<1>3. CASE PutBack(p) /\ End(p)
  BY <1>1, <1>3, Moves, Unpacked, PutBackKeepsSupplements DEF SavingSteps
<1> QED BY <1>2, <1>3 DEF QueueSaved

LEMMA AppendEntryKeeps ==
    ASSUME Types, KeepsSupplements, AppendEntry
    PROVE  KeepsSupplements'
<1>1. pc["lane"].at = "append" /\ UNCHANGED <<core, channel, hand, hist>> /\ "lane" \in Threads
  BY ThreadsApart DEF AppendEntry, At
<1>2. CASE Become("lane", Resting("settle", pc["lane"].cmd)) /\ session' = session
  <2>1. Alone("lane") /\ pc'["lane"].at = "settle"
    BY <1>1, <1>2, RestEffect, Unpacked
  <2> QED BY <1>1, <1>2, <2>1, HistPlain, Unpacked, PassingKeepsSupplements DEF SavingSteps, HandoffSteps
<1>3. CASE End("lane") /\ session' = session
  BY <1>1, <1>3, Moves, HistPlain, Unpacked, PassingKeepsSupplements DEF SavingSteps, HandoffSteps
<1>4. CASE /\ core.open /\ session' = Recorded(session, {pc["lane"].cmd})
           /\ Save("lane", "save_entry", NoTurn, {pc["lane"].cmd})
  <2>1. {pc["lane"].cmd} \in SUBSET Names
    BY <1>1, ThreadFields, Unpacked DEF Says
  <2>2. session' \in SessionType /\ session'.unconsumed = session.unconsumed
    BY <1>4, <2>1, Unpacked, RecordedEffect DEF SameQueue
  <2> QED BY <1>1, <1>4, <2>1, <2>2, HistPlain, Unpacked, SavingKeepsSupplements
          DEF SavingSteps, HandoffSteps, MaybeTurn
<1> QED BY <1>2, <1>3, <1>4 DEF AppendEntry

LEMMA EntrySavedKeeps ==
    ASSUME Types, KeepsSupplements, EntrySaved
    PROVE  KeepsSupplements'
<1>1. /\ pc["lane"].at = "save_entry" /\ UNCHANGED <<channel, hand>> /\ "lane" \in Threads
      /\ Alone("lane") /\ pc'["lane"].at = "idle"
  BY ThreadsApart, Moves, Unpacked DEF EntrySaved, At
<1>2. CASE /\ core' = [core EXCEPT !.mail = @ \cup pc["lane"].ids, !.known = @ \cup pc["lane"].ids]
           /\ hist' = [hist EXCEPT !.accepted = @ \cup pc["lane"].ids]
           /\ UNCHANGED session
  <2>1. core'.mail = core.mail \cup pc["lane"].ids /\ core'.open = core.open
    BY <1>2, Unpacked DEF CoreOK, CoreType
  <2>2. MailKept
    BY <1>1, <2>1 DEF MailKept, KeepsSupplements
  <2>3. HistGrows /\ hist'.accepted \subseteq hist.accepted \cup core'.mail
    BY <1>2, <2>1, Unpacked DEF HistType, HistGrows
  <2> QED BY <1>1, <1>2, <2>2, <2>3, ThreadKeepsSupplements DEF HandsOff, SavingSteps
<1>3. CASE PutBack("lane") /\ UNCHANGED core
  BY <1>1, <1>3, PutBackKeepsSupplements DEF SavingSteps
<1> QED BY <1>2, <1>3 DEF EntrySaved

LEMMA SettledKeeps ==
    ASSUME Types, KeepsSupplements, Settled
    PROVE  KeepsSupplements'
<1>1. /\ pc["lane"].at = "settle" /\ UNCHANGED <<session, core, channel, hand, hist>> /\ "lane" \in Threads
  BY ThreadsApart DEF Settled, At
<1>2. Alone("lane") /\ pc'["lane"].at \in {"start", "idle"}
  BY <1>1, Moves, Unpacked DEF Settled, Steps, TaskSteps
<1> QED BY <1>1, <1>2, HistPlain, Unpacked, PassingKeepsSupplements DEF SavingSteps, HandoffSteps

LEMMA FoundItem ==
    ASSUME Types, NEW item \in ToSet(session.queue)
    PROVE  item \in Item
<1>1. session.queue \in Seq(Item)
  BY Unpacked DEF SessionType, Item
<1>2. PICK i \in DOMAIN session.queue : item = session.queue[i]
  BY DEF ToSet
<1> QED BY <1>1, <1>2

LEMMA SendNowMoves ==
    ASSUME Types, NEW item \in ToSet(session.queue), SendNow(item)
    PROVE  /\ Alone("lane") /\ pc'["lane"].at \in {"append_now", "now"}
           /\ pc'["lane"].ids = {item.id} /\ item \in Item
<1>1. item \in Item /\ "lane" \in Threads
  BY FoundItem, ThreadsApart
<1> DEFINE x == IF HasActive(session) THEN "append_now" ELSE "now"
<1>2. Carry("lane", x, NoTurn, {item.id}) /\ x \in {"append_now", "now"}
  BY DEF SendNow
<1> HIDE DEF x
<1>3. x \in Steps /\ NoTurn \in MaybeTurn /\ {item.id} \in SUBSET Names
  BY <1>1, <1>2 DEF Item, MaybeTurn, Steps
<1> QED BY <1>1, <1>2, <1>3, Moves, Unpacked

LEMMA SendNowKeeps ==
    ASSUME Types, KeepsSupplements, NEW item \in ToSet(session.queue), SendNow(item)
    PROVE  KeepsSupplements'
BY SendNowMoves, HistPlain, Unpacked, ThreadsApart, PassingKeepsSupplements
   DEF SendNow, At, SavingSteps, HandoffSteps

LEMMA DispatchNowKeeps ==
    ASSUME Types, KeepsSupplements, DispatchNow
    PROVE  KeepsSupplements'
<1>1. /\ pc["lane"].at = "now" /\ UNCHANGED <<core, channel, hand>> /\ "lane" \in Threads
  BY ThreadsApart DEF DispatchNow, At
<1>2. CASE End("lane") /\ UNCHANGED <<session, hist>>
  BY <1>1, <1>2, Moves, HistPlain, Unpacked, PassingKeepsSupplements DEF SavingSteps, HandoffSteps
<1>3. CASE ~(session.dispatching # NoTurn \/ ~IsQueued(session, pc["lane"].ids))
  <2> DEFINE item == Queued(session, pc["lane"].ids)
             hurried == hist.hurried \/ Current(session) # NoTurn
  <2>1. /\ session' = Dispatching(session, item)
        /\ hist' = [hist EXCEPT !.hurried = hurried]
        /\ Carry("lane", "save_now", item.turn, pc["lane"].ids)
    BY <1>3 DEF DispatchNow
  <2>2. item \in Item
    BY <1>3, Unpacked, QueuedItem
  <2> HIDE DEF item, hurried
  <2>3. session'.unconsumed = session.unconsumed
    BY <2>1, <2>2, Unpacked, DispatchingEffect
  <2>4. Alone("lane") /\ pc'["lane"].at = "save_now"
    BY <1>1, <2>1, <2>2, Unpacked, Moves DEF Item, MaybeTurn, Steps
  <2> QED BY <1>1, <2>1, <2>3, <2>4, HistPlain, Unpacked, PassingKeepsSupplements
          DEF SavingSteps, HandoffSteps
<1> QED BY <1>2, <1>3 DEF DispatchNow

LEMMA SupplementNowKeeps ==
    ASSUME Types, KeepsSupplements, SupplementNow
    PROVE  KeepsSupplements'
<1>1. pc["lane"].at = "append_now" /\ UNCHANGED <<core, channel, hand, hist>> /\ "lane" \in Threads
  BY ThreadsApart DEF SupplementNow, At
<1>2. CASE End("lane") /\ UNCHANGED session
  BY <1>1, <1>2, Moves, HistPlain, Unpacked, PassingKeepsSupplements DEF SavingSteps, HandoffSteps
<1>3. CASE ~(\/ ~core.open \/ ~IsQueued(session, pc["lane"].ids) \/ ~HasActive(session)
             \/ session.dispatching = Queued(session, pc["lane"].ids).turn)
  <2> DEFINE ids == pc["lane"].ids
             s == Unqueued(session, ids)
  <2>1. session' = Recorded(s, ids) /\ Save("lane", "save_entry", NoTurn, ids) /\ ids \in SUBSET Names
    BY <1>1, <1>3, Unpacked DEF SupplementNow
  <2>2. IsQueued(session, ids)
    BY <1>3
  <2> HIDE DEF ids
  <2>3. s \in SessionType /\ s.unconsumed = session.unconsumed
    BY <2>2, Unpacked, UnqueuedEffect
  <2> HIDE DEF s
  <2>4. session' \in SessionType /\ session'.unconsumed = session.unconsumed
    BY <2>1, <2>3, RecordedEffect DEF SameQueue
  <2> QED BY <1>1, <1>3, <2>1, <2>4, HistPlain, Unpacked, SavingKeepsSupplements
          DEF SavingSteps, HandoffSteps, MaybeTurn
<1> QED BY <1>2, <1>3 DEF SupplementNow

LEMMA NowSavedKeeps ==
    ASSUME Types, KeepsSupplements, NowSaved
    PROVE  KeepsSupplements'
<1>1. pc["lane"].at = "save_now" /\ UNCHANGED <<session, core, channel, hand>> /\ "lane" \in Threads
  BY ThreadsApart DEF NowSaved, At
<1>2. CASE Go("lane", "send_queued") /\ UNCHANGED hist
  <2>1. Alone("lane") /\ pc'["lane"].at = "send_queued"
    BY <1>1, <1>2, Moves, Unpacked DEF Steps, TaskSteps
  <2> QED BY <1>1, <1>2, <2>1, HistPlain, Unpacked, PassingKeepsSupplements DEF SavingSteps, HandoffSteps
<1>3. CASE Strand(pc["lane"].turn) /\ End("lane")
  BY <1>1, <1>3, Moves, HistPlain, Unpacked, PassingKeepsSupplements DEF SavingSteps, HandoffSteps
<1> QED BY <1>2, <1>3 DEF NowSaved

LEMMA CancelKeeps ==
    ASSUME Types, KeepsSupplements, Cancel
    PROVE  KeepsSupplements'
<1>1. pc["lane"].at = "idle" /\ UNCHANGED <<core, channel, hand>> /\ "lane" \in Threads
  BY ThreadsApart DEF Cancel, At
<1>2. HistGrows /\ hist'.accepted = hist.accepted /\ hist'.undone = hist.undone /\ hist'.reached = hist.reached
  BY Unpacked DEF Cancel, HistType, HistGrows
<1>3. Current(session) \in MaybeTurn
  BY Unpacked, CurrentType
<1>4. CASE session.asking # NoTurn
  <2>1. session' = session \/ session' = Abandoned(session)
    BY <1>4 DEF Cancel
  <2>2. session'.unconsumed = session.unconsumed
    BY <2>1, Unpacked, AbandonedEffect DEF SameQueue
  <2>3. pc' = pc
    BY <1>4 DEF Cancel
  <2>4. Alone("lane")
    BY <2>3 DEF Alone
  <2> QED BY <1>1, <1>2, <2>2, <2>3, <2>4, PassingKeepsSupplements DEF SavingSteps, HandoffSteps
<1>5. CASE session.asking = NoTurn /\ HasActive(session)
  <2>1. session' = Cancelled(session) /\ Save("lane", "save_stop", Current(session), {})
    BY <1>5 DEF Cancel
  <2>2. session' \in SessionType /\ session'.unconsumed = session.unconsumed
    BY <2>1, Unpacked, CancelledEffect DEF SameQueue
  <2> QED BY <1>1, <1>2, <1>3, <2>1, <2>2, SavingKeepsSupplements DEF SavingSteps, HandoffSteps
<1>6. CASE session.asking = NoTurn /\ ~HasActive(session)
  <2>1. session' = session /\ Carry("lane", "stop", Current(session), {})
    BY <1>6 DEF Cancel
  <2>2. Alone("lane") /\ pc'["lane"].at = "stop"
    <3>1. "stop" \in Steps /\ {} \in SUBSET Names
      BY AllSteps
    <3> QED BY <1>1, <1>3, <2>1, <3>1, Moves, Unpacked
  <2> QED BY <1>1, <1>2, <2>1, <2>2, PassingKeepsSupplements DEF SavingSteps, HandoffSteps
<1> QED BY <1>4, <1>5, <1>6

LEMMA StopSavedKeeps ==
    ASSUME Types, KeepsSupplements, StopSaved
    PROVE  KeepsSupplements'
<1>1. pc["lane"].at = "save_stop" /\ UNCHANGED <<core, channel, hand>> /\ "lane" \in Threads
  BY ThreadsApart DEF StopSaved, At
<1>2. CASE Go("lane", "stop") /\ UNCHANGED <<session, hist>>
  <2>1. Alone("lane") /\ pc'["lane"].at = "stop"
    BY <1>1, <1>2, Moves, Unpacked DEF Steps
  <2> QED BY <1>1, <1>2, <2>1, HistPlain, Unpacked, PassingKeepsSupplements DEF SavingSteps, HandoffSteps
<1>3. CASE PutBack("lane") /\ End("lane")
  BY <1>1, <1>3, Moves, Unpacked, PutBackKeepsSupplements DEF SavingSteps
<1> QED BY <1>2, <1>3 DEF StopSaved

LEMMA StopCoreKeeps ==
    ASSUME Types, KeepsSupplements, StopCore
    PROVE  KeepsSupplements'
<1>1. core'.mail = core.mail /\ core'.open = core.open
  BY Unpacked, StopCoreEffect
<1>2. Alone("lane") /\ pc'["lane"].at = "idle" /\ pc["lane"].at = "stop" /\ "lane" \in Threads
  BY Moves, Unpacked, ThreadsApart DEF StopCore, At
<1> QED BY <1>1, <1>2, SameMail, HistPlain, Unpacked, PlainlyKeepsSupplements DEF StopCore, SavingSteps

(* Steps in which no thread moves on to save. *)
LEMMA EventsKeepSupplements ==
    ASSUME KeepsSupplements, HistGrows, hist'.accepted = hist.accepted,
           \A p \in Threads : pc'[p].at \in {"idle", "settle", "dispatch", "resubmit"} \/ pc'[p] = pc[p],
           \A p \in Threads : pc'[p] = pc[p] \/ pc[p].at \in {"idle", "settle"},
           core.mail \subseteq hist'.reached \cup core'.mail
              \cup UNION {e.ids : e \in {f \in Underway' : f.kind = "unconsumed"}},
           session.unconsumed \subseteq session'.unconsumed,
           \A e \in Underway : e.kind = "unconsumed" => e \in Underway' \/ e.ids \subseteq session'.unconsumed,
           ~core'.open => core'.mail = {}, MailboxFree \/ core'.open = core.open
    PROVE  KeepsSupplements'
<1>1. pc'["lane"].at = "save_entry" => core'.open
  BY ThreadsApart DEF KeepsSupplements, MailboxFree
<1>2. ASSUME ~hist'.undone, NEW q \in Threads, Restores(q)'
      PROVE  pc'[q].image.unconsumed = pc'[q].left.unconsumed
  BY <1>2 DEF KeepsSupplements, Restores, HistGrows, SavingSteps
<1>3. ASSUME ~hist'.undone, NEW s \in hist'.accepted
      PROVE  Kept(s)'
  <2>1. Kept(s)
    BY <1>3 DEF KeepsSupplements, HistGrows
  <2>2. CASE s \in hist.reached
    BY <2>2 DEF Kept, HistGrows
  <2>3. CASE s \in core.mail
    BY <2>3 DEF Kept, OnTheWay
  <2>4. CASE s \in session.unconsumed
    BY <2>4 DEF Kept
  <2>5. CASE OnTheWay(s)
    BY <2>5 DEF Kept, OnTheWay
  <2>6. CASE InHandoff(s)
    BY <2>6, ThreadsApart DEF Kept, InHandoff, HandsOff
  <2> QED BY <2>1, <2>2, <2>3, <2>4, <2>5, <2>6 DEF Kept
<1> QED BY <1>1, <1>2, <1>3 DEF KeepsSupplements

LEMMA CoreStartKeeps ==
    ASSUME Types, KeepsSupplements, CoreStart
    PROVE  KeepsSupplements'
<1> DEFINE es == <<Event("started", core'.run.turn, core'.run.ids, "none")>>
<1>1. core'.open = core.open /\ core'.mail = core.mail /\ channel' = channel \o es
  BY Unpacked, CoreStartEffect
<1>2. UNCHANGED <<session, hand, pc, hist>>
  BY DEF CoreStart
<1>3. es \in Seq(EventType)
  <2>1. core'.run \in SubmissionType /\ core'.run.turn \in Turns
    BY Unpacked, CoreStartEffect
  <2>2. core'.run.ids \in SUBSET Names /\ "none" \in Hows
    BY <2>1 DEF SubmissionType, Hows
  <2>3. Event("started", core'.run.turn, core'.run.ids, "none") \in EventType
    BY <2>1, <2>2, EventIs
  <2> QED BY <2>3
<1> HIDE DEF es
<1>4. Underway \subseteq Underway'
  BY <1>1, <1>2, <1>3, Unpacked, EmitUnderway
<1> QED BY <1>1, <1>2, <1>4, HistPlain, Unpacked, EventsKeepSupplements DEF KeepsSupplements

LEMMA CoreTakeKeeps ==
    ASSUME Types, KeepsSupplements, CoreTake
    PROVE  KeepsSupplements'
<1>1. core'.open = core.open /\ core'.mail = {}
  BY Unpacked, CoreTakeEffect
<1>2. UNCHANGED <<session, channel, hand, pc>>
  BY DEF CoreTake
<1>3. HistGrows /\ hist'.accepted = hist.accepted /\ core.mail \subseteq hist'.reached
  BY Unpacked DEF CoreTake, HistType, HistGrows
<1>4. Underway' = Underway
  BY <1>2 DEF Underway
<1> QED BY <1>1, <1>2, <1>3, <1>4, EventsKeepSupplements

LEMMA CoreCloseKeeps ==
    ASSUME Types, KeepsSupplements, NEW how \in Outcomes, CoreClose(how)
    PROVE  KeepsSupplements'
<1> DEFINE projected == Event("projected", core.run.turn, {}, how)
           unconsumed == Event("unconsumed", core.run.turn, core.mail, how)
           es == <<projected>> \o (IF core.mail = {} THEN <<>> ELSE <<unconsumed>>)
<1>1. /\ core'.mail = {} /\ projected \in EventType /\ unconsumed \in EventType
      /\ channel' = channel \o es
  BY CoreCloseEffect, Unpacked
<1>2. UNCHANGED <<session, hand, pc, hist>> /\ MailboxFree
  BY DEF CoreClose
<1>3. unconsumed.kind = "unconsumed" /\ unconsumed.ids = core.mail
  BY DEF Event
<1> HIDE DEF projected, unconsumed
<1>4. es \in Seq(EventType) /\ (core.mail # {} => unconsumed \in ToSet(es))
  <2>1. CASE core.mail = {}
    BY <1>1, <2>1
  <2>2. CASE core.mail # {}
    <3> DEFINE first == <<projected>>
               second == <<unconsumed>>
    <3>1. first \in Seq(EventType) /\ second \in Seq(EventType) /\ unconsumed \in ToSet(second)
      BY <1>1, ElementsOfOne
    <3>2. es = first \o second
      BY <2>2
    <3> HIDE DEF es, first, second
    <3>3. first \o second \in Seq(EventType)
      BY <3>1
    <3>4. ToSet(first \o second) = ToSet(first) \cup ToSet(second)
      BY <3>1, ElementsOfConcat
    <3> HIDE DEF ToSet
    <3> QED BY <3>1, <3>2, <3>3, <3>4
  <2> QED BY <2>1, <2>2
<1> HIDE DEF es
<1>5. Underway' = Underway \cup ToSet(es)
  BY <1>1, <1>2, <1>4, Unpacked, EmitUnderway
<1>6. core.mail \subseteq UNION {e.ids : e \in {f \in Underway' : f.kind = "unconsumed"}}
  BY <1>3, <1>4, <1>5
<1> QED BY <1>1, <1>2, <1>5, <1>6, HistPlain, Unpacked, EventsKeepSupplements

LEMMA CoreFinishKeeps ==
    ASSUME Types, KeepsSupplements, CoreFinish
    PROVE  KeepsSupplements'
<1> DEFINE e == Event("finished", core.run.turn, {}, core.closing)
           es == <<e>>
<1>1. core'.open = core.open /\ core'.mail = core.mail /\ e \in EventType /\ channel' = channel \o es
  BY Unpacked, CoreFinishEffect
<1> HIDE DEF e
<1>2. UNCHANGED <<session, hand, pc, hist>> /\ es \in Seq(EventType)
  BY <1>1 DEF CoreFinish
<1> HIDE DEF es
<1>3. Underway \subseteq Underway'
  BY <1>1, <1>2, Unpacked, EmitUnderway
<1> QED BY <1>1, <1>2, <1>3, HistPlain, Unpacked, EventsKeepSupplements DEF KeepsSupplements

LEMMA DrainKeeps ==
    ASSUME Types, KeepsSupplements, NEW h \in Handlers, Drain(h)
    PROVE  KeepsSupplements'
<1>1. Underway' = Underway
  BY Unpacked, DrainUnderway
<1>2. UNCHANGED <<session, core, pc>>
  BY DEF Drain
<1>3. HistGrows /\ hist'.accepted = hist.accepted
  BY Unpacked DEF Drain, HistType, HistGrows
<1> QED BY <1>1, <1>2, <1>3, EventsKeepSupplements DEF KeepsSupplements

(* Handling an event other than the one that hands supplements back. *)
LEMMA HandlingKeepsSupplements ==
    ASSUME Types, KeepsSupplements, NEW h \in Handlers, NEW kind, Handle(h, kind),
           session.unconsumed \subseteq session'.unconsumed,
           kind = "unconsumed" => Head(hand[h]).ids \subseteq session'.unconsumed,
           \/ pc' = pc \/ (Alone(h) /\ pc'[h].at \in {"dispatch", "resubmit"})
    PROVE  KeepsSupplements'
<1>1. Underway = Underway' \cup {Head(hand[h])} /\ Head(hand[h]).kind = kind
  BY Unpacked, HandleUnderway, HandleEffect
<1>2. HistGrows /\ hist'.accepted = hist.accepted
  BY Unpacked, HandleEffect DEF HistGrows
<1>3. core' = core /\ pc[h].at \in {"idle", "settle"}
  BY DEF Handle, Handling, At
<1>4. /\ \A p \in Threads : pc'[p].at \in {"idle", "settle", "dispatch", "resubmit"} \/ pc'[p] = pc[p]
      /\ \A p \in Threads : pc'[p] = pc[p] \/ pc[p].at \in {"idle", "settle"}
  BY <1>3, ThreadsApart DEF Alone
<1>5. \A e \in Underway : e.kind = "unconsumed" => e \in Underway' \/ e.ids \subseteq session'.unconsumed
  BY <1>1
<1> QED BY <1>2, <1>3, <1>4, <1>5, EventsKeepSupplements DEF KeepsSupplements

LEMMA HandleStartedKeeps ==
    ASSUME Types, KeepsSupplements, NEW h \in Handlers, HandleStarted(h)
    PROVE  KeepsSupplements'
<1>1. Head(hand[h]).ids \in SUBSET Names
  BY Unpacked, HandleEffect DEF HandleStarted, EventType
<1>2. session'.unconsumed = session.unconsumed
  BY <1>1, Unpacked, ActivatedEffect DEF HandleStarted
<1> QED BY <1>2, HandlingKeepsSupplements DEF HandleStarted

LEMMA HandlerMoves ==
    ASSUME Types, NEW h \in Handlers, NEW x \in {"dispatch", "resubmit"}, Go(h, x)
    PROVE  Alone(h) /\ pc'[h].at = x
BY Moves, Unpacked, ThreadsApart DEF Steps, HandlerSteps, HandoffSteps

LEMMA HandleProjectedKeeps ==
    ASSUME Types, KeepsSupplements, NEW h \in Handlers, HandleProjected(h)
    PROVE  KeepsSupplements'
<1>1. session'.unconsumed = session.unconsumed
  BY Unpacked DEF HandleProjected, SessionType
<1> QED BY <1>1, HandlerMoves, HandlingKeepsSupplements DEF HandleProjected

LEMMA HandleUnconsumedKeeps ==
    ASSUME Types, KeepsSupplements, NEW h \in Handlers, HandleUnconsumed(h)
    PROVE  KeepsSupplements'
<1>1. session'.unconsumed = session.unconsumed \cup Head(hand[h]).ids
  BY Unpacked DEF HandleUnconsumed, SessionType
<1> QED BY <1>1, HandlingKeepsSupplements DEF HandleUnconsumed

LEMMA HandleFinishedKeeps ==
    ASSUME Types, KeepsSupplements, NEW h \in Handlers, HandleFinished(h)
    PROVE  KeepsSupplements'
<1>1. session'.unconsumed = session.unconsumed
  BY Unpacked, FinishedEffect DEF HandleFinished, SameQueue
<1>2. Then(Head(hand[h]).how) \in {"dispatch", "resubmit"}
  BY DEF Then
<1> QED BY <1>1, <1>2, HandlerMoves, HandlingKeepsSupplements DEF HandleFinished

LEMMA ResubmitKeeps ==
    ASSUME Types, KeepsSupplements, NEW h \in Handlers, Resubmit(h)
    PROVE  KeepsSupplements'
<1> DEFINE x == IF session.unconsumed = {} THEN "dispatch" ELSE "handoff"
<1>1. /\ pc[h].at = "resubmit" /\ UNCHANGED <<core, channel, hand, hist>> /\ h \in Threads
      /\ Carry(h, x, NoTurn, session.unconsumed)
  BY ThreadsApart DEF Resubmit, At
<1>2. session.unconsumed \in SUBSET Names
  BY Unpacked DEF SessionType
<1>3. x \in Steps /\ NoTurn \in MaybeTurn
  BY DEF Steps, HandlerSteps, HandoffSteps, MaybeTurn
<1> HIDE DEF x
<1>4. Alone(h) /\ pc'[h].at = x /\ pc'[h].ids = session.unconsumed
  BY <1>1, <1>2, <1>3, Moves, Unpacked
<1>5. x \in {"dispatch", "handoff"} /\ (session.unconsumed # {} => x = "handoff")
  BY DEF x
<1>6. session.unconsumed \subseteq session'.unconsumed \cup
        (IF pc'[h].at \in {"handoff", "save_handoff", "send_handoff"} /\ h \in Handlers
         THEN pc'[h].ids ELSE {})
  BY <1>4, <1>5
<1> QED BY <1>1, <1>4, <1>5, <1>6, SameMail, HistPlain, Unpacked, ThreadKeepsSupplements
        DEF HandsOff, SavingSteps

LEMMA HandoffKeeps ==
    ASSUME Types, KeepsSupplements, NEW h \in Handlers, Handoff(h)
    PROVE  KeepsSupplements'
<1>1. pc[h].at = "handoff" /\ UNCHANGED <<core, channel, hand>> /\ h \in Threads
  BY ThreadsApart DEF Handoff, At
<1>2. pc[h].ids \in SUBSET Names
  BY <1>1, Unpacked
<1>3. CASE session' = Retained(session, pc[h].ids) /\ Return(h) /\ hist' = hist
  <2>1. session'.unconsumed = session.unconsumed \cup pc[h].ids
    BY <1>2, <1>3, Unpacked, RetainedEffect
  <2>2. Alone(h) /\ pc'[h].at \in {"idle", "settle"}
    BY <1>1, <1>3, Moves, Unpacked
  <2> QED BY <1>1, <1>3, <2>1, <2>2, SameMail, HistPlain, Unpacked, ThreadKeepsSupplements DEF SavingSteps
<1>4. CASE /\ CanMake /\ hist' = Made(hist) /\ session' = NewTurn(session, Fresh, pc[h].ids)
           /\ Save(h, "save_handoff", Fresh, pc[h].ids)
  <2>1. Fresh \in Turns /\ Fresh \in MaybeTurn /\ "save_handoff" \in Steps
    BY <1>4, Unpacked, FreshOK DEF MaybeTurn, Steps, HandlerSteps, HandoffSteps
  <2>2. session' \in SessionType /\ SameQueue(session', session)
    BY <1>2, <1>4, <2>1, Unpacked, NewTurnEffect
  <2>3. session'.unconsumed = session.unconsumed
    BY <2>2 DEF SameQueue
  <2>4. /\ Alone(h) /\ pc'[h].at = "save_handoff" /\ pc'[h].ids = pc[h].ids
        /\ pc'[h].image = session /\ pc'[h].left = session'
    BY <1>1, <1>2, <1>4, <2>1, <2>2, Saving, Unpacked
  <2> QED BY <1>1, <1>4, <2>3, <2>4, SameMail, HistPlain, Unpacked, ThreadKeepsSupplements
  DEF SavingSteps, HandsOff
<1> QED BY <1>3, <1>4 DEF Handoff

LEMMA HandoffFailsEffect ==
    ASSUME Types, NEW h \in Handlers, HandoffFails(h)
    PROVE  /\ session' = Retained(pc[h].image, pc[h].ids)
           /\ (hist'.undone <=> (hist.undone \/ session # pc[h].left))
           /\ hist'.faults = hist.faults + 1
           /\ hist'.made = hist.made /\ hist'.sent = hist.sent /\ hist'.hurried = hist.hurried
           /\ hist'.overtaken = hist.overtaken /\ hist'.stranded = hist.stranded
           /\ hist'.accepted = hist.accepted /\ hist'.reached = hist.reached
           /\ hist'.elder = hist.elder /\ hist'.last = hist.last
           /\ Alone(h) /\ pc'[h].at \in {"idle", "settle"} /\ pc'[h].at = pc[h].back
<1> DEFINE undone == hist.undone \/ session # pc[h].left
<1>1. hist' = [hist EXCEPT !.faults = @ + 1, !.undone = undone]
  BY DEF HandoffFails, Failed
<1> HIDE DEF undone
<1>2. /\ hist'.undone = undone /\ hist'.faults = hist.faults + 1
      /\ hist'.made = hist.made /\ hist'.sent = hist.sent /\ hist'.hurried = hist.hurried
      /\ hist'.overtaken = hist.overtaken /\ hist'.stranded = hist.stranded
      /\ hist'.accepted = hist.accepted /\ hist'.reached = hist.reached
      /\ hist'.elder = hist.elder /\ hist'.last = hist.last
  BY <1>1, Unpacked DEF HistType
<1> QED BY <1>2, Moves, Unpacked, ThreadsApart DEF HandoffFails, undone

LEMMA HandoffFailsKeeps ==
    ASSUME Types, KeepsSupplements, NEW h \in Handlers, HandoffFails(h), UNCHANGED <<channel, hand>>,
           pc[h].at \in {"save_handoff", "send_handoff"}
    PROVE  KeepsSupplements'
<1>1. h \in Threads /\ core' = core /\ pc[h].ids \in SUBSET Names /\ pc[h].image \in SessionType
  BY Unpacked, ThreadFields, ThreadsApart DEF HandoffFails
<1>2. session'.unconsumed = pc[h].image.unconsumed \cup pc[h].ids
  BY <1>1, HandoffFailsEffect, RetainedEffect
<1>3. ~hist'.undone => session.unconsumed \cup pc[h].ids \subseteq session'.unconsumed
  BY <1>1, <1>2, HandoffFailsEffect DEF KeepsSupplements, Restores, SavingSteps
<1>4. HistGrows
  BY HandoffFailsEffect DEF HistGrows
<1> QED BY <1>1, <1>3, <1>4, SameMail, HandoffFailsEffect, ThreadKeepsSupplements DEF SavingSteps

LEMMA HandoffSavedKeeps ==
    ASSUME Types, KeepsSupplements, NEW h \in Handlers, HandoffSaved(h)
    PROVE  KeepsSupplements'
<1>1. pc[h].at = "save_handoff" /\ UNCHANGED <<channel, hand>> /\ h \in Threads
  BY ThreadsApart DEF HandoffSaved, At
<1>2. CASE Go(h, "send_handoff") /\ UNCHANGED <<session, core, hist>>
  <2>1. "send_handoff" \in Steps
    BY DEF Steps, HandlerSteps, HandoffSteps
  <2>2. /\ Alone(h) /\ pc'[h].at = "send_handoff" /\ pc'[h].ids = pc[h].ids
        /\ pc'[h].image = pc[h].image /\ pc'[h].left = pc[h].left
    BY <1>1, <1>2, <2>1, GoEffect, Unpacked
  <2>3. ~hist.undone => pc[h].image.unconsumed = pc[h].left.unconsumed
    BY <1>1 DEF KeepsSupplements, Restores, SavingSteps
  <2>4. ~hist'.undone => pc'[h].image.unconsumed = pc'[h].left.unconsumed
    BY <1>2, <2>2, <2>3
  <2> QED BY <1>1, <1>2, <2>2, <2>4, SameMail, HistPlain, Unpacked, ThreadKeepsSupplements DEF HandsOff
<1>3. CASE HandoffFails(h)
  BY <1>1, <1>3, HandoffFailsKeeps
<1> QED BY <1>2, <1>3 DEF HandoffSaved

LEMMA SendHandoffKeeps ==
    ASSUME Types, KeepsSupplements, NEW h \in Handlers, SendHandoff(h)
    PROVE  KeepsSupplements'
<1>1. /\ pc[h].at = "send_handoff" /\ UNCHANGED <<channel, hand>> /\ h \in Threads
      /\ pc[h].ids \in SUBSET Names
  BY ThreadsApart, Unpacked DEF SendHandoff, At
<1>2. CASE SubmitToCore(pc[h].turn, pc[h].ids, FALSE) /\ Go(h, "dispatch") /\ UNCHANGED session
  <2>1. Alone(h) /\ pc'[h].at = "dispatch"
    BY <1>2, HandlerMoves
  <2>2. MailKept /\ HistGrows /\ hist'.accepted = hist.accepted /\ pc[h].ids \subseteq hist'.reached
    BY <1>2, SubmittedMail, Unpacked, ZenonT(60)
  <2> QED BY <1>1, <1>2, <2>1, <2>2, ThreadKeepsSupplements DEF SavingSteps
<1>3. CASE HandoffFails(h)
  BY <1>1, <1>3, HandoffFailsKeeps
<1>4. CASE /\ Strand(pc[h].turn) /\ Return(h) /\ UNCHANGED core
           /\ session' = Retained(session, pc[h].ids)
  <2>1. session'.unconsumed = session.unconsumed \cup pc[h].ids
    BY <1>1, <1>4, Unpacked, RetainedEffect
  <2>2. Alone(h) /\ pc'[h].at \in {"idle", "settle"}
    BY <1>1, <1>4, Moves, Unpacked
  <2> QED BY <1>1, <1>4, <2>1, <2>2, SameMail, HistPlain, Unpacked, ThreadKeepsSupplements DEF SavingSteps
<1> QED BY <1>2, <1>3, <1>4 DEF SendHandoff

LEMMA KeepsSupplementsInit == Init => KeepsSupplements
<1> SUFFICES ASSUME Init PROVE KeepsSupplements
  OBVIOUS
<1>1. pc = [p \in Threads |-> Resting("idle", NoCommand)] /\ core.mail = {} /\ hist.accepted = {}
  BY DEF Init
<1>2. \A p \in Threads : pc[p].at = "idle"
  BY <1>1 DEF Resting
<1> QED BY <1>1, <1>2, ThreadsApart DEF KeepsSupplements, Restores, SavingSteps

LEMMA KeepsSupplementsStep == Types /\ Types' /\ KeepsSupplements /\ [Next]_vars => KeepsSupplements'
<1> SUFFICES ASSUME Types, Types', KeepsSupplements, [Next]_vars PROVE KeepsSupplements'
  OBVIOUS
<1>1. CASE UNCHANGED vars
  BY <1>1 DEF vars, KeepsSupplements, Kept, OnTheWay, InHandoff, HandsOff, Underway, Restores
<1>2. CASE Next
  BY <1>2, DispatchNextKeeps, SendQueuedKeeps, SubmitKeeps, FireKeeps, SupplementKeeps, StartKeeps,
     TurnSavedKeeps, AskKeeps, SendKeeps, ResolveKeeps, ResolveSendKeeps, NoteKeeps, NoteSavedKeeps,
     EnqueueKeeps, QueueSavedKeeps, AppendEntryKeeps, EntrySavedKeeps, SettledKeeps, SendNowKeeps,
     DispatchNowKeeps, SupplementNowKeeps, NowSavedKeeps, CancelKeeps, StopSavedKeeps, StopCoreKeeps,
     CoreStartKeeps, CoreTakeKeeps, CoreCloseKeeps, CoreFinishKeeps, DrainKeeps, HandleStartedKeeps,
     HandleProjectedKeeps, HandleUnconsumedKeeps, HandleFinishedKeeps, ResubmitKeeps, HandoffKeeps,
     HandoffSavedKeeps, SendHandoffKeeps, Zenon DEF Next
<1> QED BY <1>1, <1>2

(* A supplement the user was told is accepted reaches Core's turn, or is   *)
(* kept for a turn to come, unless a save that failed has undone it.       *)
THEOREM AcceptedSupplementsAreKept == Spec => []SupplementsAreKept
<1>1. Init => Types /\ KeepsSupplements
  BY TypesInit, KeepsSupplementsInit
<1>2. Types /\ KeepsSupplements /\ [Next]_vars => (Types /\ KeepsSupplements)'
  BY TypesStep, KeepsSupplementsStep
<1>3. KeepsSupplements => SupplementsAreKept
  BY DEF KeepsSupplements, SupplementsAreKept, Kept, OnTheWay, InHandoff
<1> QED BY <1>1, <1>2, <1>3, PTL DEF Spec

-----------------------------------------------------------------------------
(* What only grows: a session's turns are turns that were made, its        *)
(* messages were sent, and what Core tells it Core knows.                  *)

Within(s, made, sent, known) ==
  /\ s.pending <= made /\ s.active <= made
  /\ \A i \in DOMAIN s.queue : s.queue[i].turn <= made /\ s.queue[i].id \in sent
  /\ \A t \in Turns : t > made => s.turns[t] = "none"
  /\ s.askedFor \subseteq sent /\ s.unconsumed \subseteq known

HandingSteps == {"handoff", "save_handoff", "send_handoff"}

ThreadWithin(p, r, made, sent, known) ==
  /\ Within(r.image, made, sent, known)
  /\ r.ids \subseteq sent
  /\ Says(p, r) => r.cmd \in sent
  /\ r.at \in HandingSteps => r.ids \subseteq known

CoreWithin ==
  /\ core.known \subseteq hist.sent /\ core.mail \subseteq core.known
  /\ \A i \in DOMAIN core.queue : core.queue[i].ids \subseteq core.known
  /\ core.run.ids \subseteq core.known

Grown ==
  /\ Within(session, hist.made, hist.sent, core.known)
  /\ \A p \in Threads : ThreadWithin(p, pc[p], hist.made, hist.sent, core.known)
  /\ CoreWithin
  /\ \A e \in Underway : e.ids \subseteq core.known

(* Nothing of what was made, sent or known is lost. *)
Growing ==
  /\ hist'.made \in Nat /\ hist.made \in Nat /\ hist.made <= hist'.made
  /\ hist.sent \subseteq hist'.sent /\ core.known \subseteq core'.known

LEMMA WithinGrows ==
    ASSUME NEW s \in SessionType, Growing, Within(s, hist.made, hist.sent, core.known)
    PROVE  Within(s, hist'.made, hist'.sent, core'.known)
<1>1. s.pending \in Nat /\ s.active \in Nat /\ \A i \in DOMAIN s.queue : s.queue[i].turn \in Nat
  <2>1. s.queue \in Seq(Item)
    BY DEF SessionType, Item
  <2>2. \A i \in DOMAIN s.queue : s.queue[i] \in Item
    BY <2>1
  <2> QED BY <2>2 DEF SessionType, MaybeTurn, Turns, NoTurn, Item
<1>2. \A t \in Turns : t \in Nat
  BY DEF Turns
<1> QED BY <1>1, <1>2 DEF Within, Growing

LEMMA ThreadGrows ==
    ASSUME NEW p, NEW r, r.image \in SessionType, Growing,
           ThreadWithin(p, r, hist.made, hist.sent, core.known)
    PROVE  ThreadWithin(p, r, hist'.made, hist'.sent, core'.known)
<1>1. Within(r.image, hist'.made, hist'.sent, core'.known)
  BY WithinGrows DEF ThreadWithin
<1> QED BY <1>1 DEF ThreadWithin, Growing

LEMMA NothingWithin ==
    ASSUME NEW made \in Nat, NEW sent, NEW known
    PROVE  Within(NoImage, made, sent, known)
BY DEF Within, NoImage, NewSession, NoTurn, Turns

LEMMA GrownThreads ==
    ASSUME Types, Grown, Growing, NEW p \in Threads, Alone(p),
           ThreadWithin(p, pc'[p], hist'.made, hist'.sent, core'.known)
    PROVE  \A q \in Threads : ThreadWithin(q, pc'[q], hist'.made, hist'.sent, core'.known)
<1> TAKE q \in Threads
<1>1. CASE q = p
  BY <1>1
<1>2. CASE q # p
  <2>1. pc'[q] = pc[q] /\ pc[q].image \in SessionType
    BY <1>2, ThreadFields, Unpacked DEF Alone
  <2> QED BY <2>1, ThreadGrows DEF Grown
<1> QED BY <1>1, <1>2

(* A step of a thread. *)
LEMMA ThreadStepGrows ==
    ASSUME Types, Grown, Growing, NEW p \in Threads, Alone(p), UNCHANGED <<channel, hand>>,
           ThreadWithin(p, pc'[p], hist'.made, hist'.sent, core'.known),
           Within(session', hist'.made, hist'.sent, core'.known), CoreWithin'
    PROVE  Grown'
<1>1. \A e \in Underway' : e.ids \subseteq core'.known
  BY DEF Grown, Growing, Underway
<1> QED BY <1>1, GrownThreads DEF Grown

(* What a thread has after each way it has to go on. *)
LEMMA EndWithin ==
    ASSUME Types, Types', NEW p \in Threads, End(p)
    PROVE  /\ Alone(p)
           /\ ThreadWithin(p, pc'[p], hist'.made, hist'.sent, core'.known)
<1>1. /\ Alone(p) /\ pc'[p].at = "idle" /\ pc'[p].back = "idle" /\ pc'[p].ids = {}
      /\ pc'[p].image = NoImage
  BY EndEffect, Unpacked
<1>2. hist'.made \in Nat
  BY DEF Types, HistType
<1> QED BY <1>1, <1>2, NothingWithin DEF ThreadWithin, Says, HandingSteps

LEMMA ReturnWithin ==
    ASSUME Types, Types', Grown, Growing, NEW p \in Threads, Return(p)
    PROVE  /\ Alone(p)
           /\ ThreadWithin(p, pc'[p], hist'.made, hist'.sent, core'.known)
<1>1. /\ Alone(p) /\ pc'[p].at = pc[p].back /\ pc'[p].back = pc[p].back /\ pc'[p].ids = {}
      /\ pc'[p].image = NoImage
      /\ pc'[p].cmd = IF pc[p].back = "settle" THEN pc[p].cmd ELSE NoCommand
  BY ReturnEffect, Unpacked
<1>2. hist'.made \in Nat /\ pc[p].back \in {"idle", "settle"}
  BY ThreadFields, Unpacked DEF Types, HistType
<1>3. pc[p].back = "settle" => pc[p].cmd \in hist'.sent
  BY DEF Grown, ThreadWithin, Says, Growing
<1> QED BY <1>1, <1>2, <1>3, NothingWithin DEF ThreadWithin, Says, HandingSteps

LEMMA BeginWithin ==
    ASSUME Types, Types', NEW p \in Threads, NEW x \in Steps \ HandingSteps,
           NEW c \in Names, c \in hist'.sent, Begin(p, x, c)
    PROVE  /\ Alone(p)
           /\ ThreadWithin(p, pc'[p], hist'.made, hist'.sent, core'.known)
<1>1. /\ Alone(p) /\ pc'[p].at = x /\ pc'[p].ids = {} /\ pc'[p].image = NoImage /\ pc'[p].cmd = c
  BY BeginEffect, Unpacked
<1>2. hist'.made \in Nat
  BY DEF Types, HistType
<1> QED BY <1>1, <1>2, NothingWithin DEF ThreadWithin, Says

(* The steps at which a thread has a command of its own. *)
Speaking(p, x) ==
  x \in {"start", "enqueue", "append", "settle"} \/ (p = "task" /\ x \in {"save_turn", "send"})

LEMMA GoWithin ==
    ASSUME Types, Types', Grown, Growing, NEW p \in Threads, NEW x \in Steps,
           Speaking(p, x) => Says(p, pc[p]),
           x \in HandingSteps => pc[p].at \in HandingSteps, Go(p, x)
    PROVE  /\ Alone(p)
           /\ ThreadWithin(p, pc'[p], hist'.made, hist'.sent, core'.known)
<1>1. /\ Alone(p) /\ pc'[p].at = x /\ pc'[p].ids = pc[p].ids /\ pc'[p].image = pc[p].image
      /\ pc'[p].cmd = pc[p].cmd /\ pc'[p].back = pc[p].back
  BY GoEffect, Unpacked
<1>2. ThreadWithin(p, pc[p], hist'.made, hist'.sent, core'.known)
  BY ThreadGrows, ThreadFields, Unpacked DEF Grown
<1> QED BY <1>1, <1>2 DEF ThreadWithin, Says, Speaking

LEMMA CarryWithin ==
    ASSUME Types, Types', Grown, Growing, NEW p \in Threads, NEW x \in Steps,
           Speaking(p, x) => Says(p, pc[p]), NEW t \in MaybeTurn, NEW i \in SUBSET Names,
           i \subseteq hist'.sent, x \in HandingSteps => i \subseteq core'.known, Carry(p, x, t, i)
    PROVE  /\ Alone(p)
           /\ ThreadWithin(p, pc'[p], hist'.made, hist'.sent, core'.known)
<1>1. /\ Alone(p) /\ pc'[p].at = x /\ pc'[p].ids = i /\ pc'[p].image = pc[p].image
      /\ pc'[p].cmd = pc[p].cmd /\ pc'[p].back = pc[p].back
  BY CarryEffect, Unpacked
<1>2. ThreadWithin(p, pc[p], hist'.made, hist'.sent, core'.known)
  BY ThreadGrows, ThreadFields, Unpacked DEF Grown
<1> QED BY <1>1, <1>2 DEF ThreadWithin, Says, Speaking

LEMMA SaveWithin ==
    ASSUME Types, Types', Grown, Growing, NEW p \in Threads, NEW x \in Steps,
           Speaking(p, x) => Says(p, pc[p]), NEW t \in MaybeTurn, NEW i \in SUBSET Names,
           i \subseteq hist'.sent, x \in HandingSteps => i \subseteq core'.known, Save(p, x, t, i)
    PROVE  /\ Alone(p)
           /\ ThreadWithin(p, pc'[p], hist'.made, hist'.sent, core'.known)
<1>1. session \in SessionType /\ session' \in SessionType
  BY Unpacked DEF Types, SessionOK
<1>2. /\ Alone(p) /\ pc'[p].at = x /\ pc'[p].ids = i /\ pc'[p].image = session
      /\ pc'[p].cmd = pc[p].cmd /\ pc'[p].back = pc[p].back
  BY <1>1, SaveEffect, Unpacked
<1>3. ThreadWithin(p, pc[p], hist'.made, hist'.sent, core'.known)
  BY ThreadGrows, ThreadFields, Unpacked DEF Grown
<1>4. Within(session, hist'.made, hist'.sent, core'.known)
  BY <1>1, WithinGrows DEF Grown
<1> QED BY <1>2, <1>3, <1>4 DEF ThreadWithin, Says, Speaking

LEMMA RefusedWithin ==
    ASSUME Types, Types', Grown, Growing, NEW p \in Threads, Refused(p),
           pc[p].at \in {"start", "save_turn", "send"}
    PROVE  /\ Alone(p)
           /\ ThreadWithin(p, pc'[p], hist'.made, hist'.sent, core'.known)
<1>1. CASE End(p)
  BY <1>1, EndWithin
<1>2. CASE p = "task" /\ Begin(p, "enqueue", pc[p].cmd)
  <2>1. Says(p, pc[p])
    BY <1>2 DEF Says
  <2>2. pc[p].cmd \in Names /\ pc[p].cmd \in hist'.sent
    BY <2>1, ThreadFields, Unpacked DEF Grown, ThreadWithin, Growing
  <2>3. "enqueue" \in Steps \ HandingSteps
    BY AllSteps DEF HandingSteps
  <2> QED BY <1>2, <2>2, <2>3, BeginWithin
<1> QED BY <1>1, <1>2 DEF Refused

LEMMA SameGrowing ==
    ASSUME Types, core'.known = core.known, hist'.made = hist.made, hist'.sent = hist.sent
    PROVE  Growing
BY Unpacked DEF Growing, HistType

(* Core is left as it was, and history too but for what failed. *)
LEMMA SameCoreWithin ==
    ASSUME Grown, Growing, core' = core
    PROVE  CoreWithin'
BY DEF Grown, CoreWithin, Growing

LEMMA HistKept ==
    ASSUME hist \in HistType,
           \/ hist' = hist \/ hist' = Failed(hist)
           \/ \E t : Strand(t)
           \/ \E b : hist' = [hist EXCEPT !.hurried = b]
    PROVE  hist'.made = hist.made /\ hist'.sent = hist.sent
BY DEF HistType, Failed, Strand

(* A thread moves on with the session's turns and messages as they were. *)
LEMMA PlainStepGrows ==
    ASSUME Types, Grown, Growing, NEW p \in Threads, Alone(p), UNCHANGED <<core, channel, hand>>,
           ThreadWithin(p, pc'[p], hist'.made, hist'.sent, core'.known),
           Within(session', hist'.made, hist'.sent, core'.known)
    PROVE  Grown'
BY ThreadStepGrows, SameCoreWithin

LEMMA SubmittedWithin ==
    ASSUME Types, Types', Grown, NEW t \in Turns, NEW ids \in SUBSET Names, NEW named \in BOOLEAN,
           ids \subseteq hist.sent, SubmitToCore(t, ids, named)
    PROVE  Growing /\ CoreWithin'
<1>1. hist' = [hist EXCEPT !.reached = @ \cup ids]
  BY DEF SubmitToCore
<1>2. hist'.made = hist.made /\ hist'.sent = hist.sent
  BY <1>1, Unpacked DEF HistType
<1>3. CASE core' = core
  BY <1>2, <1>3, SameGrowing, SameCoreWithin
<1>4. CASE core' # core
  <2> DEFINE sub == Submission(t, IF named THEN ids ELSE {})
             q == Append(core.queue, sub)
             mail == IF core.open THEN core.mail ELSE {}
             known == core.known \cup ids
  <2>1. core' = [core EXCEPT !.queue = q, !.open = TRUE, !.mail = mail, !.known = known]
    BY <1>4 DEF SubmitToCore
  <2>2. core.queue \in Seq(SubmissionType) /\ sub.ids \subseteq ids
    BY Unpacked DEF CoreOK, CoreType, Submission
  <2> HIDE DEF sub
  <2>3. \A i \in DOMAIN q : (i \in DOMAIN core.queue /\ q[i] = core.queue[i]) \/ q[i] = sub
    BY <2>2
  <2>4. mail \subseteq core.mail
    OBVIOUS
  <2> HIDE DEF q, mail, known
  <2>5. /\ core'.queue = q /\ core'.mail = mail /\ core'.known = known /\ core'.run = core.run
    BY <2>1, Unpacked DEF CoreOK, CoreType
  <2>6. known = core.known \cup ids
    BY DEF known
  <2>7. Growing
    BY <1>2, <2>5, <2>6, Unpacked DEF Growing, HistType
  <2>8. \A i \in DOMAIN q : q[i].ids \subseteq known
    BY <2>2, <2>3, <2>6 DEF Grown, CoreWithin
  <2> QED BY <1>2, <2>4, <2>5, <2>6, <2>7, <2>8 DEF Grown, CoreWithin
<1> QED BY <1>3, <1>4

(* A session with the turns and messages of another. *)
LEMMA SameWithin ==
    ASSUME NEW s, NEW r, NEW made, NEW sent, NEW known, Within(s, made, sent, known),
           r.pending = s.pending \/ r.pending = NoTurn, r.active = s.active \/ r.active = NoTurn,
           NoTurn <= made,
           r.queue = s.queue, r.turns = s.turns, r.askedFor \subseteq s.askedFor \cup sent,
           r.unconsumed \subseteq s.unconsumed \cup known
    PROVE  Within(r, made, sent, known)
<1>1. r.pending <= made /\ r.active <= made
  BY DEF Within
<1> QED BY <1>1 DEF Within

LEMMA MadeNat ==
    ASSUME Types
    PROVE  hist.made \in Nat /\ NoTurn <= hist.made
BY Unpacked DEF HistType, NoTurn

LEMMA DispatchNextGrows ==
    ASSUME Types, Types', Grown, NEW p \in Threads, DispatchNext(p)
    PROVE  Grown'
<1>1. UNCHANGED <<core, channel, hand, hist>> /\ Growing
  BY SameGrowing DEF DispatchNext
<1>2. CASE MayDispatch(session)
  <2> DEFINE item == Head(session.queue)
             next == IF item.afterStop THEN Dispatching(session, item).next ELSE "awaiting"
  <2>1. item \in Item /\ 1 \in DOMAIN session.queue /\ item = session.queue[1]
    BY <1>2, Unpacked, ReadyItem
  <2>2. session' = [Dispatching(session, item) EXCEPT !.next = next]
        /\ Carry(p, "send_queued", item.turn, {item.id})
    BY <1>2 DEF DispatchNext
  <2> HIDE DEF item
  <2>3. /\ Dispatching(session, item) \in SessionType
        /\ Dispatching(session, item).queue = session.queue
        /\ Dispatching(session, item).unconsumed = session.unconsumed
        /\ Dispatching(session, item).pending = item.turn
        /\ Dispatching(session, item).active = session.active
        /\ Dispatching(session, item).askedFor = session.askedFor
        /\ Dispatching(session, item).turns = session.turns
    BY <2>1, Unpacked, DispatchingEffect
  <2>4. /\ session'.queue = session.queue /\ session'.unconsumed = session.unconsumed
        /\ session'.pending = item.turn /\ session'.active = session.active
        /\ session'.askedFor = session.askedFor /\ session'.turns = session.turns
    BY <2>2, <2>3 DEF SessionType
  <2>5. Within(session', hist'.made, hist'.sent, core'.known) /\ item.id \in hist'.sent
    BY <1>1, <2>1, <2>4 DEF Grown, Within
  <2>6. item.turn \in MaybeTurn /\ {item.id} \in SUBSET Names /\ "send_queued" \in Steps
    BY <2>1, AllSteps DEF Item, MaybeTurn
  <2>7. Alone(p) /\ ThreadWithin(p, pc'[p], hist'.made, hist'.sent, core'.known)
    BY <1>1, <2>2, <2>5, <2>6, CarryWithin DEF Speaking, HandingSteps
  <2> QED BY <1>1, <2>5, <2>7, PlainStepGrows
<1>3. CASE ~MayDispatch(session)
  <2>1. session' = session /\ Return(p)
    BY <1>3 DEF DispatchNext
  <2>2. Within(session', hist'.made, hist'.sent, core'.known)
    BY <1>1, <2>1 DEF Grown
  <2> QED BY <1>1, <2>1, <2>2, ReturnWithin, PlainStepGrows
<1> QED BY <1>2, <1>3

LEMMA SendQueuedGrows ==
    ASSUME Types, Types', Grown, NEW p \in Threads, SendQueued(p)
    PROVE  Grown'
<1>1. pc[p].at = "send_queued" /\ UNCHANGED <<channel, hand>> /\ Return(p)
  BY DEF SendQueued, At
<1>2. pc[p].turn \in Turns /\ pc[p].ids \in SUBSET Names /\ pc[p].ids \subseteq hist.sent
  BY <1>1, ThreadFields, Unpacked DEF CarryingSteps, Grown, ThreadWithin
<1>3. CASE SubmitToCore(pc[p].turn, pc[p].ids, TRUE) /\ UNCHANGED session
  <2>1. Growing /\ CoreWithin'
    BY <1>2, <1>3, SubmittedWithin
  <2>2. Within(session', hist'.made, hist'.sent, core'.known)
    BY <1>3, <2>1, WithinGrows, Unpacked DEF Grown
  <2> QED BY <1>1, <2>1, <2>2, ReturnWithin, ThreadStepGrows
<1>4. CASE hist' = Failed(hist) /\ session' = DispatchRejected(session, pc[p].turn) /\ core' = core
  <2>1. Growing /\ hist'.made = hist.made /\ hist'.sent = hist.sent
    BY <1>4, HistKept, Unpacked, SameGrowing
  <2>2. Within(session', hist'.made, hist'.sent, core'.known)
    BY <1>4, <2>1, Unpacked, DispatchRejectedEffect, SameWithin, MadeNat DEF Grown
  <2> QED BY <1>1, <1>4, <2>1, <2>2, ReturnWithin, PlainStepGrows
<1> QED BY <1>3, <1>4 DEF SendQueued

LEMMA SentGrows ==
    ASSUME Types, Types', Grown, NEW p \in {"lane", "task"}, pc[p].at = "idle",
           NEW x \in {"start", "enqueue", "append"},
           NEW c \in Names, Begin(p, x, c), hist' = [hist EXCEPT !.sent = @ \cup {c}],
           UNCHANGED <<session, core, channel, hand>>
    PROVE  Grown'
<1>1. hist'.made = hist.made /\ hist'.sent = hist.sent \cup {c}
  BY Unpacked DEF HistType
<1>2. Growing
  BY <1>1, Unpacked DEF Growing, HistType
<1>3. Within(session', hist'.made, hist'.sent, core'.known)
  BY <1>2, WithinGrows, Unpacked DEF Grown
<1>4. x \in Steps \ HandingSteps /\ p \in Threads
  BY AllSteps, ThreadsApart DEF HandingSteps
<1> QED BY <1>1, <1>2, <1>3, <1>4, BeginWithin, PlainStepGrows

LEMMA SubmitGrows ==
    ASSUME Types, Types', Grown, NEW c \in Commands, Submit(c)
    PROVE  Grown'
<1>1. c \in Names /\ (IF Quiet(session) THEN "start" ELSE "enqueue") \in {"start", "enqueue", "append"}
  BY DEF Names
<1> QED BY <1>1, SentGrows DEF Submit, At

LEMMA FireGrows ==
    ASSUME Types, Types', Grown, NEW f \in Fires, Fire(f)
    PROVE  Grown'
<1>1. f \in Names /\ (IF Quiet(session) THEN "start" ELSE "enqueue") \in {"start", "enqueue", "append"}
  BY DEF Names
<1> QED BY <1>1, SentGrows DEF Fire, At

LEMMA SupplementGrows ==
    ASSUME Types, Types', Grown, NEW c \in Commands, Supplement(c)
    PROVE  Grown'
<1>1. c \in Names /\ (IF HasActive(session) THEN "append" ELSE "start") \in {"start", "enqueue", "append"}
  BY DEF Names
<1> QED BY <1>1, SentGrows DEF Supplement, At

(* A turn is made. *)
LEMMA MadeGrows ==
    ASSUME Types, CanMake, hist' = Made(hist), core' = core
    PROVE  /\ Growing /\ hist'.made = hist.made + 1 /\ hist'.made = Fresh /\ hist'.sent = hist.sent
           /\ hist'.made \in Nat
BY Unpacked DEF Growing, HistType, Made, Fresh

LEMMA NewTurnMakes ==
    ASSUME session \in SessionType, NEW t \in Turns, NEW ids \in SUBSET Names,
           session' = NewTurn(session, t, ids)
    PROVE  /\ session' \in SessionType /\ session'.unconsumed = session.unconsumed
           /\ session'.queue = session.queue /\ session'.dispatching = session.dispatching
           /\ session'.pending = t /\ session'.active = session.active
           /\ session'.cancelling = session.cancelling
           /\ session'.asking = session.asking /\ session'.askedFor = session.askedFor
           /\ session'.turns = [session.turns EXCEPT ![t] = "pending"]
           /\ session'.entries = [session.entries EXCEPT ![t] = ids]
<1> DEFINE r == NewTurn(session, t, ids)
<1>1. /\ r \in SessionType /\ SameQueue(r, session)
      /\ r.pending = t /\ r.active = session.active /\ r.cancelling = session.cancelling
      /\ r.asking = session.asking /\ r.askedFor = session.askedFor
      /\ r.turns = [session.turns EXCEPT ![t] = "pending"]
      /\ r.entries = [session.entries EXCEPT ![t] = ids]
  BY NewTurnEffect
<1>2. session' = r
  OBVIOUS
<1> HIDE DEF r
<1> QED BY <1>1, <1>2 DEF SameQueue

LEMMA RollsBack ==
    ASSUME session \in SessionType, NEW t, session' = RolledBack(session, t)
    PROVE  /\ session' \in SessionType /\ session'.unconsumed = session.unconsumed
           /\ session'.queue = session.queue /\ session'.dispatching = session.dispatching
           /\ session'.pending = IF session.pending = t THEN NoTurn ELSE session.pending
           /\ session'.active = IF session.active = t THEN NoTurn ELSE session.active
           /\ session'.cancelling = IF session.cancelling = t THEN NoTurn ELSE session.cancelling
           /\ session'.asking = session.asking /\ session'.askedFor = session.askedFor
           /\ session'.turns = [session.turns EXCEPT ![t] = "none"]
           /\ session'.entries = session.entries
<1> DEFINE r == RolledBack(session, t)
<1>1. /\ r \in SessionType /\ SameQueue(r, session)
      /\ r.pending = IF session.pending = t THEN NoTurn ELSE session.pending
      /\ r.active = IF session.active = t THEN NoTurn ELSE session.active
      /\ r.cancelling = IF session.cancelling = t THEN NoTurn ELSE session.cancelling
      /\ r.asking = session.asking /\ r.askedFor = session.askedFor
      /\ r.turns = [session.turns EXCEPT ![t] = "none"] /\ r.entries = session.entries
  BY RolledBackEffect
<1>2. session' = r
  OBVIOUS
<1> HIDE DEF r
<1> QED BY <1>1, <1>2 DEF SameQueue

LEMMA NewTurnWithin ==
    ASSUME Types, Grown, CanMake, hist' = Made(hist), core' = core, NEW ids \in SUBSET Names,
           session' = NewTurn(session, Fresh, ids)
    PROVE  Within(session', hist'.made, hist'.sent, core'.known)
<1>1. Growing /\ hist'.made = Fresh /\ hist'.made \in Nat
  BY MadeGrows
<1>2. Fresh \in Turns
  BY Unpacked, FreshOK
<1>3. /\ session'.queue = session.queue /\ session'.unconsumed = session.unconsumed
      /\ session'.pending = Fresh /\ session'.active = session.active
      /\ session'.askedFor = session.askedFor /\ session'.turns = [session.turns EXCEPT ![Fresh] = "pending"]
  BY <1>2, Unpacked, NewTurnMakes
<1>4. Within(session, hist'.made, hist'.sent, core'.known)
  BY <1>1, WithinGrows, Unpacked DEF Grown
<1>5. \A t \in Turns : t > hist'.made => session'.turns[t] = "none"
  BY <1>1, <1>2, <1>3, <1>4, Unpacked DEF Within, SessionType
<1> QED BY <1>1, <1>3, <1>4, <1>5 DEF Within

LEMMA StartGrows ==
    ASSUME Types, Types', Grown, NEW p \in Threads, Start(p)
    PROVE  Grown'
<1>1. pc[p].at = "start" /\ UNCHANGED <<core, channel, hand>>
  BY DEF Start, At
<1>2. CASE session' = session /\ Refused(p) /\ hist' = hist
  <2>1. Growing
    BY <1>1, <1>2, SameGrowing
  <2>2. Within(session', hist'.made, hist'.sent, core'.known)
    BY <1>1, <1>2 DEF Grown
  <2> QED BY <1>1, <1>2, <2>1, <2>2, RefusedWithin, PlainStepGrows
<1>3. CASE /\ CanMake /\ hist' = Made(hist) /\ session' = NewTurn(session, Fresh, Ids(p))
           /\ Save(p, "save_turn", Fresh, Ids(p))
  <2>1. Fresh \in MaybeTurn /\ Growing /\ hist'.sent = hist.sent
    BY <1>1, <1>3, Unpacked, FreshOK, MadeGrows DEF MaybeTurn
  <2>2. Says(p, pc[p]) /\ pc[p].cmd \in Names /\ pc[p].cmd \in hist.sent
    BY <1>1, ThreadFields, Unpacked DEF Says, Grown, ThreadWithin
  <2>3. Ids(p) \in SUBSET Names /\ Ids(p) \subseteq hist'.sent
    BY <2>1, <2>2 DEF Ids
  <2>4. Within(session', hist'.made, hist'.sent, core'.known)
    BY <1>1, <1>3, <2>3, NewTurnWithin
  <2>5. "save_turn" \in Steps /\ "save_turn" \notin HandingSteps
    BY AllSteps DEF HandingSteps
  <2>6. Alone(p) /\ ThreadWithin(p, pc'[p], hist'.made, hist'.sent, core'.known)
    BY <1>3, <2>1, <2>2, <2>3, <2>5, SaveWithin
  <2> QED BY <1>1, <2>1, <2>4, <2>6, PlainStepGrows
<1> QED BY <1>2, <1>3 DEF Start

(* A session is put back. *)
LEMMA PutBackGrows ==
    ASSUME Types, Types', Grown, NEW p \in Threads, PutBack(p), core' = core
    PROVE  Growing /\ Within(session', hist'.made, hist'.sent, core'.known)
<1>1. session' = pc[p].image /\ hist'.made = hist.made /\ hist'.sent = hist.sent
  BY PutBackEffect, Unpacked
<1> QED BY <1>1, SameGrowing DEF Grown, ThreadWithin

LEMMA TurnSavedGrows ==
    ASSUME Types, Types', Grown, NEW p \in Threads, TurnSaved(p)
    PROVE  Grown'
<1>1. pc[p].at = "save_turn" /\ UNCHANGED <<core, channel, hand>>
  BY DEF TurnSaved, At
<1>2. CASE Go(p, IF pc[p].asks THEN "ask" ELSE "send") /\ UNCHANGED <<session, hist>>
  <2> DEFINE x == IF pc[p].asks THEN "ask" ELSE "send"
  <2>1. Growing /\ Within(session', hist'.made, hist'.sent, core'.known)
    BY <1>1, <1>2, SameGrowing DEF Grown
  <2>2. x \in Steps /\ x \notin HandingSteps /\ (Speaking(p, x) => Says(p, pc[p]))
    BY <1>1, AllSteps DEF HandingSteps, Speaking, Says
  <2> HIDE DEF x
  <2>3. Alone(p) /\ ThreadWithin(p, pc'[p], hist'.made, hist'.sent, core'.known)
    BY <1>2, <2>1, <2>2, GoWithin DEF x
  <2> QED BY <1>1, <2>1, <2>3, PlainStepGrows
<1>3. CASE PutBack(p) /\ Refused(p)
  BY <1>1, <1>3, PutBackGrows, RefusedWithin, PlainStepGrows
<1> QED BY <1>2, <1>3 DEF TurnSaved

LEMMA AskGrows ==
    ASSUME Types, Types', Grown, NEW p \in Threads, Ask(p)
    PROVE  Grown'
<1>1. UNCHANGED <<core, channel, hand, hist>> /\ Growing
  BY SameGrowing DEF Ask
<1>2. /\ session'.pending = session.pending /\ session'.active = session.active
      /\ session'.queue = session.queue /\ session'.turns = session.turns
      /\ session'.askedFor = pc[p].ids /\ session'.unconsumed = session.unconsumed
  BY Unpacked DEF Ask, SessionType
<1>3. pc[p].ids \subseteq hist.sent
  BY DEF Grown, ThreadWithin
<1>4. Within(session', hist'.made, hist'.sent, core'.known)
  BY <1>1, <1>2, <1>3, SameWithin, MadeNat DEF Grown
<1> QED BY <1>1, <1>4, EndWithin, PlainStepGrows DEF Ask

LEMMA SendGrows ==
    ASSUME Types, Types', Grown, NEW p \in Threads, Send(p)
    PROVE  Grown'
<1>1. pc[p].at = "send" /\ UNCHANGED <<channel, hand>>
  BY DEF Send, At
<1>2. pc[p].turn \in Turns /\ pc[p].ids \in SUBSET Names /\ pc[p].ids \subseteq hist.sent
  BY <1>1, ThreadFields, Unpacked DEF CarryingSteps, Grown, ThreadWithin
<1>3. CASE SubmitToCore(pc[p].turn, pc[p].ids, TRUE) /\ End(p) /\ UNCHANGED session
  <2>1. Growing /\ CoreWithin'
    BY <1>2, <1>3, SubmittedWithin
  <2>2. Within(session', hist'.made, hist'.sent, core'.known)
    BY <1>3, <2>1, WithinGrows, Unpacked DEF Grown
  <2> QED BY <1>1, <1>3, <2>1, <2>2, EndWithin, ThreadStepGrows
<1>4. CASE /\ hist' = Failed(hist) /\ session' = RolledBack(session, pc[p].turn)
           /\ Refused(p) /\ UNCHANGED core
  <2>1. Growing /\ hist'.made = hist.made /\ hist'.sent = hist.sent
    BY <1>4, HistKept, Unpacked, SameGrowing
  <2>2. /\ session'.queue = session.queue /\ session'.unconsumed = session.unconsumed
        /\ session'.pending = session.pending \/ session'.pending = NoTurn
        /\ session'.active = session.active \/ session'.active = NoTurn
        /\ session'.askedFor = session.askedFor
        /\ session'.turns = [session.turns EXCEPT ![pc[p].turn] = "none"]
    BY <1>4, Unpacked, RollsBack
  <2>3. \A t \in Turns : t > hist.made => session'.turns[t] = "none"
    BY <2>2, Unpacked DEF Grown, Within, SessionType
  <2>4. Within(session', hist'.made, hist'.sent, core'.known)
    BY <1>4, <2>1, <2>2, <2>3, MadeNat DEF Grown, Within
  <2> QED BY <1>1, <1>4, <2>1, <2>4, RefusedWithin, PlainStepGrows
<1>5. CASE Strand(pc[p].turn) /\ UNCHANGED <<session, core>> /\ Refused(p)
  <2>1. Growing /\ hist'.made = hist.made /\ hist'.sent = hist.sent
    BY <1>5, HistKept, Unpacked, SameGrowing
  <2>2. Within(session', hist'.made, hist'.sent, core'.known)
    BY <1>5, <2>1 DEF Grown
  <2> QED BY <1>1, <1>5, <2>1, <2>2, RefusedWithin, PlainStepGrows
<1> QED BY <1>3, <1>4, <1>5 DEF Send

LEMMA ResolveGrows ==
    ASSUME Types, Types', Grown, NEW p \in Threads, Resolve(p)
    PROVE  Grown'
<1>1. UNCHANGED <<core, channel, hand, hist>> /\ Growing
  BY SameGrowing DEF Resolve
<1>2. /\ session'.pending = session.pending /\ session'.active = session.active
      /\ session'.queue = session.queue /\ session'.turns = session.turns
      /\ session'.askedFor = {} /\ session'.unconsumed = session.unconsumed
  BY Unpacked DEF Resolve, SessionType
<1>3. Within(session', hist'.made, hist'.sent, core'.known)
  BY <1>1, <1>2, SameWithin, MadeNat DEF Grown
<1>4. /\ session.asking \in MaybeTurn /\ session.askedFor \in SUBSET Names
      /\ session.askedFor \subseteq hist'.sent
  BY <1>1, Unpacked DEF SessionType, Grown, Within
<1>5. "resolve" \in Steps /\ "resolve" \notin HandingSteps /\ ~Speaking(p, "resolve")
  BY AllSteps DEF HandingSteps, Speaking
<1>6. Alone(p) /\ ThreadWithin(p, pc'[p], hist'.made, hist'.sent, core'.known)
  BY <1>1, <1>4, <1>5, CarryWithin DEF Resolve
<1> QED BY <1>1, <1>3, <1>6, PlainStepGrows

LEMMA ResolveSendGrows ==
    ASSUME Types, Types', Grown, NEW p \in Threads, ResolveSend(p)
    PROVE  Grown'
<1>1. pc[p].at = "resolve" /\ UNCHANGED <<session, channel, hand>>
  BY DEF ResolveSend, At
<1>2. pc[p].turn \in Turns /\ pc[p].ids \in SUBSET Names /\ pc[p].ids \subseteq hist.sent
  BY <1>1, ThreadFields, Unpacked DEF CarryingSteps, Grown, ThreadWithin
<1>3. CASE /\ SubmitToCore(pc[p].turn, pc[p].ids, TRUE)
           /\ IF p = "lane" THEN Go(p, "note") ELSE End(p)
  <2>1. Growing /\ CoreWithin'
    BY <1>2, <1>3, SubmittedWithin
  <2>2. Within(session', hist'.made, hist'.sent, core'.known)
    BY <1>1, <2>1, WithinGrows, Unpacked DEF Grown
  <2>3. "note" \in Steps /\ "note" \notin HandingSteps /\ ~Speaking(p, "note")
    BY AllSteps DEF HandingSteps, Speaking
  <2>4. Alone(p) /\ ThreadWithin(p, pc'[p], hist'.made, hist'.sent, core'.known)
    BY <1>3, <2>1, <2>3, GoWithin, EndWithin
  <2> QED BY <1>1, <2>1, <2>2, <2>4, ThreadStepGrows
<1>4. CASE Strand(pc[p].turn) /\ End(p) /\ UNCHANGED core
  <2>1. Growing /\ hist'.made = hist.made /\ hist'.sent = hist.sent
    BY <1>4, HistKept, Unpacked, SameGrowing
  <2>2. Within(session', hist'.made, hist'.sent, core'.known)
    BY <1>1, <1>4, <2>1 DEF Grown
  <2> QED BY <1>1, <1>4, <2>1, <2>2, EndWithin, PlainStepGrows
<1> QED BY <1>3, <1>4 DEF ResolveSend

LEMMA NoteGrows ==
    ASSUME Types, Types', Grown, Note
    PROVE  Grown'
<1>1. UNCHANGED <<session, core, channel, hand, hist>> /\ Growing /\ "lane" \in Threads
  BY SameGrowing, ThreadsApart DEF Note
<1>2. Within(session', hist'.made, hist'.sent, core'.known)
  BY <1>1 DEF Grown
<1>3. "save_note" \in Steps /\ "save_note" \notin HandingSteps /\ ~Speaking("lane", "save_note")
      /\ NoTurn \in MaybeTurn
  BY AllSteps DEF HandingSteps, Speaking, MaybeTurn
<1>4. Alone("lane") /\ ThreadWithin("lane", pc'["lane"], hist'.made, hist'.sent, core'.known)
  BY <1>1, <1>3, SaveWithin, EndWithin DEF Note
<1> QED BY <1>1, <1>2, <1>4, PlainStepGrows

LEMMA NoteSavedGrows ==
    ASSUME Types, Types', Grown, NoteSaved
    PROVE  Grown'
<1>1. UNCHANGED <<core, channel, hand>> /\ "lane" \in Threads /\ End("lane")
  BY ThreadsApart DEF NoteSaved
<1>2. CASE UNCHANGED <<session, hist>>
  <2>1. Growing /\ Within(session', hist'.made, hist'.sent, core'.known)
    BY <1>1, <1>2, SameGrowing DEF Grown
  <2> QED BY <1>1, <2>1, EndWithin, PlainStepGrows
<1>3. CASE PutBack("lane")
  BY <1>1, <1>3, PutBackGrows, EndWithin, PlainStepGrows
<1> QED BY <1>2, <1>3 DEF NoteSaved

LEMMA EnqueuedEffect ==
    ASSUME Types, NEW p \in {"lane", "task"}, pc[p].at = "enqueue", Enqueue(p), ~Quiet(session)
    PROVE  LET item == [id |-> pc[p].cmd, turn |-> Fresh,
                        afterStop |-> session.cancelling # NoTurn /\ session.queue = <<>>]
               n == Len(session.queue) + 1
           IN  /\ item \in Item /\ Fresh \in Turns /\ CanMake /\ hist' = Made(hist)
               /\ Save(p, "save_queue", Fresh, {})
               /\ session' \in SessionType /\ session'.unconsumed = session.unconsumed
               /\ session'.dispatching = session.dispatching
               /\ session'.pending = session.pending /\ session'.active = session.active
               /\ session'.cancelling = session.cancelling
               /\ session'.asking = session.asking /\ session'.askedFor = session.askedFor
               /\ session'.turns = session.turns /\ session'.entries = session.entries
               /\ n \in DOMAIN session'.queue /\ session'.queue[n] = item /\ n \notin DOMAIN session.queue
               /\ \A i \in DOMAIN session'.queue :
                    i = n \/ (i \in DOMAIN session.queue /\ session'.queue[i] = session.queue[i])
               /\ \A i \in DOMAIN session.queue :
                    i \in DOMAIN session'.queue /\ session'.queue[i] = session.queue[i]
<1> DEFINE item == [id |-> pc[p].cmd, turn |-> Fresh,
                    afterStop |-> session.cancelling # NoTurn /\ session.queue = <<>>]
           n == Len(session.queue) + 1
           q == Append(session.queue, item)
<1>1. /\ CanMake /\ hist' = Made(hist) /\ session' = [session EXCEPT !.queue = q]
      /\ Save(p, "save_queue", Fresh, {})
  BY DEF Enqueue
<1>2. Fresh \in Turns
  BY <1>1, Unpacked, FreshOK
<1>3. pc[p].cmd \in Names
  BY ThreadFields, Unpacked, ThreadsApart DEF Says
<1>4. item \in Item
  BY <1>2, <1>3 DEF Item
<1> HIDE DEF item
<1>5. session.queue \in Seq(Item)
  BY Unpacked DEF SessionType, Item
<1>6. /\ q \in Seq(Item) /\ n \in DOMAIN q /\ q[n] = item /\ n \notin DOMAIN session.queue
      /\ \A i \in DOMAIN q : i = n \/ (i \in DOMAIN session.queue /\ q[i] = session.queue[i])
      /\ \A i \in DOMAIN session.queue : i \in DOMAIN q /\ q[i] = session.queue[i]
  BY <1>4, <1>5
<1> HIDE DEF q, n
<1>7. /\ session' \in SessionType /\ session'.unconsumed = session.unconsumed
      /\ session'.queue = q /\ session'.dispatching = session.dispatching
      /\ session'.pending = session.pending /\ session'.active = session.active
      /\ session'.cancelling = session.cancelling
      /\ session'.asking = session.asking /\ session'.askedFor = session.askedFor
      /\ session'.turns = session.turns /\ session'.entries = session.entries
  BY <1>1, <1>6, Unpacked DEF SessionType, Item
<1> QED BY <1>1, <1>2, <1>4, <1>6, <1>7 DEF item, n

LEMMA EnqueueGrows ==
    ASSUME Types, Types', Grown, NEW p \in Threads, Enqueue(p)
    PROVE  Grown'
<1>1. pc[p].at = "enqueue" /\ UNCHANGED <<core, channel, hand>> /\ p \in {"lane", "task"}
  BY AtSteps, Unpacked DEF Enqueue, At
<1>2. CASE session' = session /\ End(p) /\ hist' = hist
  <2>1. Growing /\ Within(session', hist'.made, hist'.sent, core'.known)
    BY <1>1, <1>2, SameGrowing DEF Grown
  <2> QED BY <1>1, <1>2, <2>1, EndWithin, PlainStepGrows
<1>3. CASE ~Quiet(session)
  <2> DEFINE n == Len(session.queue) + 1
  <2>1. /\ session'.unconsumed = session.unconsumed
        /\ session'.pending = session.pending /\ session'.active = session.active
        /\ session'.askedFor = session.askedFor /\ session'.turns = session.turns
        /\ CanMake /\ hist' = Made(hist) /\ Save(p, "save_queue", Fresh, {})
    BY <1>1, <1>3, EnqueuedEffect
  <2>2. /\ session'.queue[n].id = pc[p].cmd /\ session'.queue[n].turn = Fresh
        /\ \A i \in DOMAIN session'.queue :
                    i = n \/ (i \in DOMAIN session.queue /\ session'.queue[i] = session.queue[i])
    BY <1>1, <1>3, EnqueuedEffect
  <2> HIDE DEF n
  <2>3. /\ Growing /\ hist'.made = Fresh /\ hist'.made \in Nat /\ Fresh \in MaybeTurn
        /\ hist'.sent = hist.sent
    BY <1>1, <2>1, MadeGrows, FreshOK, Unpacked DEF MaybeTurn
  <2>4. Says(p, pc[p]) /\ pc[p].cmd \in hist.sent
    BY <1>1 DEF Says, Grown, ThreadWithin
  <2>5. Within(session, hist'.made, hist'.sent, core'.known)
    BY <2>3, WithinGrows, Unpacked DEF Grown
  <2>6. \A i \in DOMAIN session'.queue :
           session'.queue[i].turn <= hist'.made /\ session'.queue[i].id \in hist'.sent
    BY <2>2, <2>3, <2>4, <2>5 DEF Within
  <2>7. Within(session', hist'.made, hist'.sent, core'.known)
    BY <2>1, <2>5, <2>6 DEF Within
  <2>8. "save_queue" \in Steps /\ "save_queue" \notin HandingSteps
    BY AllSteps DEF HandingSteps
  <2>9. Alone(p) /\ ThreadWithin(p, pc'[p], hist'.made, hist'.sent, core'.known)
    BY <2>1, <2>3, <2>4, <2>8, SaveWithin
  <2> QED BY <1>1, <2>3, <2>7, <2>9, PlainStepGrows
<1> QED BY <1>2, <1>3 DEF Enqueue

LEMMA QueueSavedGrows ==
    ASSUME Types, Types', Grown, NEW p \in Threads, QueueSaved(p)
    PROVE  Grown'
<1>1. UNCHANGED <<core, channel, hand>>
  BY DEF QueueSaved
<1>2. CASE Go(p, "dispatch") /\ UNCHANGED <<session, hist>>
  <2>1. Growing /\ Within(session', hist'.made, hist'.sent, core'.known)
    BY <1>1, <1>2, SameGrowing DEF Grown
  <2>2. "dispatch" \in Steps /\ "dispatch" \notin HandingSteps /\ ~Speaking(p, "dispatch")
    BY AllSteps DEF HandingSteps, Speaking
  <2>3. Alone(p) /\ ThreadWithin(p, pc'[p], hist'.made, hist'.sent, core'.known)
    BY <1>2, <2>1, <2>2, GoWithin
  <2> QED BY <1>1, <2>1, <2>3, PlainStepGrows
<1>3. CASE PutBack(p) /\ End(p)
  BY <1>1, <1>3, PutBackGrows, EndWithin, PlainStepGrows
<1> QED BY <1>2, <1>3 DEF QueueSaved

LEMMA RecordedWithin ==
    ASSUME NEW s \in SessionType, NEW ids \in SUBSET Names, NEW made, NEW sent, NEW known,
           Within(s, made, sent, known), session' = Recorded(s, ids)
    PROVE  Within(session', made, sent, known)
<1> DEFINE r == Recorded(s, ids)
<1>1. /\ SameQueue(r, s) /\ r.pending = s.pending /\ r.active = s.active
      /\ r.askedFor = s.askedFor /\ r.turns = s.turns
  BY RecordedEffect
<1>2. session' = r
  OBVIOUS
<1> HIDE DEF r
<1> QED BY <1>1, <1>2 DEF Within, SameQueue

LEMMA AppendEntryGrows ==
    ASSUME Types, Types', Grown, AppendEntry
    PROVE  Grown'
<1>1. /\ pc["lane"].at = "append" /\ UNCHANGED <<core, channel, hand, hist>> /\ Growing
      /\ "lane" \in Threads
  BY SameGrowing, ThreadsApart DEF AppendEntry, At
<1>2. Says("lane", pc["lane"]) /\ pc["lane"].cmd \in Names /\ pc["lane"].cmd \in hist'.sent
  BY <1>1, ThreadFields, Unpacked DEF Says, Grown, ThreadWithin
<1>3. Within(session, hist'.made, hist'.sent, core'.known)
  BY <1>1 DEF Grown
<1>4. CASE Become("lane", Resting("settle", pc["lane"].cmd)) /\ session' = session
  <2>1. /\ Alone("lane") /\ pc'["lane"].at = "settle" /\ pc'["lane"].cmd = pc["lane"].cmd
        /\ pc'["lane"].ids = {} /\ pc'["lane"].image = NoImage
    BY <1>1, <1>2, <1>4, RestEffect, Unpacked
  <2>2. ThreadWithin("lane", pc'["lane"], hist'.made, hist'.sent, core'.known)
    BY <1>1, <1>2, <2>1, NothingWithin, MadeNat DEF ThreadWithin, HandingSteps
  <2> QED BY <1>1, <1>3, <1>4, <2>1, <2>2, PlainStepGrows
<1>5. CASE End("lane") /\ session' = session
  BY <1>1, <1>3, <1>5, EndWithin, PlainStepGrows
<1>6. CASE /\ session' = Recorded(session, {pc["lane"].cmd})
           /\ Save("lane", "save_entry", NoTurn, {pc["lane"].cmd})
  <2>1. {pc["lane"].cmd} \in SUBSET Names /\ {pc["lane"].cmd} \subseteq hist'.sent /\ NoTurn \in MaybeTurn
    BY <1>2 DEF MaybeTurn
  <2>2. Within(session', hist'.made, hist'.sent, core'.known)
    BY <1>3, <1>6, <2>1, RecordedWithin, Unpacked
  <2>3. "save_entry" \in Steps /\ "save_entry" \notin HandingSteps /\ ~Speaking("lane", "save_entry")
    BY AllSteps DEF HandingSteps, Speaking
  <2>4. Alone("lane") /\ ThreadWithin("lane", pc'["lane"], hist'.made, hist'.sent, core'.known)
    BY <1>1, <1>6, <2>1, <2>3, SaveWithin
  <2> QED BY <1>1, <2>2, <2>4, PlainStepGrows
<1> QED BY <1>4, <1>5, <1>6 DEF AppendEntry

LEMMA EntrySavedGrows ==
    ASSUME Types, Types', Grown, EntrySaved
    PROVE  Grown'
<1>1. UNCHANGED <<channel, hand>> /\ "lane" \in Threads /\ End("lane")
  BY ThreadsApart DEF EntrySaved
<1>2. CASE /\ core' = [core EXCEPT !.mail = @ \cup pc["lane"].ids, !.known = @ \cup pc["lane"].ids]
           /\ hist' = [hist EXCEPT !.accepted = @ \cup pc["lane"].ids]
           /\ UNCHANGED session
  <2>1. /\ core'.mail = core.mail \cup pc["lane"].ids /\ core'.known = core.known \cup pc["lane"].ids
        /\ core'.queue = core.queue /\ core'.run = core.run
    BY <1>2, Unpacked DEF CoreOK, CoreType
  <2>2. hist'.made = hist.made /\ hist'.sent = hist.sent
    BY <1>2, Unpacked DEF HistType
  <2>3. Growing
    BY <2>1, <2>2, Unpacked DEF Growing, HistType
  <2>4. pc["lane"].ids \subseteq hist.sent
    BY <1>1 DEF Grown, ThreadWithin
  <2>5. CoreWithin'
    BY <2>1, <2>2, <2>4 DEF Grown, CoreWithin
  <2>6. Within(session', hist'.made, hist'.sent, core'.known)
    BY <1>2, <2>3, WithinGrows, Unpacked DEF Grown
  <2> QED BY <1>1, <2>3, <2>5, <2>6, EndWithin, ThreadStepGrows
<1>3. CASE PutBack("lane") /\ UNCHANGED core
  BY <1>1, <1>3, PutBackGrows, EndWithin, PlainStepGrows
<1> QED BY <1>2, <1>3 DEF EntrySaved

LEMMA SettledGrows ==
    ASSUME Types, Types', Grown, Settled
    PROVE  Grown'
<1>1. /\ pc["lane"].at = "settle" /\ UNCHANGED <<session, core, channel, hand, hist>> /\ Growing
      /\ "lane" \in Threads
  BY SameGrowing, ThreadsApart DEF Settled, At
<1>2. Says("lane", pc["lane"]) /\ pc["lane"].cmd \in Names /\ pc["lane"].cmd \in hist'.sent
  BY <1>1, ThreadFields, Unpacked DEF Says, Grown, ThreadWithin
<1>3. Within(session', hist'.made, hist'.sent, core'.known)
  BY <1>1 DEF Grown
<1>4. "start" \in Steps \ HandingSteps
  BY AllSteps DEF HandingSteps
<1> QED BY <1>1, <1>2, <1>3, <1>4, BeginWithin, EndWithin, PlainStepGrows DEF Settled

LEMMA SendNowGrows ==
    ASSUME Types, Types', Grown, NEW item \in ToSet(session.queue), SendNow(item)
    PROVE  Grown'
<1>1. UNCHANGED <<session, core, channel, hand, hist>> /\ Growing /\ "lane" \in Threads
  BY SameGrowing, ThreadsApart DEF SendNow
<1>2. Within(session', hist'.made, hist'.sent, core'.known)
  BY <1>1 DEF Grown
<1>3. item.id \in hist'.sent /\ item \in Item
  BY <1>1, FoundItem DEF Grown, Within, ToSet
<1> DEFINE x == IF HasActive(session) THEN "append_now" ELSE "now"
<1>4. x \in Steps /\ x \notin HandingSteps /\ ~Speaking("lane", x) /\ NoTurn \in MaybeTurn
  BY AllSteps DEF HandingSteps, Speaking, MaybeTurn
<1>5. Carry("lane", x, NoTurn, {item.id})
  BY DEF SendNow
<1>6. {item.id} \in SUBSET Names /\ {item.id} \subseteq hist'.sent
  BY <1>3 DEF Item
<1> HIDE DEF x
<1>7. Alone("lane") /\ ThreadWithin("lane", pc'["lane"], hist'.made, hist'.sent, core'.known)
  BY <1>1, <1>4, <1>5, <1>6, CarryWithin
<1> QED BY <1>1, <1>2, <1>7, PlainStepGrows

LEMMA DispatchNowGrows ==
    ASSUME Types, Types', Grown, DispatchNow
    PROVE  Grown'
<1>1. UNCHANGED <<core, channel, hand>> /\ "lane" \in Threads
  BY ThreadsApart DEF DispatchNow
<1>2. CASE End("lane") /\ UNCHANGED <<session, hist>>
  <2>1. Growing /\ Within(session', hist'.made, hist'.sent, core'.known)
    BY <1>1, <1>2, SameGrowing DEF Grown
  <2> QED BY <1>1, <1>2, <2>1, EndWithin, PlainStepGrows
<1>3. CASE ~(session.dispatching # NoTurn \/ ~IsQueued(session, pc["lane"].ids))
  <2> DEFINE item == Queued(session, pc["lane"].ids)
             hurried == hist.hurried \/ Current(session) # NoTurn
  <2>1. /\ session' = Dispatching(session, item)
        /\ hist' = [hist EXCEPT !.hurried = hurried]
        /\ Carry("lane", "save_now", item.turn, pc["lane"].ids)
    BY <1>3 DEF DispatchNow
  <2>2. item \in Item /\ item.turn <= hist.made
    BY <1>3, Unpacked, QueuedItem DEF Grown, Within
  <2> HIDE DEF item, hurried
  <2>3. hist'.made = hist.made /\ hist'.sent = hist.sent /\ Growing
    BY <1>1, <2>1, HistKept, Unpacked, SameGrowing
  <2>4. /\ session'.queue = session.queue /\ session'.unconsumed = session.unconsumed
        /\ session'.pending = item.turn /\ session'.active = session.active
        /\ session'.askedFor = session.askedFor /\ session'.turns = session.turns
    BY <2>1, <2>2, Unpacked, DispatchingEffect
  <2>5. Within(session', hist'.made, hist'.sent, core'.known)
    BY <1>1, <2>2, <2>3, <2>4 DEF Grown, Within
  <2>6. /\ "save_now" \in Steps /\ "save_now" \notin HandingSteps /\ ~Speaking("lane", "save_now")
        /\ item.turn \in MaybeTurn
    BY <2>2, AllSteps DEF HandingSteps, Speaking, MaybeTurn, Item
  <2>7. pc["lane"].ids \in SUBSET Names /\ pc["lane"].ids \subseteq hist'.sent
    BY <1>1, <2>3, Unpacked DEF Grown, ThreadWithin
  <2>8. Alone("lane") /\ ThreadWithin("lane", pc'["lane"], hist'.made, hist'.sent, core'.known)
    BY <1>1, <2>1, <2>3, <2>6, <2>7, CarryWithin
  <2> QED BY <1>1, <2>3, <2>5, <2>8, PlainStepGrows
<1> QED BY <1>2, <1>3 DEF DispatchNow

LEMMA UnqueuedWithin ==
    ASSUME NEW s \in SessionType, NEW ids, IsQueued(s, ids), NEW made, NEW sent, NEW known,
           Within(s, made, sent, known)
    PROVE  Within(Unqueued(s, ids), made, sent, known) /\ Unqueued(s, ids) \in SessionType
<1> DEFINE r == Unqueued(s, ids)
           q == RemoveAt(s.queue, Place(s, ids))
<1>1. /\ r \in SessionType /\ r.unconsumed = s.unconsumed
      /\ r.pending = s.pending /\ r.active = s.active /\ r.askedFor = s.askedFor
      /\ r.turns = s.turns /\ r.queue = q
  BY UnqueuedEffect
<1>2. \A i \in DOMAIN q : \E j \in DOMAIN s.queue : q[i] = s.queue[j]
  BY UnqueuedItems
<1> HIDE DEF r, q
<1>3. Within(r, made, sent, known)
  BY <1>1, <1>2 DEF Within
<1> QED BY <1>1, <1>3 DEF r

LEMMA SupplementNowGrows ==
    ASSUME Types, Types', Grown, SupplementNow
    PROVE  Grown'
<1>1. UNCHANGED <<core, channel, hand, hist>> /\ Growing /\ "lane" \in Threads
  BY SameGrowing, ThreadsApart DEF SupplementNow
<1>2. Within(session, hist'.made, hist'.sent, core'.known)
  BY <1>1 DEF Grown
<1>3. CASE End("lane") /\ UNCHANGED session
  <2>1. Within(session', hist'.made, hist'.sent, core'.known)
    BY <1>2, <1>3
  <2> QED BY <1>1, <1>3, <2>1, EndWithin, PlainStepGrows
<1>4. CASE ~(\/ ~core.open \/ ~IsQueued(session, pc["lane"].ids) \/ ~HasActive(session)
             \/ session.dispatching = Queued(session, pc["lane"].ids).turn)
  <2> DEFINE ids == pc["lane"].ids
             s == Unqueued(session, ids)
  <2>1. /\ session' = Recorded(s, ids) /\ Save("lane", "save_entry", NoTurn, ids)
        /\ ids \in SUBSET Names /\ ids \subseteq hist'.sent /\ NoTurn \in MaybeTurn
    BY <1>1, <1>4, Unpacked DEF SupplementNow, Grown, ThreadWithin, MaybeTurn
  <2>2. IsQueued(session, ids)
    BY <1>4
  <2> HIDE DEF ids
  <2>3. s \in SessionType /\ Within(s, hist'.made, hist'.sent, core'.known)
    BY <1>2, <2>2, Unpacked, UnqueuedWithin
  <2> HIDE DEF s
  <2>4. Within(session', hist'.made, hist'.sent, core'.known)
    BY <2>1, <2>3, RecordedWithin
  <2>5. "save_entry" \in Steps /\ "save_entry" \notin HandingSteps /\ ~Speaking("lane", "save_entry")
    BY AllSteps DEF HandingSteps, Speaking
  <2>6. Alone("lane") /\ ThreadWithin("lane", pc'["lane"], hist'.made, hist'.sent, core'.known)
    BY <1>1, <2>1, <2>5, SaveWithin
  <2> QED BY <1>1, <2>4, <2>6, PlainStepGrows
<1> QED BY <1>3, <1>4 DEF SupplementNow

LEMMA NowSavedGrows ==
    ASSUME Types, Types', Grown, NowSaved
    PROVE  Grown'
<1>1. UNCHANGED <<session, core, channel, hand>> /\ "lane" \in Threads
  BY ThreadsApart DEF NowSaved
<1>2. hist'.made = hist.made /\ hist'.sent = hist.sent /\ Growing
  BY <1>1, HistKept, Unpacked, SameGrowing DEF NowSaved
<1>3. Within(session', hist'.made, hist'.sent, core'.known)
  BY <1>1, <1>2 DEF Grown
<1>4. "send_queued" \in Steps /\ "send_queued" \notin HandingSteps /\ ~Speaking("lane", "send_queued")
  BY AllSteps DEF HandingSteps, Speaking
<1>5. Alone("lane") /\ ThreadWithin("lane", pc'["lane"], hist'.made, hist'.sent, core'.known)
  BY <1>1, <1>2, <1>4, GoWithin, EndWithin DEF NowSaved
<1> QED BY <1>1, <1>2, <1>3, <1>5, PlainStepGrows

LEMMA CancelGrows ==
    ASSUME Types, Types', Grown, Cancel
    PROVE  Grown'
<1>1. UNCHANGED <<core, channel, hand>> /\ "lane" \in Threads
  BY ThreadsApart DEF Cancel
<1>2. hist'.made = hist.made /\ hist'.sent = hist.sent
  BY Unpacked DEF Cancel, HistType
<1>3. Growing /\ Current(session) \in MaybeTurn /\ {} \in SUBSET Names
  BY <1>1, <1>2, SameGrowing, Unpacked, CurrentType
<1>4. Within(session, hist'.made, hist'.sent, core'.known)
  BY <1>1, <1>2 DEF Grown
<1>5. CASE session.asking # NoTurn
  <2>1. pc' = pc /\ (session' = session \/ session' = Abandoned(session))
    BY <1>5 DEF Cancel
  <2>2. CASE session' = Abandoned(session)
    <3> DEFINE r == Abandoned(session)
    <3>1. /\ SameQueue(r, session) /\ r.pending = NoTurn /\ r.active = NoTurn /\ r.askedFor = {}
          /\ r.turns = [session.turns EXCEPT ![session.pending] = "done"]
      BY Unpacked, AbandonedEffect
    <3> HIDE DEF r
    <3>2. \A t \in Turns : t > hist.made => r.turns[t] = "none"
      <4>1. session.pending \in Nat /\ session.pending <= hist.made /\ hist.made \in Nat
        BY Unpacked, MadeNat DEF Grown, Within, SessionType, MaybeTurn, Turns, NoTurn
      <4>2. \A t \in Turns : t \in Nat
        BY DEF Turns
      <4> QED BY <3>1, <4>1, <4>2, Unpacked DEF Grown, Within, SessionType
    <3>3. Within(r, hist'.made, hist'.sent, core'.known)
      BY <1>2, <1>4, <3>1, <3>2, MadeNat DEF Within, SameQueue
    <3>4. Within(session', hist'.made, hist'.sent, core'.known)
      BY <2>2, <3>3 DEF r
    <3>5. Alone("lane") /\ ThreadWithin("lane", pc'["lane"], hist'.made, hist'.sent, core'.known)
      BY <1>1, <1>2, <2>1 DEF Alone, Grown
    <3> QED BY <1>1, <1>3, <3>4, <3>5, PlainStepGrows
  <2>3. CASE session' = session
    <3>1. Alone("lane") /\ ThreadWithin("lane", pc'["lane"], hist'.made, hist'.sent, core'.known)
      BY <1>1, <1>2, <2>1 DEF Alone, Grown
    <3>2. Within(session', hist'.made, hist'.sent, core'.known)
      BY <1>4, <2>3
    <3> QED BY <1>1, <1>3, <3>1, <3>2, PlainStepGrows
  <2> QED BY <2>1, <2>2, <2>3
<1>6. CASE session.asking = NoTurn /\ HasActive(session)
  <2> DEFINE r == Cancelled(session)
  <2>1. session' = r /\ Save("lane", "save_stop", Current(session), {})
    BY <1>6 DEF Cancel
  <2>2. /\ SameQueue(r, session) /\ r.pending = session.pending /\ r.active = session.active
        /\ r.askedFor = session.askedFor
        /\ r.turns = [session.turns EXCEPT ![Current(session)] = "done"]
    BY Unpacked, CancelledEffect
  <2> HIDE DEF r
  <2>3. \A t \in Turns : t > hist.made => r.turns[t] = "none"
    <3>1. Current(session) \in Nat /\ Current(session) <= hist.made /\ hist.made \in Nat
      BY Unpacked, MadeNat DEF Current, Grown, Within, SessionType, MaybeTurn, Turns, NoTurn
    <3>2. \A t \in Turns : t \in Nat
      BY DEF Turns
    <3> QED BY <2>2, <3>1, <3>2, Unpacked DEF Grown, Within, SessionType
  <2>4. Within(r, hist'.made, hist'.sent, core'.known)
    BY <1>2, <1>4, <2>2, <2>3, MadeNat DEF Within, SameQueue
  <2>5. Within(session', hist'.made, hist'.sent, core'.known)
    BY <2>1, <2>4
  <2>6. "save_stop" \in Steps /\ "save_stop" \notin HandingSteps /\ ~Speaking("lane", "save_stop")
    BY AllSteps DEF HandingSteps, Speaking
  <2>7. Alone("lane") /\ ThreadWithin("lane", pc'["lane"], hist'.made, hist'.sent, core'.known)
    BY <1>1, <1>3, <2>1, <2>6, SaveWithin
  <2> QED BY <1>1, <1>3, <2>5, <2>7, PlainStepGrows
<1>7. CASE session.asking = NoTurn /\ ~HasActive(session)
  <2>1. session' = session /\ Carry("lane", "stop", Current(session), {})
    BY <1>7 DEF Cancel
  <2>2. "stop" \in Steps /\ "stop" \notin HandingSteps /\ ~Speaking("lane", "stop")
    BY AllSteps DEF HandingSteps, Speaking
  <2>3. Alone("lane") /\ ThreadWithin("lane", pc'["lane"], hist'.made, hist'.sent, core'.known)
    BY <1>1, <1>3, <2>1, <2>2, CarryWithin
  <2>4. Within(session', hist'.made, hist'.sent, core'.known)
    BY <1>4, <2>1
  <2> QED BY <1>1, <1>3, <2>3, <2>4, PlainStepGrows
<1> QED BY <1>5, <1>6, <1>7

LEMMA StopSavedGrows ==
    ASSUME Types, Types', Grown, StopSaved
    PROVE  Grown'
<1>1. UNCHANGED <<core, channel, hand>> /\ "lane" \in Threads
  BY ThreadsApart DEF StopSaved
<1>2. CASE Go("lane", "stop") /\ UNCHANGED <<session, hist>>
  <2>1. Growing /\ Within(session', hist'.made, hist'.sent, core'.known)
    BY <1>1, <1>2, SameGrowing DEF Grown
  <2>2. "stop" \in Steps /\ "stop" \notin HandingSteps /\ ~Speaking("lane", "stop")
    BY AllSteps DEF HandingSteps, Speaking
  <2>3. Alone("lane") /\ ThreadWithin("lane", pc'["lane"], hist'.made, hist'.sent, core'.known)
    BY <1>1, <1>2, <2>1, <2>2, GoWithin
  <2> QED BY <1>1, <2>1, <2>3, PlainStepGrows
<1>3. CASE PutBack("lane") /\ End("lane")
  BY <1>1, <1>3, PutBackGrows, EndWithin, PlainStepGrows
<1> QED BY <1>2, <1>3 DEF StopSaved

LEMMA StopCoreGrows ==
    ASSUME Types, Types', Grown, StopCore
    PROVE  Grown'
<1>1. UNCHANGED <<session, channel, hand, hist>> /\ "lane" \in Threads /\ End("lane")
  BY ThreadsApart DEF StopCore
<1>2. /\ DOMAIN core'.queue = DOMAIN core.queue /\ core'.run.ids = core.run.ids
      /\ \A i \in DOMAIN core.queue : core'.queue[i].ids = core.queue[i].ids
      /\ core'.mail = core.mail /\ core'.known = core.known
  BY Unpacked, StopCoreEffect
<1>3. Growing /\ CoreWithin'
  BY <1>1, <1>2, SameGrowing DEF Grown, CoreWithin
<1>4. Within(session', hist'.made, hist'.sent, core'.known)
  BY <1>1, <1>2 DEF Grown
<1> QED BY <1>1, <1>3, <1>4, EndWithin, ThreadStepGrows

(* A step in which Core or a handler's events move, and perhaps a handler. *)
LEMMA EventStepGrows ==
    ASSUME Types, Grown, Growing,
           \/ pc' = pc
           \/ \E h \in Threads : Alone(h) /\ ThreadWithin(h, pc'[h], hist'.made, hist'.sent, core'.known),
           Within(session', hist'.made, hist'.sent, core'.known), CoreWithin',
           \A e \in Underway' : e \in Underway \/ e.ids \subseteq core'.known
    PROVE  Grown'
<1>1. \A q \in Threads : ThreadWithin(q, pc'[q], hist'.made, hist'.sent, core'.known)
  <2>1. CASE pc' = pc
    <3> TAKE q \in Threads
    <3>1. pc[q].image \in SessionType
      BY ThreadFields, Unpacked
    <3> QED BY <2>1, <3>1, ThreadGrows DEF Grown
  <2>2. CASE \E h \in Threads : Alone(h) /\ ThreadWithin(h, pc'[h], hist'.made, hist'.sent, core'.known)
    BY <2>2, GrownThreads
  <2> QED BY <2>1, <2>2
<1>2. \A e \in Underway' : e.ids \subseteq core'.known
  BY DEF Grown, Growing
<1> QED BY <1>1, <1>2 DEF Grown

LEMMA CoreStartGrows ==
    ASSUME Types, Types', Grown, CoreStart
    PROVE  Grown'
<1>1. UNCHANGED <<session, hand, pc, hist>>
  BY DEF CoreStart
<1>2. /\ core'.queue = Tail(core.queue) /\ core'.run.ids = core.queue[1].ids /\ core'.run.turn \in Turns
      /\ core'.run \in SubmissionType /\ Len(core.queue) > 0 /\ 1 \in DOMAIN core.queue
      /\ core'.mail = core.mail /\ core'.known = core.known
      /\ channel' = channel \o <<Event("started", core'.run.turn, core'.run.ids, "none")>>
  BY CoreStartEffect, Unpacked
<1>3. Growing
  BY <1>1, <1>2, SameGrowing
<1>4. core.queue \in Seq(SubmissionType)
  BY Unpacked DEF CoreOK, CoreType
<1>5. \A i \in DOMAIN core'.queue : i + 1 \in DOMAIN core.queue /\ core'.queue[i] = core.queue[i + 1]
  BY <1>2, <1>4
<1>6. CoreWithin'
  BY <1>1, <1>2, <1>5 DEF Grown, CoreWithin
<1> DEFINE e == Event("started", core'.run.turn, core'.run.ids, "none")
<1>7. e \in EventType /\ e.ids = core'.run.ids
  BY <1>2, EventIs DEF SubmissionType, Event, Hows
<1> HIDE DEF e
<1>8. Underway' = Underway \cup {e}
  <2>1. <<e>> \in Seq(EventType) /\ ToSet(<<e>>) = {e}
    BY <1>7, ElementsOfOne
  <2> QED BY <1>1, <1>2, <2>1, EmitUnderway, Unpacked DEF e
<1>9. Within(session', hist'.made, hist'.sent, core'.known)
  BY <1>1, <1>3, WithinGrows, Unpacked DEF Grown
<1>10. \A f \in Underway' : f \in Underway \/ f.ids \subseteq core'.known
  BY <1>6, <1>7, <1>8 DEF CoreWithin
<1> QED BY <1>1, <1>3, <1>6, <1>9, <1>10, EventStepGrows

LEMMA CoreTakeGrows ==
    ASSUME Types, Types', Grown, CoreTake
    PROVE  Grown'
<1>1. /\ UNCHANGED <<session, channel, hand, pc>>
      /\ hist'.made = hist.made /\ hist'.sent = hist.sent
  BY Unpacked DEF CoreTake, HistType
<1>2. /\ core'.queue = core.queue /\ core'.run = core.run
      /\ core'.mail = {} /\ core'.known = core.known
  BY CoreTakeEffect, Unpacked
<1>3. Growing /\ CoreWithin'
  BY <1>1, <1>2, SameGrowing DEF Grown, CoreWithin
<1>4. Underway' = Underway
  BY <1>1 DEF Underway
<1>5. Within(session', hist'.made, hist'.sent, core'.known)
  BY <1>1, <1>3, WithinGrows, Unpacked DEF Grown
<1> QED BY <1>1, <1>3, <1>4, <1>5, EventStepGrows

LEMMA EventsOfConcat ==
    ASSUME NEW s \in Seq(EventType), NEW t \in Seq(EventType)
    PROVE  ToSet(s \o t) = ToSet(s) \cup ToSet(t) /\ s \o t \in Seq(EventType)
<1>1. ToSet(s \o t) = ToSet(s) \cup ToSet(t)
  BY ElementsOfConcat
<1> QED BY <1>1

(* Core says what becomes of its turn. *)
LEMMA CoreCloseSays ==
    ASSUME Types, NEW how \in Outcomes, CoreClose(how)
    PROVE  LET projected == Event("projected", core.run.turn, {}, how)
               unconsumed == Event("unconsumed", core.run.turn, core.mail, how)
           IN  Underway' = Underway \cup {projected} \cup (IF core.mail = {} THEN {} ELSE {unconsumed})
<1> DEFINE projected == Event("projected", core.run.turn, {}, how)
           unconsumed == Event("unconsumed", core.run.turn, core.mail, how)
           rest == IF core.mail = {} THEN <<>> ELSE <<unconsumed>>
<1>1. /\ projected \in EventType /\ unconsumed \in EventType
      /\ channel' = channel \o (<<projected>> \o rest) /\ hand' = hand
  BY CoreCloseEffect, Unpacked DEF CoreClose
<1>2. <<projected>> \in Seq(EventType) /\ ToSet(<<projected>>) = {projected}
  BY <1>1, ElementsOfOne
<1>3. rest \in Seq(EventType) /\ ToSet(rest) = (IF core.mail = {} THEN {} ELSE {unconsumed})
  <2>1. <<unconsumed>> \in Seq(EventType) /\ ToSet(<<unconsumed>>) = {unconsumed}
    BY <1>1, ElementsOfOne
  <2> QED BY <2>1 DEF ToSet
<1> DEFINE said == <<projected>>
<1> HIDE DEF rest, projected, unconsumed, said
<1>4. said \in Seq(EventType) /\ ToSet(said) = {projected} /\ channel' = channel \o (said \o rest)
  BY <1>1, <1>2 DEF said
<1>5. ToSet(said \o rest) = ToSet(said) \cup ToSet(rest) /\ said \o rest \in Seq(EventType)
  BY <1>3, <1>4, EventsOfConcat
<1> QED BY <1>1, <1>3, <1>4, <1>5, EmitUnderway, Unpacked DEF projected, unconsumed

LEMMA CoreCloseGrows ==
    ASSUME Types, Types', Grown, NEW how \in Outcomes, CoreClose(how)
    PROVE  Grown'
<1>1. UNCHANGED <<session, hand, pc, hist>>
  BY DEF CoreClose
<1>2. /\ core'.queue = core.queue /\ core'.run = core.run
      /\ core'.mail = {} /\ core'.known = core.known
  BY CoreCloseEffect, Unpacked
<1>3. Growing /\ CoreWithin'
  BY <1>1, <1>2, SameGrowing DEF Grown, CoreWithin
<1>4. Within(session', hist'.made, hist'.sent, core'.known)
  BY <1>1, <1>3, WithinGrows, Unpacked DEF Grown
<1>5. \A f \in Underway' : f \in Underway \/ f.ids \subseteq core'.known
  BY <1>2, CoreCloseSays DEF Event, Grown, CoreWithin
<1> QED BY <1>1, <1>3, <1>4, <1>5, EventStepGrows

LEMMA CoreFinishSays ==
    ASSUME Types, CoreFinish
    PROVE  Underway' = Underway \cup {Event("finished", core.run.turn, {}, core.closing)}
<1> DEFINE e == Event("finished", core.run.turn, {}, core.closing)
<1>1. e \in EventType /\ channel' = channel \o <<e>> /\ hand' = hand
  BY CoreFinishEffect, Unpacked DEF CoreFinish
<1> HIDE DEF e
<1>2. <<e>> \in Seq(EventType) /\ ToSet(<<e>>) = {e}
  BY <1>1, ElementsOfOne
<1> QED BY <1>1, <1>2, EmitUnderway, Unpacked DEF e

LEMMA CoreFinishGrows ==
    ASSUME Types, Types', Grown, CoreFinish
    PROVE  Grown'
<1>1. UNCHANGED <<session, hand, pc, hist>>
  BY DEF CoreFinish
<1>2. /\ core'.queue = core.queue /\ core'.run = NoRun
      /\ core'.mail = core.mail /\ core'.known = core.known
  BY CoreFinishEffect, Unpacked
<1>3. Growing /\ CoreWithin'
  BY <1>1, <1>2, SameGrowing DEF Grown, CoreWithin, NoRun, Submission
<1>4. Within(session', hist'.made, hist'.sent, core'.known)
  BY <1>1, <1>3, WithinGrows, Unpacked DEF Grown
<1>5. \A f \in Underway' : f \in Underway \/ f.ids \subseteq core'.known
  BY CoreFinishSays DEF Event
<1> QED BY <1>1, <1>3, <1>4, <1>5, EventStepGrows

LEMMA DrainGrows ==
    ASSUME Types, Types', Grown, NEW h \in Handlers, Drain(h)
    PROVE  Grown'
<1>1. UNCHANGED <<session, core, pc>>
  BY DEF Drain
<1>2. Underway' = Underway /\ hist'.made = hist.made /\ hist'.sent = hist.sent
  <2>1. hist' = [hist EXCEPT !.elder = hist'.elder]
    BY DrainEffect, Unpacked
  <2> QED BY <2>1, DrainUnderway, Unpacked DEF HistType
<1>3. Growing /\ CoreWithin'
  BY <1>1, <1>2, SameGrowing, SameCoreWithin
<1>4. Within(session', hist'.made, hist'.sent, core'.known)
  BY <1>1, <1>3, WithinGrows, Unpacked DEF Grown
<1> QED BY <1>1, <1>2, <1>3, <1>4, EventStepGrows

(* A handler takes the next event and does with the session what it says. *)
LEMMA HandlingGrows ==
    ASSUME Types, Types', Grown, NEW h \in Handlers, NEW kind, Handle(h, kind),
           Within(session', hist.made, hist.sent, core.known),
           pc' = pc \/ \E x \in {"dispatch", "resubmit"} : Go(h, x)
    PROVE  Grown'
<1>1. UNCHANGED <<core, channel>> /\ h \in Threads
  BY ThreadsApart DEF Handle
<1>2. hist'.made = hist.made /\ hist'.sent = hist.sent
  BY HandleEffect, Unpacked
<1>3. Growing /\ CoreWithin'
  BY <1>1, <1>2, SameGrowing, SameCoreWithin
<1>4. Within(session', hist'.made, hist'.sent, core'.known)
  BY <1>1, <1>2
<1>5. \A e \in Underway' : e \in Underway
  BY HandleUnderway, Unpacked
<1>6. CASE pc' = pc
  BY <1>3, <1>4, <1>5, <1>6, EventStepGrows
<1>7. CASE \E x \in {"dispatch", "resubmit"} : Go(h, x)
  <2>1. PICK x \in {"dispatch", "resubmit"} : Go(h, x)
    BY <1>7
  <2>2. x \in Steps /\ x \notin HandingSteps /\ ~Speaking(h, x)
    BY AllSteps DEF HandingSteps, Speaking, HandlerSteps, HandoffSteps
  <2>3. Alone(h) /\ ThreadWithin(h, pc'[h], hist'.made, hist'.sent, core'.known)
    BY <1>1, <1>3, <2>1, <2>2, GoWithin
  <2> QED BY <1>1, <1>3, <1>4, <1>5, <2>3, EventStepGrows
<1> QED BY <1>6, <1>7

LEMMA ActivatedWithin ==
    ASSUME NEW s \in SessionType, NEW ids \in SUBSET Names, NEW made \in Nat, NEW sent, NEW known,
           Within(s, made, sent, known)
    PROVE  Within(Activated(s, ids), made, sent, known)
<1> DEFINE r == Activated(s, ids)
<1>1. CASE r = s
  BY <1>1
<1>2. CASE r # s
  <2> HIDE DEF r
  <2>1. PICK t \in Turns :
          /\ r \in SessionType /\ r.unconsumed = s.unconsumed
          /\ r.active = t /\ r.pending = (IF s.pending = t THEN NoTurn ELSE s.pending)
          /\ r.asking = s.asking /\ r.askedFor = s.askedFor
          /\ \/ ActivatesTurn(r, s, t)
             \/ ActivatesQueued(r, s, t, ids)
    BY <1>2, ActivatedEffect DEF r
  <2>2. r.pending <= made
    BY <2>1 DEF Within, NoTurn
  <2>3. CASE ActivatesTurn(r, s, t)
    <3>1. t <= made
      BY <2>3, HostAssumption DEF ActivatesTurn, Within, Turns
    <3>2. \A u \in Turns : u > made => r.turns[u] = "none"
      BY <2>3, <3>1 DEF ActivatesTurn, Within, SessionType
    <3>3. Within(r, made, sent, known)
      BY <2>1, <2>2, <2>3, <3>1, <3>2 DEF ActivatesTurn, Within
    <3> QED BY <3>3 DEF r
  <2>4. CASE ActivatesQueued(r, s, t, ids)
    <3>1. IsQueued(s, ids) /\ t = s.queue[Place(s, ids)].turn
      BY <2>4 DEF ActivatesQueued, Queued
    <3>2. t <= made
      BY <3>1, PlaceOfQueued DEF Within
    <3>3. \A u \in Turns : u > made => r.turns[u] = "none"
      BY <2>4, <3>2 DEF ActivatesQueued, Within, SessionType, Turns
    <3>4. \A i \in DOMAIN r.queue : r.queue[i].turn <= made /\ r.queue[i].id \in sent
      <4>1. \A i \in DOMAIN r.queue : \E j \in DOMAIN s.queue : r.queue[i] = s.queue[j]
        BY <2>4, <3>1, UnqueuedItems DEF ActivatesQueued
      <4> QED BY <4>1 DEF Within
    <3>5. Within(r, made, sent, known)
      BY <2>1, <2>2, <3>2, <3>3, <3>4 DEF Within
    <3> QED BY <3>5 DEF r
  <2> QED BY <2>1, <2>3, <2>4
<1> QED BY <1>1, <1>2

LEMMA HandleStartedGrows ==
    ASSUME Types, Types', Grown, NEW h \in Handlers, HandleStarted(h)
    PROVE  Grown'
<1>1. Handle(h, "started") /\ session' = Activated(session, Head(hand[h]).ids) /\ UNCHANGED pc
  BY DEF HandleStarted
<1>2. Head(hand[h]).ids \in SUBSET Names
  BY <1>1, HandleEffect, Unpacked DEF EventType
<1>3. Within(session', hist.made, hist.sent, core.known)
  BY <1>1, <1>2, ActivatedWithin, MadeNat, Unpacked DEF Grown
<1> QED BY <1>1, <1>3, HandlingGrows

LEMMA HandleProjectedGrows ==
    ASSUME Types, Types', Grown, NEW h \in Handlers, HandleProjected(h)
    PROVE  Grown'
<1>1. /\ session'.pending = session.pending /\ session'.active = session.active
      /\ session'.queue = session.queue /\ session'.turns = session.turns
      /\ session'.askedFor = session.askedFor /\ session'.unconsumed = session.unconsumed
  BY Unpacked DEF HandleProjected, SessionType
<1>2. Within(session', hist.made, hist.sent, core.known)
  BY <1>1, SameWithin, MadeNat DEF Grown
<1> QED BY <1>2, HandlingGrows DEF HandleProjected

LEMMA HandleUnconsumedGrows ==
    ASSUME Types, Types', Grown, NEW h \in Handlers, HandleUnconsumed(h)
    PROVE  Grown'
<1>1. /\ session'.pending = session.pending /\ session'.active = session.active
      /\ session'.queue = session.queue /\ session'.turns = session.turns
      /\ session'.askedFor = session.askedFor
      /\ session'.unconsumed = session.unconsumed \cup Head(hand[h]).ids
  BY Unpacked DEF HandleUnconsumed, SessionType
<1>2. Head(hand[h]).ids \subseteq core.known
  <2>1. Head(hand[h]) \in Underway
    BY HandleUnderway, Unpacked DEF HandleUnconsumed
  <2> QED BY <2>1 DEF Grown
<1>3. Within(session', hist.made, hist.sent, core.known)
  BY <1>1, <1>2, SameWithin, MadeNat DEF Grown
<1> QED BY <1>3, HandlingGrows DEF HandleUnconsumed

LEMMA FinishedWithin ==
    ASSUME NEW s \in SessionType, NEW made \in Nat, NEW sent, NEW known,
           Within(s, made, sent, known), NoTurn <= made, session' = Finished(s)
    PROVE  Within(session', made, sent, known)
<1>1. /\ session'.unconsumed = s.unconsumed /\ session'.queue = s.queue
      /\ session'.pending = NoTurn /\ session'.active = NoTurn /\ session'.askedFor = s.askedFor
      /\ session'.turns = (IF s.active = NoTurn THEN s.turns ELSE [s.turns EXCEPT ![s.active] = "done"])
  BY FinishedEffect DEF SameQueue
<1>2. \A u \in Turns : u > made => session'.turns[u] = "none"
  BY <1>1 DEF Within, SessionType, MaybeTurn, NoTurn, Turns
<1> QED BY <1>1, <1>2 DEF Within

LEMMA HandleFinishedGrows ==
    ASSUME Types, Types', Grown, NEW h \in Handlers, HandleFinished(h)
    PROVE  Grown'
<1>1. Within(session', hist.made, hist.sent, core.known)
  BY FinishedWithin, MadeNat, Unpacked DEF Grown, HandleFinished
<1>2. \E x \in {"dispatch", "resubmit"} : Go(h, x)
  BY DEF HandleFinished, Then
<1> QED BY <1>1, <1>2, HandlingGrows DEF HandleFinished

LEMMA ResubmitGrows ==
    ASSUME Types, Types', Grown, NEW h \in Handlers, Resubmit(h)
    PROVE  Grown'
<1> DEFINE x == IF session.unconsumed = {} THEN "dispatch" ELSE "handoff"
<1>1. /\ UNCHANGED <<core, channel, hand, hist>> /\ h \in Threads /\ Growing
      /\ Carry(h, x, NoTurn, session.unconsumed)
  BY ThreadsApart, SameGrowing DEF Resubmit
<1>2. /\ session.unconsumed \in SUBSET Names /\ session.unconsumed \subseteq core'.known
      /\ session.unconsumed \subseteq hist'.sent
  BY <1>1, Unpacked DEF SessionType, Grown, Within, CoreWithin
<1>3. x \in Steps /\ NoTurn \in MaybeTurn /\ ~Speaking(h, x)
  BY AllSteps DEF MaybeTurn, Speaking, HandlerSteps, HandoffSteps
<1> HIDE DEF x
<1>4. Alone(h) /\ ThreadWithin(h, pc'[h], hist'.made, hist'.sent, core'.known)
  BY <1>1, <1>2, <1>3, CarryWithin
<1>5. /\ session'.pending = session.pending /\ session'.active = session.active
      /\ session'.queue = session.queue /\ session'.turns = session.turns
      /\ session'.askedFor = session.askedFor /\ session'.unconsumed = {}
  BY Unpacked DEF Resubmit, SessionType
<1>6. Within(session', hist'.made, hist'.sent, core'.known)
  BY <1>1, <1>5, SameWithin, MadeNat DEF Grown
<1> QED BY <1>1, <1>4, <1>6, PlainStepGrows

LEMMA RetainedWithin ==
    ASSUME NEW s \in SessionType, NEW ids \in SUBSET Names, NEW made, NEW sent, NEW known,
           Within(s, made, sent, known), ids \subseteq known, NoTurn <= made,
           session' = Retained(s, ids)
    PROVE  Within(session', made, sent, known)
<1>1. /\ session'.pending = s.pending /\ session'.active = s.active
      /\ session'.queue = s.queue /\ session'.turns = s.turns
      /\ session'.askedFor = s.askedFor /\ session'.unconsumed = s.unconsumed \cup ids
  BY RetainedEffect
<1> QED BY <1>1, SameWithin

LEMMA HandoffGrows ==
    ASSUME Types, Types', Grown, NEW h \in Handlers, Handoff(h)
    PROVE  Grown'
<1>1. pc[h].at = "handoff" /\ UNCHANGED <<core, channel, hand>> /\ h \in Threads
  BY ThreadsApart DEF Handoff, At
<1>2. pc[h].ids \in SUBSET Names /\ pc[h].ids \subseteq hist.sent /\ pc[h].ids \subseteq core.known
  BY <1>1, Unpacked DEF Grown, ThreadWithin, HandingSteps
<1>3. CASE session' = Retained(session, pc[h].ids) /\ Return(h) /\ hist' = hist
  <2>1. Growing
    BY <1>1, <1>3, SameGrowing
  <2>2. Within(session', hist.made, hist.sent, core.known)
    BY <1>2, <1>3, Unpacked, RetainedWithin, MadeNat DEF Grown
  <2>3. Within(session', hist'.made, hist'.sent, core'.known)
    BY <1>1, <1>3, <2>2
  <2> QED BY <1>1, <1>3, <2>1, <2>3, ReturnWithin, PlainStepGrows
<1>4. CASE /\ CanMake /\ hist' = Made(hist) /\ session' = NewTurn(session, Fresh, pc[h].ids)
           /\ Save(h, "save_handoff", Fresh, pc[h].ids)
  <2>1. Fresh \in MaybeTurn /\ Growing /\ hist'.sent = hist.sent
    BY <1>1, <1>4, Unpacked, FreshOK, MadeGrows DEF MaybeTurn
  <2>2. Within(session', hist'.made, hist'.sent, core'.known)
    BY <1>1, <1>2, <1>4, NewTurnWithin
  <2>3. "save_handoff" \in Steps /\ ~Speaking(h, "save_handoff") /\ pc[h].ids \subseteq core'.known
    BY <1>1, <1>2, AllSteps DEF Speaking, SavingSteps
  <2>4. Alone(h) /\ ThreadWithin(h, pc'[h], hist'.made, hist'.sent, core'.known)
    BY <1>1, <1>2, <1>4, <2>1, <2>3, SaveWithin
  <2> QED BY <1>1, <2>1, <2>2, <2>4, PlainStepGrows
<1> QED BY <1>3, <1>4 DEF Handoff

LEMMA HandoffFailsGrows ==
    ASSUME Types, Types', Grown, NEW h \in Handlers, HandoffFails(h), UNCHANGED <<channel, hand>>,
           pc[h].at \in {"save_handoff", "send_handoff"}
    PROVE  Grown'
<1>1. /\ h \in Threads /\ core' = core /\ Return(h)
      /\ pc[h].ids \in SUBSET Names /\ pc[h].image \in SessionType
  BY Unpacked, ThreadFields, ThreadsApart DEF HandoffFails
<1>2. /\ session' = Retained(pc[h].image, pc[h].ids)
      /\ hist'.made = hist.made /\ hist'.sent = hist.sent
  BY HandoffFailsEffect
<1>3. pc[h].ids \subseteq core.known /\ Within(pc[h].image, hist.made, hist.sent, core.known)
  BY <1>1 DEF Grown, ThreadWithin, HandingSteps
<1>4. Within(session', hist.made, hist.sent, core.known)
  BY <1>1, <1>2, <1>3, RetainedWithin, MadeNat
<1>5. Growing /\ Within(session', hist'.made, hist'.sent, core'.known)
  BY <1>1, <1>2, <1>4, SameGrowing
<1> QED BY <1>1, <1>5, ReturnWithin, PlainStepGrows

LEMMA HandoffSavedGrows ==
    ASSUME Types, Types', Grown, NEW h \in Handlers, HandoffSaved(h)
    PROVE  Grown'
<1>1. pc[h].at = "save_handoff" /\ UNCHANGED <<channel, hand>> /\ h \in Threads
  BY ThreadsApart DEF HandoffSaved, At
<1>2. CASE Go(h, "send_handoff") /\ UNCHANGED <<session, core, hist>>
  <2>1. Growing /\ Within(session', hist'.made, hist'.sent, core'.known)
    BY <1>2, SameGrowing DEF Grown
  <2>2. "send_handoff" \in Steps /\ ~Speaking(h, "send_handoff") /\ pc[h].at \in HandingSteps
    BY <1>1, AllSteps DEF Speaking, CarryingSteps, HandingSteps
  <2>3. Alone(h) /\ ThreadWithin(h, pc'[h], hist'.made, hist'.sent, core'.known)
    BY <1>1, <1>2, <2>1, <2>2, GoWithin
  <2> QED BY <1>1, <1>2, <2>1, <2>3, PlainStepGrows
<1>3. CASE HandoffFails(h)
  BY <1>1, <1>3, HandoffFailsGrows
<1> QED BY <1>2, <1>3 DEF HandoffSaved

LEMMA SendHandoffGrows ==
    ASSUME Types, Types', Grown, NEW h \in Handlers, SendHandoff(h)
    PROVE  Grown'
<1>1. pc[h].at = "send_handoff" /\ UNCHANGED <<channel, hand>> /\ h \in Threads
  BY ThreadsApart DEF SendHandoff, At
<1>2. /\ pc[h].turn \in Turns /\ pc[h].ids \in SUBSET Names /\ pc[h].ids \subseteq hist.sent
      /\ pc[h].ids \subseteq core.known
  BY <1>1, ThreadFields, Unpacked DEF CarryingSteps, Grown, ThreadWithin, HandingSteps
<1>3. CASE SubmitToCore(pc[h].turn, pc[h].ids, FALSE) /\ Go(h, "dispatch") /\ UNCHANGED session
  <2>1. Growing /\ CoreWithin'
    BY <1>2, <1>3, SubmittedWithin
  <2>2. Within(session', hist'.made, hist'.sent, core'.known)
    BY <1>3, <2>1, WithinGrows, Unpacked DEF Grown
  <2>3. "dispatch" \in Steps /\ "dispatch" \notin HandingSteps /\ ~Speaking(h, "dispatch")
    BY AllSteps DEF HandingSteps, Speaking
  <2>4. Alone(h) /\ ThreadWithin(h, pc'[h], hist'.made, hist'.sent, core'.known)
    BY <1>1, <1>3, <2>1, <2>3, GoWithin
  <2> QED BY <1>1, <2>1, <2>2, <2>4, ThreadStepGrows
<1>4. CASE HandoffFails(h)
  BY <1>1, <1>4, HandoffFailsGrows
<1>5. CASE /\ Strand(pc[h].turn) /\ Return(h) /\ UNCHANGED core
           /\ session' = Retained(session, pc[h].ids)
  <2>1. Growing /\ hist'.made = hist.made /\ hist'.sent = hist.sent
    BY <1>5, HistKept, Unpacked, SameGrowing
  <2>2. Within(session', hist.made, hist.sent, core.known)
    BY <1>2, <1>5, Unpacked, RetainedWithin, MadeNat DEF Grown
  <2>3. Within(session', hist'.made, hist'.sent, core'.known)
    BY <1>5, <2>1, <2>2
  <2> QED BY <1>1, <1>5, <2>1, <2>3, ReturnWithin, PlainStepGrows
<1> QED BY <1>3, <1>4, <1>5 DEF SendHandoff

LEMMA GrownInit == Init => Grown
<1> SUFFICES ASSUME Init PROVE Grown
  OBVIOUS
<1>1. /\ pc = [p \in Threads |-> Resting("idle", NoCommand)] /\ core.mail = {} /\ core.known = {}
      /\ core.queue = <<>> /\ core.run = NoRun /\ hist.made = 0 /\ hist.sent = {}
      /\ channel = <<>> /\ hand = [h \in Handlers |-> <<>>]
  BY DEF Init
<1>2. \A p \in Threads : ThreadWithin(p, pc[p], 0, {}, {})
  BY <1>1, NothingWithin DEF Resting, ThreadWithin, Says, HandingSteps
<1>3. Within(session, 0, {}, {})
  BY DEF Init, Within, NewSession, NoTurn, Turns
<1>4. CoreWithin
  BY <1>1 DEF CoreWithin, NoRun, Submission
<1>5. Underway = {}
  BY <1>1 DEF Underway, ToSet
<1> QED BY <1>1, <1>2, <1>3, <1>4, <1>5 DEF Grown

LEMMA GrownStep == Types /\ Types' /\ Grown /\ [Next]_vars => Grown'
<1> SUFFICES ASSUME Types, Types', Grown, [Next]_vars PROVE Grown'
  OBVIOUS
<1>1. CASE UNCHANGED vars
  BY <1>1 DEF vars, Grown, Within, ThreadWithin, CoreWithin, Underway
<1>2. CASE Next
  BY <1>2, DispatchNextGrows, SendQueuedGrows, SubmitGrows, FireGrows, SupplementGrows, StartGrows,
     TurnSavedGrows, AskGrows, SendGrows, ResolveGrows, ResolveSendGrows, NoteGrows, NoteSavedGrows,
     EnqueueGrows, QueueSavedGrows, AppendEntryGrows, EntrySavedGrows, SettledGrows, SendNowGrows,
     DispatchNowGrows, SupplementNowGrows, NowSavedGrows, CancelGrows, StopSavedGrows, StopCoreGrows,
     CoreStartGrows, CoreTakeGrows, CoreCloseGrows, CoreFinishGrows, DrainGrows, HandleStartedGrows,
     HandleProjectedGrows, HandleUnconsumedGrows, HandleFinishedGrows, ResubmitGrows, HandoffGrows,
     HandoffSavedGrows, SendHandoffGrows, Zenon DEF Next
<1> QED BY <1>1, <1>2
=============================================================================
