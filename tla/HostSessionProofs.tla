-------------------------- MODULE HostSessionProofs --------------------------
(***************************************************************************)
(* Proofs about HostSession, for any commands, timers and bounds: the turn *)
(* that is there, who ends it, what is handed back, and where a turn that  *)
(* was left open is.                                                       *)
(***************************************************************************)
EXTENDS HostSessionFacts

-----------------------------------------------------------------------------
(* The turn that is there, as long as no change was undone and nothing was *)
(* sent over another turn.                                                 *)

Steady == ~hist.undone /\ ~hist.hurried

(* A session is sound if one turn is there at most, the message that is    *)
(* being sent is it, the user is asked about it, and no message of the     *)
(* queue has a turn in the list.                                           *)
OneThere(s) == s.active = NoTurn \/ s.pending = NoTurn
DispatchedThere(s) == s.dispatching # NoTurn => s.pending = s.dispatching
AskedThere(s) == s.asking # NoTurn => s.asking = Current(s) /\ s.dispatching = NoTurn
ItemsDiffer(s) ==
  \A i, j \in DOMAIN s.queue :
    s.queue[i].id = s.queue[j].id \/ s.queue[i].turn = s.queue[j].turn => i = j
ItemsUnlisted(s) == \A i \in DOMAIN s.queue : s.turns[s.queue[i].turn] = "none"
ActiveListed(s) == s.active # NoTurn => s.turns[s.active] # "none"

Sound(s) ==
  /\ OneThere(s) /\ DispatchedThere(s) /\ AskedThere(s)
  /\ ItemsDiffer(s) /\ ItemsUnlisted(s) /\ ActiveListed(s)

(* The messages that wait in the queue, and the one that is being sent.    *)
Waiting(s) == {x \in Names : \E i \in DOMAIN s.queue : s.queue[i].id = x /\ s.queue[i].turn # s.dispatching}
Leaving(s) == {x \in Names : \E i \in DOMAIN s.queue : s.queue[i].id = x /\ s.queue[i].turn = s.dispatching}

(* A session that is put back has the turn that was left, or none if the   *)
(* turn is what is taken back, and no other messages.                      *)
NewTurnSteps == {"save_turn", "save_handoff", "send_handoff"}
RestoringSteps == SavingSteps \cup {"send_handoff"}

SameTurn(r, s) ==
  /\ Current(r) = Current(s) /\ r.dispatching = s.dispatching
  /\ r.asking = s.asking /\ r.askedFor = s.askedFor

Fitting(r) ==
  r.at \in RestoringSteps =>
    /\ Sound(r.image)
    /\ Waiting(r.image) \subseteq Waiting(r.left) \cup (IF r.at = "save_entry" THEN r.ids ELSE {})
    /\ Leaving(r.image) = Leaving(r.left)
    /\ IF r.at \in NewTurnSteps THEN Current(r.image) = NoTurn ELSE SameTurn(r.image, r.left)

(* Core has nothing of the Session's turn.                                 *)
NoneFinished(seq) == \A i \in DOMAIN seq : seq[i].kind # "finished"
FinishedLast(seq) == \A i \in DOMAIN seq : seq[i].kind = "finished" => i = Len(seq)
NoneEnds == NoneFinished(channel) /\ \A h \in Handlers : NoneFinished(hand[h])
CoreIdle == core.queue = <<>> /\ core.run = NoRun /\ channel = <<>> /\ NoneEnds

(* The turn that is there is in one place: a thread brings it to Core, the *)
(* user is asked, it waits in Core, it runs, or its end is on the way.     *)
OneCarries == \A p, q \in Threads : Carries(p) /\ Carries(q) => p = q
CarriedIsThere ==
  \A p \in Threads : Carries(p) => session.asking = NoTurn /\ CoreIdle /\ pc[p].turn = Current(session)
AskedIsIdle == session.asking # NoTurn => CoreIdle
SubmittedIsThere ==
  core.queue # <<>> => /\ Len(core.queue) = 1 /\ core.run = NoRun /\ channel = <<>> /\ NoneEnds
                       /\ core.queue[1].turn = Current(session)
RunningIsThere == core.run # NoRun => core.run.turn = Current(session) /\ NoneEnds
ToldIsThere ==
  /\ \A i \in DOMAIN channel : channel[i].turn = Current(session)
  /\ core.run = NoRun /\ channel # <<>> => ~NoneFinished(channel)
  /\ FinishedLast(channel)
EndIsThere ==
  \A h \in Handlers :
    /\ \A i \in DOMAIN hand[h] : hand[h][i].kind = "finished" => hand[h][i].turn = Current(session)
    /\ FinishedLast(hand[h])
    /\ ~NoneFinished(hand[h]) => channel = <<>> /\ \A g \in Handlers : g = h \/ NoneFinished(hand[g])
Somewhere ==
  \/ Current(session) \in {NoTurn} \cup hist.stranded
  \/ ~CoreIdle \/ session.asking # NoTurn \/ \E p \in Threads : Carries(p)

Token ==
  /\ OneCarries /\ CarriedIsThere /\ AskedIsIdle /\ SubmittedIsThere /\ RunningIsThere
  /\ ToldIsThere /\ EndIsThere /\ Somewhere

(* A message that is being sent is carried, submitted or announced under   *)
(* its id, and the bridge is to hear of its start before any end.          *)
SendingSteps == {"send_queued", "save_now"}
Announced ==
  \/ \E i \in DOMAIN hand["bridge"] :
       hand["bridge"][i].kind = "started" /\ hand["bridge"][i].ids = Leaving(session)
  \/ \E i \in DOMAIN channel : channel[i].kind = "started" /\ channel[i].ids = Leaving(session)

Sending ==
  /\ \A p \in Threads : Carries(p) => (session.dispatching # NoTurn <=> pc[p].at \in SendingSteps)
  /\ session.dispatching # NoTurn =>
       /\ \A p \in Threads : Carries(p) => pc[p].ids = Leaving(session)
       /\ core.queue # <<>> => core.queue[1].ids = Leaving(session)
       /\ core.run # NoRun \/ ~NoneEnds => Announced
       /\ NoneFinished(hand["lane"])

(* A message is in one place: it waits, Core knows it, it is held by a     *)
(* thread or a question, or it is a thread's own command.                  *)
HoldingSteps == {"save_turn", "ask", "send", "resolve", "save_now", "send_queued"}
HeldBy(r) == IF r.at \in HoldingSteps THEN r.ids ELSE {}
AskedIds(s) == IF s.asking # NoTurn THEN s.askedFor ELSE {}
SpareOf(p, r) == IF r.at = "save_entry" THEN r.ids ELSE IF Says(p, r) THEN {r.cmd} ELSE {}

IsHeld(x) == x \in AskedIds(session) \/ \E p \in Threads : x \in HeldBy(pc[p])
IsSpare(x) == \E p \in Threads : x \in SpareOf(p, pc[p])

WaitingApart == \A x \in Waiting(session) : x \notin core.known /\ ~IsHeld(x)
HeldApart == \A x \in core.known : ~IsHeld(x)
SpareApart ==
  \A x \in Names : IsSpare(x) =>
    x \notin Waiting(session) \cup Leaving(session) \cup core.known /\ ~IsHeld(x)
SparesDiffer ==
  \A p, q \in Threads : \A x \in Names : x \in SpareOf(p, pc[p]) /\ x \in SpareOf(q, pc[q]) => p = q

Apart == WaitingApart /\ HeldApart /\ SpareApart /\ SparesDiffer

(* The user sends one message now. *)
Single(r) == r.at \in {"append_now", "now"} => \E x \in Names : r.ids = {x}

Led ==
  /\ Sound(session)
  /\ \A p \in Threads : Fitting(pc[p]) /\ Single(pc[p])
  /\ Token /\ Sending /\ Apart

-----------------------------------------------------------------------------
(* Sessions that agree on these are sound alike. *)
Alike(r, s) ==
  /\ r.queue = s.queue /\ r.dispatching = s.dispatching /\ r.turns = s.turns
  /\ r.pending = s.pending /\ r.active = s.active
  /\ r.asking = s.asking /\ r.askedFor = s.askedFor

LEMMA AlikeSessions ==
    ASSUME NEW r, NEW s, Alike(r, s)
    PROVE  /\ Sound(s) => Sound(r)
           /\ Waiting(r) = Waiting(s) /\ Leaving(r) = Leaving(s) /\ SameTurn(r, s)
           /\ AskedIds(r) = AskedIds(s)
<1>1. Current(r) = Current(s)
  BY DEF Alike, Current
<1>2. Waiting(r) = Waiting(s) /\ Leaving(r) = Leaving(s)
  BY DEF Alike, Waiting, Leaving
<1>3. Sound(s) => Sound(r)
  BY <1>1 DEF Alike, Sound, OneThere, DispatchedThere, AskedThere, ItemsDiffer, ItemsUnlisted,
                     ActiveListed
<1> QED BY <1>1, <1>2, <1>3 DEF Alike, SameTurn, AskedIds

(* A turn that is there leaves room for no other.                          *)
LEMMA CurrentOfSound ==
    ASSUME NEW s \in SessionType, Sound(s)
    PROVE  /\ Current(s) = NoTurn <=> (s.pending = NoTurn /\ s.active = NoTurn)
           /\ s.dispatching # NoTurn => Current(s) = s.dispatching /\ s.active = NoTurn
           /\ Current(s) = NoTurn => s.dispatching = NoTurn /\ s.asking = NoTurn
BY DEF Sound, OneThere, DispatchedThere, AskedThere, Current

(* While no turn is there nothing is under way. *)
LEMMA NothingIsThere ==
    ASSUME Types, Sound(session), Token, Current(session) = NoTurn
    PROVE  /\ \A p \in Threads : ~Carries(p)
           /\ session.asking = NoTurn /\ session.dispatching = NoTurn /\ CoreIdle
<1>1. session.asking = NoTurn /\ session.dispatching = NoTurn
  BY CurrentOfSound, Unpacked
<1>2. \A p \in Threads : ~Carries(p)
  <2> SUFFICES ASSUME NEW p \in Threads, Carries(p) PROVE FALSE
    OBVIOUS
  <2>1. pc[p].turn = NoTurn
    BY DEF Token, CarriedIsThere
  <2> QED BY <2>1, ThreadFields, Unpacked DEF Carries, CarryingSteps, Turns, NoTurn
<1>3. core.run = NoRun
  BY Unpacked DEF Token, RunningIsThere, CoreOK
<1>4. core.queue = <<>>
  <2> SUFFICES ASSUME core.queue # <<>> PROVE FALSE
    OBVIOUS
  <2>1. Len(core.queue) = 1 /\ core.queue[1].turn = NoTurn /\ core.queue \in Seq(SubmissionType)
    BY Unpacked DEF Token, SubmittedIsThere, CoreOK, CoreType
  <2>2. 1 \in DOMAIN core.queue
    BY <2>1
  <2> QED BY <2>1, <2>2, Unpacked DEF CoreOK
<1>5. channel = <<>>
  <2> SUFFICES ASSUME channel # <<>> PROVE FALSE
    OBVIOUS
  <2>1. channel \in Seq(EventType)
    BY Unpacked DEF EventsOK
  <2>2. 1 \in DOMAIN channel
    BY <2>1
  <2>3. channel[1].turn = NoTurn /\ channel[1] \in EventType
    BY <2>1, <2>2 DEF Token, ToldIsThere
  <2> QED BY <2>3 DEF EventType, Turns, NoTurn
<1>6. NoneEnds
  <2>1. NoneFinished(channel)
    BY <1>5 DEF NoneFinished
  <2>2. ASSUME NEW h \in Handlers PROVE NoneFinished(hand[h])
    <3> SUFFICES ASSUME NEW i \in DOMAIN hand[h], hand[h][i].kind = "finished" PROVE FALSE
      BY DEF NoneFinished
    <3>1. hand[h] \in Seq(EventType)
      BY Unpacked DEF EventsOK
    <3>2. hand[h][i] \in EventType
      BY <3>1
    <3>3. hand[h][i].turn = NoTurn
      BY DEF Token, EndIsThere
    <3> QED BY <3>2, <3>3 DEF EventType, Turns, NoTurn
  <2> QED BY <2>1, <2>2 DEF NoneEnds
<1> QED BY <1>1, <1>2, <1>3, <1>4, <1>5, <1>6 DEF CoreIdle

(* Nothing under way in Core: what is left to say. *)
LEMMA TokenWhenIdle ==
    ASSUME Types', CoreIdle', OneCarries',
           \A p \in Threads : Carries(p)' => session'.asking = NoTurn /\ pc'[p].turn = Current(session'),
           \/ Current(session') \in {NoTurn} \cup hist'.stranded
           \/ session'.asking # NoTurn \/ \E p \in Threads : Carries(p)'
    PROVE  Token'
<1>1. core'.queue = <<>> /\ core'.run = NoRun /\ channel' = <<>> /\ NoneFinished(channel')
  BY DEF CoreIdle, NoneEnds
<1>2. \A h \in Handlers : \A i \in DOMAIN hand'[h] : hand'[h][i].kind # "finished"
  BY DEF CoreIdle, NoneEnds, NoneFinished
<1>3. EndIsThere'
  BY <1>1, <1>2 DEF EndIsThere, FinishedLast, NoneFinished
<1>4. ToldIsThere'
  BY <1>1 DEF ToldIsThere, FinishedLast
<1>5. CarriedIsThere' /\ AskedIsIdle' /\ SubmittedIsThere' /\ RunningIsThere' /\ Somewhere'
  BY <1>1 DEF CarriedIsThere, AskedIsIdle, SubmittedIsThere, RunningIsThere, Somewhere
<1> QED BY <1>3, <1>4, <1>5 DEF Token

LEMMA SendingWhenIdle ==
    ASSUME CoreIdle',
           \A p \in Threads : Carries(p)' => (session'.dispatching # NoTurn <=> pc'[p].at \in SendingSteps),
           session'.dispatching # NoTurn => \A p \in Threads : Carries(p)' => pc'[p].ids = Leaving(session')
    PROVE  Sending'
<1>1. core'.queue = <<>> /\ core'.run = NoRun /\ NoneEnds' /\ NoneFinished(hand'["lane"])
  BY DEF CoreIdle, NoneEnds, Handlers
<1> QED BY <1>1 DEF Sending
-----------------------------------------------------------------------------
(* Where the messages are after a step of a thread. *)

(* The messages the step can bring somewhere else.                         *)
Here(p) == AskedIds(session) \cup HeldBy(pc[p])
Places(p) == Waiting(session) \cup core.known \cup Here(p) \cup SpareOf(p, pc[p])

OnePlace(p) ==
  \A x \in Names :
    /\ x \in Waiting(session) => x \notin core.known \cup Here(p)
    /\ x \in core.known => x \notin Here(p)
    /\ x \in SpareOf(p, pc[p]) =>
         x \notin Waiting(session) \cup Leaving(session) \cup core.known \cup Here(p)

Moved(p) ==
  /\ \A x \in Names : x \in Places(p)' => x \in Places(p) \/ x \notin hist.sent
  /\ \A x \in Names : x \in Leaving(session') =>
       x \in Leaving(session) \cup Places(p) \/ x \notin hist.sent
  /\ OnePlace(p)'

LEMMA HoldersCarry ==
    ASSUME NEW p, NEW x, x \in HeldBy(pc[p])
    PROVE  Carries(p) /\ x \in pc[p].ids
BY DEF HeldBy, HoldingSteps, Carries

LEMMA OthersApart ==
    ASSUME Types, Grown, Token, Apart, NEW p \in Threads, NEW q \in Threads, p # q, NEW x \in Names
    PROVE  /\ x \in HeldBy(pc[q]) => x \notin Places(p) /\ x \in hist.sent
           /\ x \in SpareOf(q, pc[q]) => x \notin Places(p) \cup Leaving(session) /\ x \in hist.sent
<1>1. ASSUME x \in HeldBy(pc[q]) PROVE x \notin Places(p) /\ x \in hist.sent
  <2>1. Carries(q) /\ x \in pc[q].ids
    BY <1>1, HoldersCarry
  <2>2. session.asking = NoTurn /\ ~Carries(p)
    BY <2>1 DEF Token, OneCarries, CarriedIsThere
  <2>3. x \notin Here(p)
    BY <2>2, HoldersCarry DEF Here, AskedIds
  <2>4. IsHeld(x)
    BY <1>1 DEF IsHeld
  <2>5. x \notin Waiting(session) \cup core.known /\ ~IsSpare(x)
    BY <2>4 DEF Apart, WaitingApart, HeldApart, SpareApart
  <2>6. x \notin SpareOf(p, pc[p])
    BY <2>5 DEF IsSpare
  <2>7. x \in hist.sent
    BY <2>1 DEF Grown, ThreadWithin
  <2> QED BY <2>3, <2>5, <2>6, <2>7 DEF Places
<1>2. ASSUME x \in SpareOf(q, pc[q])
      PROVE  x \notin Places(p) \cup Leaving(session) /\ x \in hist.sent
  <2>1. IsSpare(x)
    BY <1>2 DEF IsSpare
  <2>2. x \notin Waiting(session) \cup Leaving(session) \cup core.known /\ ~IsHeld(x)
    BY <2>1 DEF Apart, SpareApart
  <2>3. x \notin Here(p)
    BY <2>2 DEF Here, IsHeld
  <2>4. x \notin SpareOf(p, pc[p])
    BY <1>2 DEF Apart, SparesDiffer
  <2>5. x \in hist.sent
    BY <1>2 DEF SpareOf, Grown, ThreadWithin
  <2> QED BY <2>2, <2>3, <2>4, <2>5 DEF Places
<1> QED BY <1>1, <1>2

LEMMA HeldAfter ==
    ASSUME NEW p \in Threads, Alone(p), NEW x, IsHeld(x)'
    PROVE  x \in Here(p)' \/ \E q \in Threads : q # p /\ x \in HeldBy(pc[q])
BY DEF IsHeld, Here, Alone

LEMMA SpareAfter ==
    ASSUME NEW p \in Threads, Alone(p), NEW x, IsSpare(x)'
    PROVE  x \in SpareOf(p, pc'[p]) \/ \E q \in Threads : q # p /\ x \in SpareOf(q, pc[q])
BY DEF IsSpare, Alone

LEMMA KnownNames ==
    ASSUME Types'
    PROVE  core'.known \in SUBSET Names
BY DEF Types, CoreOK, CoreType

LEMMA ApartAfter ==
    ASSUME Types, Types', Grown, Token, Apart, NEW p \in Threads, Alone(p), Moved(p)
    PROVE  Apart'
<1>1. \A x \in Names : x \in Places(p)' =>
        \A q \in Threads : q # p => x \notin HeldBy(pc[q]) \cup SpareOf(q, pc[q])
  BY OthersApart DEF Moved
<1>2. \A x \in Names : x \in Leaving(session') =>
        \A q \in Threads : q # p => x \notin SpareOf(q, pc[q])
  BY OthersApart DEF Moved
<1>3. WaitingApart'
  <2> SUFFICES ASSUME NEW x \in Waiting(session') PROVE x \notin core'.known /\ ~IsHeld(x)'
    BY DEF WaitingApart
  <2>1. x \in Names /\ x \in Places(p)'
    BY DEF Waiting, Places
  <2>2. x \notin core'.known /\ x \notin Here(p)'
    BY <2>1 DEF Moved, OnePlace
  <2> QED BY <1>1, <2>1, <2>2, HeldAfter
<1>4. HeldApart'
  <2> SUFFICES ASSUME NEW x \in core'.known, IsHeld(x)' PROVE FALSE
    BY DEF HeldApart
  <2>1. x \in Names /\ x \in Places(p)'
    BY KnownNames DEF Places
  <2>2. x \notin Here(p)'
    BY <2>1 DEF Moved, OnePlace
  <2> QED BY <1>1, <2>1, <2>2, HeldAfter
<1>5. SpareApart'
  <2> SUFFICES ASSUME NEW x \in Names, IsSpare(x)'
               PROVE  x \notin Waiting(session') \cup Leaving(session') \cup core'.known /\ ~IsHeld(x)'
    BY DEF SpareApart
  <2>1. CASE x \in SpareOf(p, pc'[p])
    <3>1. x \notin Waiting(session') \cup Leaving(session') \cup core'.known \cup Here(p)'
      BY <2>1 DEF Moved, OnePlace
    <3>2. x \in Places(p)'
      BY <2>1 DEF Places
    <3> QED BY <1>1, <3>1, <3>2, HeldAfter
  <2>2. CASE \E q \in Threads : q # p /\ x \in SpareOf(q, pc[q])
    <3>1. x \notin Places(p)' /\ x \notin Leaving(session')
      BY <1>1, <1>2, <2>2
    <3>2. IsSpare(x)
      BY <2>2 DEF IsSpare
    <3>3. ~IsHeld(x)
      BY <3>2 DEF Apart, SpareApart
    <3>4. \A q \in Threads : x \notin HeldBy(pc[q])
      BY <3>3 DEF IsHeld
    <3>5. ~IsHeld(x)'
      BY <3>1, <3>4, HeldAfter DEF Places
    <3> QED BY <3>1, <3>5 DEF Places
  <2> QED BY <2>1, <2>2, SpareAfter
<1>6. SparesDiffer'
  <2> SUFFICES ASSUME NEW q \in Threads, NEW r \in Threads, NEW x \in Names,
                      x \in SpareOf(q, pc'[q]), x \in SpareOf(r, pc'[r]), q # r
               PROVE  FALSE
    BY DEF SparesDiffer
  <2>1. CASE q # p /\ r # p
    BY <2>1 DEF Apart, SparesDiffer, Alone
  <2>2. CASE q = p
    BY <1>1, <2>2 DEF Alone, Places
  <2>3. CASE r = p
    BY <1>1, <2>3 DEF Alone, Places
  <2> QED BY <2>1, <2>2, <2>3
<1> QED BY <1>3, <1>4, <1>5, <1>6 DEF Apart

(* Nothing comes from anywhere. *)
LEMMA MovedLess ==
    ASSUME Apart, NEW p \in Threads,
           Waiting(session') \subseteq Waiting(session), Leaving(session') \subseteq Leaving(session),
           core'.known = core.known, Here(p)' \subseteq Here(p),
           SpareOf(p, pc'[p]) \subseteq SpareOf(p, pc[p])
    PROVE  Moved(p)
<1>1. Places(p)' \subseteq Places(p)
  BY DEF Places
<1>2. OnePlace(p)
  <2>1. \A x : x \in Here(p) => IsHeld(x)
    BY DEF Here, IsHeld
  <2>2. \A x : x \in SpareOf(p, pc[p]) => IsSpare(x)
    BY DEF IsSpare
  <2> QED BY <2>1, <2>2 DEF OnePlace, Apart, WaitingApart, HeldApart, SpareApart
<1>3. OnePlace(p)'
  BY <1>2 DEF OnePlace
<1> QED BY <1>1, <1>3 DEF Moved

LEMMA ThreadStepLeads ==
    ASSUME Types, Types', Grown, Led, NEW p \in Threads, Alone(p),
           Sound(session'), Fitting(pc'[p]), Single(pc'[p]), Moved(p), Token', Sending'
    PROVE  Led'
<1>1. Apart'
  BY ApartAfter DEF Led
<1>2. \A q \in Threads : Fitting(pc'[q]) /\ Single(pc'[q])
  BY DEF Led, Alone
<1> QED BY <1>1, <1>2 DEF Led
-----------------------------------------------------------------------------
(* A step that leaves the turn that is there where it is. *)

(* Core has the same turns. *)
SameTurns ==
  /\ Len(core'.queue) = Len(core.queue) /\ (core'.queue = <<>> <=> core.queue = <<>>)
  /\ \A i \in DOMAIN core.queue : core'.queue[i].turn = core.queue[i].turn
                                  /\ core'.queue[i].ids = core.queue[i].ids
  /\ core'.run.turn = core.run.turn /\ (core'.run = NoRun <=> core.run = NoRun)

(* The thread carries what it carried. *)
SameBurden(p) ==
  /\ Carries(p)' <=> Carries(p)
  /\ Carries(p) => /\ pc'[p].turn = pc[p].turn /\ pc'[p].ids = pc[p].ids
                   /\ pc'[p].at \in SendingSteps <=> pc[p].at \in SendingSteps

LEMMA FirstSubmission ==
    ASSUME CoreOK, core.queue # <<>>
    PROVE  1 \in DOMAIN core.queue /\ core.queue[1] \in SubmissionType
<1>1. core.queue \in Seq(SubmissionType)
  BY DEF CoreOK, CoreType
<1> QED BY <1>1

LEMMA TokenKept ==
    ASSUME Types, Types', Token, Sending, \A p \in Threads : SameBurden(p),
           UNCHANGED <<channel, hand>>, SameTurns,
           SameTurn(session', session), Leaving(session') = Leaving(session),
           hist.stranded \subseteq hist'.stranded
    PROVE  Token' /\ Sending'
<1>1. /\ Current(session') = Current(session) /\ session'.dispatching = session.dispatching
      /\ session'.asking = session.asking
  BY DEF SameTurn
<1>2. \A p \in Threads : (Carries(p)' <=> Carries(p))
  BY DEF SameBurden
<1>3. NoneEnds' = NoneEnds /\ CoreIdle' = CoreIdle
  BY DEF NoneEnds, CoreIdle, SameTurns, NoneFinished
<1>4. core.queue # <<>> => 1 \in DOMAIN core.queue
  BY FirstSubmission, Unpacked
<1>5. CarriedIsThere' /\ OneCarries'
  BY <1>1, <1>2, <1>3 DEF Token, OneCarries, CarriedIsThere, SameBurden
<1>6. AskedIsIdle' /\ SubmittedIsThere'
  BY <1>1, <1>3, <1>4 DEF Token, AskedIsIdle, SubmittedIsThere, SameTurns
<1>7. RunningIsThere' /\ ToldIsThere'
  BY <1>1, <1>3 DEF Token, RunningIsThere, ToldIsThere, SameTurns
<1>8. EndIsThere'
  BY <1>1 DEF Token, EndIsThere
<1>9. Somewhere'
  BY <1>1, <1>2, <1>3 DEF Token, Somewhere
<1>10. Announced' = Announced
  BY DEF Announced
<1>11. Sending'
  BY <1>1, <1>2, <1>3, <1>4, <1>10 DEF Sending, SameBurden, SameTurns
<1> QED BY <1>5, <1>6, <1>7, <1>8, <1>9, <1>11 DEF Token

LEMMA BurdenOfAll ==
    ASSUME NEW p \in Threads, Alone(p), SameBurden(p)
    PROVE  \A q \in Threads : SameBurden(q)
BY DEF SameBurden, Alone, Carries

(* A thread goes on; the session may change, but neither its turn nor, but *)
(* for what leaves it, its queue.                                          *)
LEMMA SteadyStepLeads ==
    ASSUME Types, Types', Grown, Led, NEW p \in Threads, Alone(p),
           UNCHANGED <<channel, hand>>, SameTurns,
           Sound(session'), SameTurn(session', session), Leaving(session') = Leaving(session),
           hist.stranded \subseteq hist'.stranded,
           SameBurden(p), Fitting(pc'[p]), Single(pc'[p]), Moved(p)
    PROVE  Led'
<1>1. Token' /\ Sending'
  BY TokenKept, BurdenOfAll DEF Led
<1> QED BY <1>1, ThreadStepLeads

(* What a thread is after it has gone on without a turn in hand. *)
Light(p) ==
  /\ Alone(p)
  /\ pc'[p].at \notin CarryingSteps \cup RestoringSteps \cup {"append_now", "now"}

LEMMA LightStep ==
    ASSUME NEW p, Light(p)
    PROVE  /\ Alone(p) /\ Fitting(pc'[p]) /\ Single(pc'[p]) /\ ~Carries(p)' /\ HeldBy(pc'[p]) = {}
           /\ Here(p)' = AskedIds(session')
BY DEF Light, Fitting, Single, Carries, CarryingSteps, HeldBy, HoldingSteps, Here

LEMMA EndLight ==
    ASSUME Types, NEW p \in Threads, End(p)
    PROVE  Light(p) /\ SpareOf(p, pc'[p]) = {}
<1>1. Alone(p) /\ pc'[p].at = "idle" /\ pc'[p].back = "idle"
  BY EndEffect, Unpacked
<1> QED BY <1>1 DEF Light, CarryingSteps, RestoringSteps, SavingSteps, SpareOf, Says

LEMMA ReturnLight ==
    ASSUME Types, NEW p \in Threads, Return(p)
    PROVE  Light(p) /\ SpareOf(p, pc'[p]) \subseteq SpareOf(p, pc[p])
<1>1. /\ Alone(p) /\ pc'[p].at = pc[p].back /\ pc'[p].back = pc[p].back
      /\ pc'[p].cmd = IF pc[p].back = "settle" THEN pc[p].cmd ELSE NoCommand
  BY ReturnEffect, Unpacked
<1>2. /\ pc[p].back \in {"idle", "settle"}
      /\ pc[p].back = "settle" => pc[p].at # "save_entry"
  BY ThreadFields, Unpacked DEF ThreadsOK, ThreadOK, HandlerSteps, HandoffSteps
<1> QED BY <1>1, <1>2 DEF Light, CarryingSteps, RestoringSteps, SavingSteps, SpareOf, Says

LEMMA BeginLight ==
    ASSUME Types, NEW p \in Threads, NEW x \in {"start", "enqueue", "append"}, NEW c \in Names,
           Begin(p, x, c)
    PROVE  Light(p) /\ SpareOf(p, pc'[p]) = {c}
<1>1. x \in Steps
  BY AllSteps
<1>2. Alone(p) /\ pc'[p].at = x /\ pc'[p].cmd = c
  BY <1>1, BeginEffect, Unpacked
<1> QED BY <1>2 DEF Light, CarryingSteps, RestoringSteps, SavingSteps, SpareOf, Says

LEMMA GoLight ==
    ASSUME Types, NEW p \in Threads,
           NEW x \in Steps \ (CarryingSteps \cup RestoringSteps \cup {"append_now", "now"}),
           Speaking(p, x) => Says(p, pc[p]), pc[p].at # "save_entry", Go(p, x)
    PROVE  Light(p) /\ SpareOf(p, pc'[p]) \subseteq SpareOf(p, pc[p])
<1>1. Alone(p) /\ pc'[p].at = x /\ pc'[p].cmd = pc[p].cmd /\ pc'[p].back = pc[p].back
  BY GoEffect, Unpacked
<1> QED BY <1>1 DEF Light, RestoringSteps, SavingSteps, SpareOf, Says, Speaking

LEMMA RefusedLight ==
    ASSUME Types, NEW p \in Threads, pc[p].at \in {"start", "save_turn", "send"}, Refused(p)
    PROVE  Light(p) /\ SpareOf(p, pc'[p]) \subseteq SpareOf(p, pc[p])
<1>1. CASE End(p)
  BY <1>1, EndLight
<1>2. CASE p = "task" /\ Begin(p, "enqueue", pc[p].cmd)
  <2>1. Says(p, pc[p]) /\ pc[p].at # "save_entry"
    BY <1>2 DEF Says
  <2>2. pc[p].cmd \in Names
    BY <2>1, ThreadFields, Unpacked
  <2> QED BY <1>2, <2>1, <2>2, BeginLight DEF SpareOf
<1> QED BY <1>1, <1>2 DEF Refused

(* A thread without a turn in hand goes on, and the session is the same.   *)
LEMMA PassingLeads ==
    ASSUME Types, Types', Grown, Led, NEW p \in Threads, ~Carries(p), Light(p),
           UNCHANGED <<channel, hand>>, SameTurns, core'.known = core.known,
           Alike(session', session), hist.stranded \subseteq hist'.stranded,
           SpareOf(p, pc'[p]) \subseteq SpareOf(p, pc[p])
    PROVE  Led'
<1>1. /\ Sound(session') /\ SameTurn(session', session)
      /\ Waiting(session') = Waiting(session) /\ Leaving(session') = Leaving(session)
      /\ AskedIds(session') = AskedIds(session)
  BY AlikeSessions DEF Led
<1>2. /\ Alone(p) /\ Fitting(pc'[p]) /\ Single(pc'[p]) /\ ~Carries(p)' /\ HeldBy(pc'[p]) = {}
  BY LightStep
<1>3. Here(p)' \subseteq Here(p) /\ SameBurden(p)
  BY <1>1, <1>2 DEF Here, SameBurden
<1>4. Moved(p)
  BY <1>1, <1>3, MovedLess DEF Led
<1> QED BY <1>1, <1>2, <1>3, <1>4, SteadyStepLeads

LEMMA SameCore ==
    ASSUME core'.queue = core.queue, core'.run = core.run
    PROVE  SameTurns
BY DEF SameTurns
-----------------------------------------------------------------------------
(* The ways a thread saves, puts back, takes up a turn and lets it go.      *)

LEMMA SameIdle ==
    ASSUME CoreIdle, UNCHANGED <<core, channel, hand>>
    PROVE  CoreIdle'
BY DEF CoreIdle, NoneEnds, NoneFinished

LEMMA CarryingIs ==
    /\ \A p : Carries(p) <=> pc[p].at \in CarryingSteps
    /\ \A p : Carries(p)' <=> pc'[p].at \in CarryingSteps
    /\ HoldingSteps \subseteq CarryingSteps /\ SendingSteps \subseteq HoldingSteps
    /\ (SavingSteps \ NewTurnSteps) \cap CarryingSteps = {}
BY DEF Carries, CarryingSteps, HoldingSteps, SendingSteps, SavingSteps, NewTurnSteps

(* A thread saves what it has done to the session, and no turn is new.     *)
LEMMA SavingLeads ==
    ASSUME Types, Types', Grown, Led, NEW p \in Threads, ~Carries(p),
           UNCHANGED <<core, channel, hand>>, hist.stranded \subseteq hist'.stranded,
           Sound(session'), SameTurn(session', session), Leaving(session') = Leaving(session),
           NEW x \in SavingSteps \ NewTurnSteps, NEW t \in MaybeTurn, NEW ids \in SUBSET Names,
           Save(p, x, t, ids),
           Waiting(session) \subseteq Waiting(session') \cup (IF x = "save_entry" THEN ids ELSE {}),
           \A i \in Names : i \in Waiting(session') =>
             i \in Waiting(session) \/ (i \in SpareOf(p, pc[p]) /\ i \notin SpareOf(p, pc'[p])),
           \A i \in Names : i \in SpareOf(p, pc'[p]) =>
             i \in SpareOf(p, pc[p]) \/ (i \in Waiting(session) /\ i \notin Waiting(session')
                                         /\ i \notin Leaving(session))
    PROVE  Led'
<1>1. x \in Steps /\ session' \in SessionType
  BY AllSteps, Unpacked DEF Types, SessionOK
<1>2. /\ Alone(p) /\ pc'[p].at = x /\ pc'[p].ids = ids /\ pc'[p].image = session /\ pc'[p].left = session'
  BY <1>1, SaveEffect, Unpacked
<1>3. Fitting(pc'[p]) /\ Single(pc'[p])
  BY <1>2 DEF Fitting, Single, Led, SameTurn, SavingSteps, NewTurnSteps
<1>4. SameTurns
  BY SameCore
<1>5. ~Carries(p)' /\ HeldBy(pc[p]) = {} /\ HeldBy(pc'[p]) = {}
  BY <1>2, CarryingIs DEF HeldBy
<1>6. SameBurden(p)
  BY <1>5 DEF SameBurden
<1>7. Here(p)' = AskedIds(session) /\ Here(p) = AskedIds(session)
  BY <1>5 DEF Here, AskedIds, SameTurn
<1>8. \A i : (i \in AskedIds(session) => IsHeld(i)) /\ (i \in SpareOf(p, pc[p]) => IsSpare(i))
  BY DEF IsHeld, IsSpare
<1>9. OnePlace(p)'
  <2> SUFFICES ASSUME NEW i \in Names
               PROVE  /\ i \in Waiting(session') => i \notin core.known \cup AskedIds(session)
                      /\ i \in core.known => i \notin AskedIds(session)
                      /\ i \in SpareOf(p, pc'[p]) =>
                           i \notin Waiting(session') \cup Leaving(session) \cup core.known \cup AskedIds(session)
    BY <1>7 DEF OnePlace
  <2>1. i \in SpareOf(p, pc[p]) =>
          i \notin Waiting(session) \cup Leaving(session) \cup core.known \cup AskedIds(session)
    BY <1>8 DEF Led, Apart, SpareApart
  <2>2. i \in Waiting(session) => i \notin core.known \cup AskedIds(session)
    BY <1>8 DEF Led, Apart, WaitingApart
  <2>3. i \in core.known => i \notin AskedIds(session)
    BY <1>8 DEF Led, Apart, HeldApart
  <2> QED BY <2>1, <2>2, <2>3
<1>10. Moved(p)
  BY <1>7, <1>9 DEF Moved, Places
<1> QED BY <1>2, <1>3, <1>4, <1>6, <1>10, SteadyStepLeads

LEMMA PutBackLeads ==
    ASSUME Types, Types', Grown, Led, Steady', NEW p \in Threads,
           UNCHANGED <<core, channel, hand>>, pc[p].at \in SavingSteps \ NewTurnSteps,
           PutBack(p), End(p)
    PROVE  Led'
<1>1. session' = pc[p].image /\ session = pc[p].left /\ hist'.stranded = hist.stranded
  BY PutBackEffect, Unpacked DEF Steady
<1>2. /\ Sound(session') /\ SameTurn(session', session) /\ Leaving(session') = Leaving(session)
      /\ Waiting(session') \subseteq Waiting(session) \cup (IF pc[p].at = "save_entry" THEN pc[p].ids ELSE {})
  BY <1>1 DEF Led, Fitting, RestoringSteps
<1>3. Light(p) /\ SpareOf(p, pc'[p]) = {}
  BY EndLight
<1>4. /\ Alone(p) /\ Fitting(pc'[p]) /\ Single(pc'[p]) /\ ~Carries(p)' /\ Here(p)' = AskedIds(session')
  BY <1>3, LightStep
<1>5. ~Carries(p) /\ HeldBy(pc[p]) = {}
  BY CarryingIs DEF HeldBy
<1>6. SameBurden(p) /\ SameTurns
  BY <1>4, <1>5, SameCore DEF SameBurden
<1>7. Here(p)' = AskedIds(session) /\ Here(p) = AskedIds(session)
  BY <1>2, <1>4, <1>5 DEF Here, AskedIds, SameTurn
<1>8. Waiting(session') \subseteq Waiting(session) \cup SpareOf(p, pc[p])
  BY <1>2 DEF SpareOf
<1>9. \A i : (i \in AskedIds(session) => IsHeld(i)) /\ (i \in SpareOf(p, pc[p]) => IsSpare(i))
  BY DEF IsHeld, IsSpare
<1>10. OnePlace(p)'
  <2> SUFFICES ASSUME NEW i \in Names
               PROVE  /\ i \in Waiting(session') => i \notin core.known \cup AskedIds(session)
                      /\ i \in core.known => i \notin AskedIds(session)
    BY <1>3, <1>7 DEF OnePlace
  <2> QED BY <1>8, <1>9 DEF Led, Apart, SpareApart, WaitingApart, HeldApart
<1>11. Moved(p)
  BY <1>2, <1>3, <1>7, <1>8, <1>10 DEF Moved, Places
<1> QED BY <1>1, <1>2, <1>4, <1>6, <1>11, SteadyStepLeads

(* A thread takes up a turn while none is there.                           *)
LEMMA TakesUpLeads ==
    ASSUME Types, Types', Grown, Led, NEW p \in Threads, Alone(p), Current(session) = NoTurn,
           UNCHANGED <<core, channel, hand>>,
           Sound(session'), session'.asking = NoTurn, pc'[p].turn = Current(session'),
           Carries(p)', session'.dispatching # NoTurn <=> pc'[p].at \in SendingSteps,
           session'.dispatching # NoTurn => pc'[p].ids = Leaving(session'),
           Fitting(pc'[p]), Single(pc'[p]), Moved(p)
    PROVE  Led'
<1>1. (\A q \in Threads : ~Carries(q)) /\ CoreIdle
  BY NothingIsThere DEF Led
<1>2. CoreIdle'
  BY <1>1, SameIdle
<1>3. \A q \in Threads : Carries(q)' => q = p
  BY <1>1 DEF Carries, Alone
<1>4. OneCarries'
  BY <1>3 DEF OneCarries
<1>5. Token'
  BY <1>2, <1>3, <1>4, TokenWhenIdle
<1>6. Sending'
  BY <1>2, <1>3, SendingWhenIdle
<1> QED BY <1>5, <1>6, ThreadStepLeads

(* A thread lets go of its turn, which is gone or left behind.             *)
LEMMA LetsGoLeads ==
    ASSUME Types, Types', Grown, Led, NEW p \in Threads, Carries(p), Light(p),
           UNCHANGED <<core, channel, hand>>,
           Sound(session'), Current(session') \in {NoTurn} \cup hist'.stranded, Moved(p)
    PROVE  Led'
<1>1. CoreIdle'
  BY SameIdle DEF Led, Token, CarriedIsThere
<1>2. Alone(p) /\ Fitting(pc'[p]) /\ Single(pc'[p]) /\ ~Carries(p)'
  BY LightStep
<1>3. \A q \in Threads : ~Carries(q)'
  BY <1>2 DEF Led, Token, OneCarries, Carries, Alone
<1>4. OneCarries'
  BY <1>3 DEF OneCarries
<1>5. Token' /\ Sending'
  BY <1>1, <1>3, <1>4, TokenWhenIdle, SendingWhenIdle
<1> QED BY <1>2, <1>5, ThreadStepLeads
-----------------------------------------------------------------------------
(* Every step of a thread keeps it so. *)

(* The message that is sent is the one that leaves. *)
LEMMA DispatchedSession ==
    ASSUME session \in SessionType, session' \in SessionType, Sound(session), Current(session) = NoTurn,
           NEW i \in DOMAIN session.queue,
           session'.queue = session.queue, session'.dispatching = session.queue[i].turn,
           session'.pending = session.queue[i].turn, session'.active = session.active,
           session'.asking = session.asking, session'.turns = session.turns
    PROVE  /\ Sound(session') /\ session'.asking = NoTurn /\ session'.dispatching # NoTurn
           /\ Current(session') = session.queue[i].turn
           /\ session.queue[i].id \in Waiting(session) /\ Leaving(session) = {}
           /\ Leaving(session') = {session.queue[i].id}
           /\ Waiting(session') = Waiting(session) \ {session.queue[i].id}
<1>1. /\ session.active = NoTurn /\ session.dispatching = NoTurn /\ session.asking = NoTurn
  BY CurrentOfSound
<1>2. \A j \in DOMAIN session.queue : session.queue[j].turn \in Turns /\ session.queue[j].id \in Names
  <2>1. session.queue \in Seq(Item)
    BY DEF SessionType, Item
  <2>2. \A j \in DOMAIN session.queue : session.queue[j] \in Item
    BY <2>1
  <2> QED BY <2>2 DEF Item
<1>3. \A t \in Turns : t # NoTurn
  BY DEF Turns, NoTurn
<1>4. Current(session') = session.queue[i].turn
  BY <1>1 DEF Current
<1>5. Sound(session')
  BY <1>1 DEF Sound, OneThere, DispatchedThere, AskedThere, ItemsDiffer, ItemsUnlisted, ActiveListed
<1>6. session.queue[i].id \in Waiting(session) /\ Leaving(session) = {}
  BY <1>1, <1>2, <1>3 DEF Waiting, Leaving
<1>7. \A j \in DOMAIN session.queue :
        /\ session.queue[j].turn = session.queue[i].turn => j = i
        /\ session.queue[j].id = session.queue[i].id => j = i
  BY DEF Sound, ItemsDiffer
<1>8. Leaving(session') = {session.queue[i].id}
  BY <1>2, <1>7 DEF Leaving
<1>9. ASSUME NEW x PROVE x \in Waiting(session') <=> x \in Waiting(session) \ {session.queue[i].id}
  BY <1>1, <1>2, <1>3, <1>7 DEF Waiting
<1> QED BY <1>1, <1>2, <1>3, <1>4, <1>5, <1>6, <1>8, <1>9

LEMMA DispatchLeads ==
    ASSUME Types, Types', Grown, Led, NEW p \in Threads, Alone(p), UNCHANGED <<core, channel, hand>>,
           Current(session) = NoTurn, NEW i \in DOMAIN session.queue,
           session'.queue = session.queue, session'.dispatching = session.queue[i].turn,
           session'.pending = session.queue[i].turn, session'.active = session.active,
           session'.asking = session.asking, session'.turns = session.turns,
           pc'[p].at \in SendingSteps, pc'[p].turn = session.queue[i].turn,
           pc'[p].ids = {session.queue[i].id}, SpareOf(p, pc'[p]) \subseteq SpareOf(p, pc[p])
    PROVE  Led'
<1> DEFINE id == session.queue[i].id
<1>1. session \in SessionType /\ session' \in SessionType
  BY DEF Types, SessionOK
<1>2. /\ Sound(session') /\ session'.asking = NoTurn /\ session'.dispatching # NoTurn
      /\ Current(session') = session.queue[i].turn
      /\ id \in Waiting(session) /\ Leaving(session) = {} /\ Leaving(session') = {id}
      /\ Waiting(session') = Waiting(session) \ {id}
  BY <1>1, DispatchedSession DEF Led
<1> HIDE DEF id
<1>3. /\ pc'[p].at \in CarryingSteps \cap HoldingSteps
      /\ pc'[p].at \notin RestoringSteps \cup {"append_now", "now"}
  BY CarryingIs DEF SendingSteps, RestoringSteps, SavingSteps
<1>4. Fitting(pc'[p]) /\ Single(pc'[p]) /\ Carries(p)'
  BY <1>3, CarryingIs DEF Fitting, Single
<1>5. Here(p)' = {id}
  BY <1>2, <1>3 DEF Here, AskedIds, HeldBy, id
<1>6. OnePlace(p)'
  <2> SUFFICES ASSUME NEW x \in Names
               PROVE  /\ x \in Waiting(session') => x \notin core.known \cup {id}
                      /\ x \in core.known => x # id
                      /\ x \in SpareOf(p, pc'[p]) =>
                           x \notin Waiting(session') \cup {id} \cup core.known
    BY <1>2, <1>5 DEF OnePlace
  <2>1. x \in SpareOf(p, pc[p]) => IsSpare(x)
    BY DEF IsSpare
  <2> QED BY <1>2, <2>1 DEF Led, Apart, WaitingApart, SpareApart
<1>7. Moved(p)
  BY <1>2, <1>5, <1>6 DEF Moved, Places
<1> QED BY <1>2, <1>4, <1>7, TakesUpLeads DEF id

LEMMA DispatchNextLeads ==
    ASSUME Types, Types', Grown, Led, NEW p \in Threads, DispatchNext(p)
    PROVE  Led'
<1>1. pc[p].at = "dispatch" /\ UNCHANGED <<core, channel, hand, hist>>
  BY DEF DispatchNext, At
<1>2. ~Carries(p) /\ pc[p].at # "save_entry"
  BY <1>1 DEF Carries
<1>3. CASE session' = session /\ Return(p)
  <2>1. Alike(session', session) /\ SameTurns
    BY <1>1, <1>3, SameCore DEF Alike
  <2> QED BY <1>1, <1>2, <1>3, <2>1, ReturnLight, PassingLeads
<1>4. CASE MayDispatch(session)
  <2> DEFINE item == Head(session.queue)
             s == Dispatching(session, item)
             next == IF item.afterStop THEN s.next ELSE "awaiting"
  <2>1. /\ item \in Item /\ 1 \in DOMAIN session.queue /\ item = session.queue[1]
        /\ session \in SessionType
    BY <1>4, ReadyItem, Unpacked
  <2>2. session' = [s EXCEPT !.next = next] /\ Carry(p, "send_queued", item.turn, {item.id})
    BY <1>4 DEF DispatchNext
  <2> HIDE DEF item
  <2>3. /\ s \in SessionType /\ s.queue = session.queue /\ s.dispatching = item.turn
        /\ s.pending = item.turn /\ s.active = session.active /\ s.asking = session.asking
        /\ s.turns = session.turns
    BY <2>1, DispatchingEffect
  <2> HIDE DEF s, next
  <2>4. /\ session'.queue = session.queue /\ session'.dispatching = item.turn
        /\ session'.pending = item.turn /\ session'.active = session.active
        /\ session'.asking = session.asking /\ session'.turns = session.turns
    BY <2>2, <2>3 DEF SessionType
  <2>5. "send_queued" \in Steps /\ item.turn \in MaybeTurn /\ {item.id} \in SUBSET Names
    BY <2>1, AllSteps DEF Item, MaybeTurn
  <2>6. /\ Alone(p) /\ pc'[p].at = "send_queued" /\ pc'[p].turn = item.turn /\ pc'[p].ids = {item.id}
        /\ pc'[p].cmd = pc[p].cmd /\ pc'[p].back = pc[p].back
    BY <2>2, <2>5, CarryEffect, Unpacked
  <2>7. SpareOf(p, pc'[p]) \subseteq SpareOf(p, pc[p])
    BY <1>1, <2>6 DEF SpareOf, Says
  <2>8. pc'[p].at \in SendingSteps /\ Current(session) = NoTurn
    BY <1>4, <2>6 DEF SendingSteps, MayDispatch
  <2> QED BY <1>1, <2>1, <2>4, <2>6, <2>7, <2>8, DispatchLeads
<1> QED BY <1>3, <1>4 DEF DispatchNext

LEMMA DispatchNowLeads ==
    ASSUME Types, Types', Grown, Led, Steady', DispatchNow
    PROVE  Led'
<1>1. pc["lane"].at = "now" /\ UNCHANGED <<core, channel, hand>> /\ "lane" \in Threads
  BY ThreadsApart DEF DispatchNow, At
<1>2. ~Carries("lane")
  BY <1>1 DEF Carries
<1>3. CASE End("lane") /\ UNCHANGED <<session, hist>>
  <2>1. Alike(session', session) /\ SameTurns
    BY <1>1, <1>3, SameCore DEF Alike
  <2> QED BY <1>1, <1>2, <1>3, <2>1, EndLight, PassingLeads
<1>4. CASE ~(session.dispatching # NoTurn \/ ~IsQueued(session, pc["lane"].ids))
  <2> DEFINE item == Queued(session, pc["lane"].ids)
             k == Place(session, pc["lane"].ids)
             hurried == hist.hurried \/ Current(session) # NoTurn
  <2>1. /\ session' = Dispatching(session, item)
        /\ hist' = [hist EXCEPT !.hurried = hurried]
        /\ Carry("lane", "save_now", item.turn, pc["lane"].ids)
    BY <1>4 DEF DispatchNow
  <2>2. /\ item \in Item /\ item.id \in pc["lane"].ids /\ k \in DOMAIN session.queue
        /\ item = session.queue[k]
    BY <1>4, Unpacked, QueuedItem
  <2>3. pc["lane"].ids = {item.id}
    <3>1. \E x \in Names : pc["lane"].ids = {x}
      BY <1>1 DEF Led, Single
    <3> QED BY <2>2, <3>1
  <2> HIDE DEF item, k
  <2>4. Current(session) = NoTurn
    <3>1. hist'.hurried = hurried
      BY <2>1, Unpacked DEF HistType
    <3> QED BY <3>1 DEF Steady
  <2>5. /\ session'.queue = session.queue /\ session'.dispatching = item.turn
        /\ session'.pending = item.turn /\ session'.active = session.active
        /\ session'.asking = session.asking /\ session'.turns = session.turns
    BY <2>1, <2>2, Unpacked, DispatchingEffect
  <2>6. "save_now" \in Steps /\ item.turn \in MaybeTurn /\ pc["lane"].ids \in SUBSET Names
    BY <1>1, <2>2, AllSteps, Unpacked DEF Item, MaybeTurn
  <2>7. /\ Alone("lane") /\ pc'["lane"].at = "save_now" /\ pc'["lane"].turn = item.turn
        /\ pc'["lane"].ids = {item.id}
        /\ pc'["lane"].cmd = pc["lane"].cmd /\ pc'["lane"].back = pc["lane"].back
    BY <1>1, <2>1, <2>3, <2>6, CarryEffect, Unpacked
  <2>8. SpareOf("lane", pc'["lane"]) \subseteq SpareOf("lane", pc["lane"])
    BY <1>1, <2>7 DEF SpareOf, Says
  <2>9. pc'["lane"].at \in SendingSteps
    BY <2>7 DEF SendingSteps
  <2> QED BY <1>1, <2>2, <2>4, <2>5, <2>7, <2>8, <2>9, DispatchLeads
<1> QED BY <1>3, <1>4 DEF DispatchNow
LEMMA CarriedIs ==
    ASSUME Types, Led, NEW p \in Threads, Carries(p)
    PROVE  /\ session.asking = NoTurn /\ CoreIdle /\ pc[p].turn = Current(session)
           /\ pc[p].turn \in Turns /\ Current(session) # NoTurn
           /\ session.dispatching # NoTurn <=> pc[p].at \in SendingSteps
           /\ session.dispatching # NoTurn => pc[p].ids = Leaving(session)
           /\ \A q \in Threads : q # p => ~Carries(q)
<1>1. session.asking = NoTurn /\ CoreIdle /\ pc[p].turn = Current(session)
  BY DEF Led, Token, CarriedIsThere
<1>2. pc[p].turn \in Turns /\ pc[p].turn # NoTurn
  BY ThreadFields, CarryingIs, Unpacked DEF Turns, NoTurn
<1>3. \A q \in Threads : q # p => ~Carries(q)
  BY DEF Led, Token, OneCarries
<1>4. session.dispatching # NoTurn <=> pc[p].at \in SendingSteps
  BY DEF Led, Sending
<1>5. session.dispatching # NoTurn => pc[p].ids = Leaving(session)
  BY DEF Led, Sending
<1> QED BY <1>1, <1>2, <1>3, <1>4, <1>5

(* The usual case: the messages stay where they are, or leave.              *)
LEMMA LetsGoPlainly ==
    ASSUME Types, Types', Grown, Led, NEW p \in Threads, Carries(p), Light(p),
           UNCHANGED <<core, channel, hand>>,
           Sound(session'), Current(session') \in {NoTurn} \cup hist'.stranded,
           session'.asking = NoTurn,
           Waiting(session') \subseteq Waiting(session), Leaving(session') \subseteq Leaving(session),
           SpareOf(p, pc'[p]) \subseteq SpareOf(p, pc[p])
    PROVE  Led'
<1>1. Here(p)' = {}
  BY LightStep DEF AskedIds
<1>2. Moved(p)
  BY <1>1, MovedLess DEF Led
<1> QED BY <1>2, LetsGoLeads

(* A thread goes on with its turn. *)
LEMMA CarriesOnLeads ==
    ASSUME Types, Types', Grown, Led, NEW p \in Threads, Carries(p),
           UNCHANGED <<session, core, channel, hand, hist>>,
           NEW x \in CarryingSteps, x \in SendingSteps <=> pc[p].at \in SendingSteps,
           x \in HoldingSteps <=> pc[p].at \in HoldingSteps,
           x \in RestoringSteps => pc[p].at = "save_handoff" /\ x = "send_handoff",
           Speaking(p, x) => Says(p, pc[p]), Go(p, x)
    PROVE  Led'
<1>1. x \in Steps
  BY AllSteps
<1>2. /\ Alone(p) /\ pc'[p].at = x /\ pc'[p].cmd = pc[p].cmd /\ pc'[p].turn = pc[p].turn
      /\ pc'[p].ids = pc[p].ids /\ pc'[p].back = pc[p].back
      /\ pc'[p].image = pc[p].image /\ pc'[p].left = pc[p].left
  BY <1>1, GoEffect, Unpacked
<1>3. x \notin {"append_now", "now", "save_entry", "start", "enqueue", "append", "settle"}
      /\ pc[p].at \notin {"save_entry"}
  BY DEF CarryingSteps, Carries
<1>4. Single(pc'[p])
  BY <1>2, <1>3 DEF Single
<1>5. Fitting(pc'[p])
  BY <1>2 DEF Led, Fitting, RestoringSteps, SavingSteps, NewTurnSteps
<1>6. SameBurden(p) /\ SameTurns /\ Alike(session', session)
  BY <1>2, CarryingIs, SameCore DEF SameBurden, Alike
<1>7. /\ Sound(session') /\ SameTurn(session', session)
      /\ Waiting(session') = Waiting(session) /\ Leaving(session') = Leaving(session)
      /\ AskedIds(session') = AskedIds(session)
  BY <1>6, AlikeSessions DEF Led
<1>8. Here(p)' = Here(p)
  BY <1>2, <1>7 DEF Here, HeldBy
<1>9. SpareOf(p, pc'[p]) \subseteq SpareOf(p, pc[p])
  BY <1>2, <1>3 DEF SpareOf, Says, Speaking
<1>10. Moved(p)
  BY <1>7, <1>8, <1>9, MovedLess DEF Led
<1> QED BY <1>2, <1>4, <1>5, <1>6, <1>7, <1>10, SteadyStepLeads

(* Core accepts the turn. *)
LEMMA SubmittedLeads ==
    ASSUME Types, Types', Grown, Led, NEW p \in Threads, Carries(p), Light(p),
           UNCHANGED <<session, channel, hand>>, NEW named \in BOOLEAN,
           named <=> pc[p].at \in HoldingSteps,
           ~named => pc[p].at = "send_handoff",
           SubmitToCore(pc[p].turn, pc[p].ids, named),
           SpareOf(p, pc'[p]) \subseteq SpareOf(p, pc[p])
    PROVE  Led'
<1> DEFINE ids == IF named THEN pc[p].ids ELSE {}
           sub == Submission(pc[p].turn, ids)
<1>1. /\ session.asking = NoTurn /\ CoreIdle /\ pc[p].turn = Current(session)
      /\ session.dispatching # NoTurn <=> pc[p].at \in SendingSteps
      /\ session.dispatching # NoTurn => pc[p].ids = Leaving(session)
      /\ \A q \in Threads : q # p => ~Carries(q)
  BY CarriedIs
<1>2. \A x \in pc[p].ids : named => IsHeld(x)
  BY DEF IsHeld, HeldBy
<1>3. ~named => pc[p].ids \subseteq core.known
  BY DEF Grown, ThreadWithin, HandingSteps
<1>4. ~(named /\ pc[p].ids \cap core.known # {})
  BY <1>2 DEF Led, Apart, HeldApart
<1>5. /\ core'.queue = Append(core.queue, sub) /\ core'.run = core.run
      /\ core'.known = core.known \cup pc[p].ids
  BY <1>4, Unpacked DEF SubmitToCore, CoreOK, CoreType
<1>6. /\ core'.queue # <<>> /\ Len(core'.queue) = 1 /\ core'.queue[1] = sub
  BY <1>1, <1>5 DEF CoreIdle
<1>7. sub.turn = Current(session) /\ sub.ids = ids
  BY <1>1 DEF Submission
<1> HIDE DEF sub
<1>8. Alone(p) /\ Fitting(pc'[p]) /\ Single(pc'[p]) /\ ~Carries(p)' /\ Here(p)' = AskedIds(session')
  BY LightStep
<1>9. \A q \in Threads : ~Carries(q)'
  BY <1>1, <1>8 DEF Carries, Alone
<1>10. NoneEnds' /\ channel' = <<>> /\ core'.run = NoRun
  BY <1>1, <1>5 DEF CoreIdle, NoneEnds, NoneFinished
<1>11. OneCarries' /\ CarriedIsThere' /\ AskedIsIdle'
  BY <1>1, <1>9 DEF OneCarries, CarriedIsThere, AskedIsIdle
<1>12. SubmittedIsThere' /\ RunningIsThere'
  BY <1>6, <1>7, <1>10 DEF SubmittedIsThere, RunningIsThere
<1>13. ToldIsThere'
  BY <1>10 DEF ToldIsThere, FinishedLast
<1>14. EndIsThere'
  BY <1>10 DEF EndIsThere, FinishedLast, NoneEnds, NoneFinished
<1>15. Somewhere'
  BY <1>6 DEF Somewhere, CoreIdle
<1>16. Token'
  BY <1>11, <1>12, <1>13, <1>14, <1>15 DEF Token
<1>17. SendingSteps \subseteq HoldingSteps
  BY CarryingIs
<1>18. Sending'
  <2>1. NoneFinished(hand'["lane"])
    BY <1>10 DEF NoneEnds, Handlers
  <2> QED BY <1>1, <1>6, <1>7, <1>9, <1>10, <1>17, <2>1 DEF Sending
<1>19. Here(p)' = {} /\ Waiting(session') = Waiting(session) /\ Leaving(session') = Leaving(session)
  BY <1>1, <1>8 DEF AskedIds
<1>20. OnePlace(p)'
  <2> SUFFICES ASSUME NEW x \in Names
               PROVE  /\ x \in Waiting(session) => x \notin core.known \cup pc[p].ids
                      /\ x \in SpareOf(p, pc[p]) =>
                           x \notin Waiting(session) \cup Leaving(session) \cup core.known \cup pc[p].ids
    BY <1>5, <1>19 DEF OnePlace
  <2>1. x \in SpareOf(p, pc[p]) => IsSpare(x)
    BY DEF IsSpare
  <2> QED BY <1>2, <1>3, <2>1 DEF Led, Apart, WaitingApart, SpareApart
<1>21. pc[p].ids \subseteq Here(p) \cup core.known
  BY <1>3 DEF Here, HeldBy
<1>22. Moved(p)
  BY <1>5, <1>19, <1>20, <1>21 DEF Moved, Places
<1>23. Sound(session')
  BY DEF Led
<1> QED BY <1>8, <1>16, <1>18, <1>22, <1>23, ThreadStepLeads
LEMMA RejectedSession ==
    ASSUME session \in SessionType, session' \in SessionType, Sound(session),
           session.dispatching # NoTurn, session.asking = NoTurn,
           session'.queue = session.queue, session'.dispatching = NoTurn, session'.pending = NoTurn,
           session'.active = session.active, session'.asking = session.asking,
           session'.turns = session.turns
    PROVE  /\ Sound(session') /\ Current(session') = NoTurn /\ Leaving(session') = {}
           /\ Waiting(session') = Waiting(session) \cup Leaving(session)
<1>1. session.active = NoTurn
  BY CurrentOfSound
<1>2. \A j \in DOMAIN session.queue : session.queue[j].turn \in Turns /\ session.queue[j].turn # NoTurn
  <2>1. session.queue \in Seq(Item)
    BY DEF SessionType, Item
  <2>2. \A j \in DOMAIN session.queue : session.queue[j] \in Item
    BY <2>1
  <2> QED BY <2>2 DEF Item, Turns, NoTurn
<1>3. Sound(session') /\ Current(session') = NoTurn
  BY <1>1 DEF Sound, OneThere, DispatchedThere, AskedThere, ItemsDiffer, ItemsUnlisted, ActiveListed,
              Current
<1>4. Leaving(session') = {}
  BY <1>2 DEF Leaving
<1>5. ASSUME NEW x PROVE x \in Waiting(session') <=> x \in Waiting(session) \cup Leaving(session)
  BY <1>2 DEF Waiting, Leaving
<1> QED BY <1>3, <1>4, <1>5

LEMMA SendQueuedLeads ==
    ASSUME Types, Types', Grown, Led, NEW p \in Threads, SendQueued(p)
    PROVE  Led'
<1>1. pc[p].at = "send_queued" /\ Return(p) /\ UNCHANGED <<channel, hand>>
  BY DEF SendQueued, At
<1>2. Carries(p) /\ pc[p].at \in HoldingSteps /\ pc[p].at \in SendingSteps
  BY <1>1 DEF Carries, HoldingSteps, SendingSteps
<1>3. Light(p) /\ SpareOf(p, pc'[p]) \subseteq SpareOf(p, pc[p])
  BY <1>1, ReturnLight
<1>4. CASE SubmitToCore(pc[p].turn, pc[p].ids, TRUE) /\ UNCHANGED session
  BY <1>1, <1>2, <1>3, <1>4, SubmittedLeads
<1>5. CASE session' = DispatchRejected(session, pc[p].turn) /\ core' = core
  <2> DEFINE r == DispatchRejected(session, pc[p].turn)
  <2>1. /\ r.queue = session.queue /\ r.active = session.active
        /\ r.dispatching = IF session.dispatching = pc[p].turn THEN NoTurn ELSE session.dispatching
        /\ r.pending = IF session.pending = pc[p].turn THEN NoTurn ELSE session.pending
        /\ r.asking = session.asking /\ r.turns = session.turns
    BY DispatchRejectedEffect, Unpacked
  <2>2. session' = r
    BY <1>5
  <2> HIDE DEF r
  <2>3. /\ session.asking = NoTurn /\ pc[p].turn = Current(session) /\ session.dispatching # NoTurn
        /\ pc[p].ids = Leaving(session)
    BY <1>2, CarriedIs
  <2>4. session.dispatching = pc[p].turn /\ session.pending = pc[p].turn
    BY <2>3, CurrentOfSound, Unpacked DEF Led, Sound, DispatchedThere
  <2>5. session \in SessionType /\ session' \in SessionType
    BY DEF Types, SessionOK
  <2>6. /\ Sound(session') /\ Current(session') = NoTurn /\ Leaving(session') = {}
        /\ Waiting(session') = Waiting(session) \cup Leaving(session)
    BY <2>1, <2>2, <2>3, <2>4, <2>5, RejectedSession DEF Led
  <2>7. Here(p)' = {} /\ Leaving(session) \subseteq Here(p)
    BY <1>2, <1>3, <2>1, <2>2, <2>3, LightStep DEF AskedIds, Here, HeldBy
  <2>8. OnePlace(p)'
    <3> SUFFICES ASSUME NEW x \in Names
                 PROVE  /\ x \in Waiting(session) \cup Leaving(session) => x \notin core.known
                        /\ x \in SpareOf(p, pc[p]) =>
                             x \notin Waiting(session) \cup Leaving(session) \cup core.known
      BY <1>3, <1>5, <2>6, <2>7 DEF OnePlace
    <3>1. x \in SpareOf(p, pc[p]) => IsSpare(x)
      BY DEF IsSpare
    <3>2. x \in Leaving(session) => IsHeld(x)
      BY <1>2, <2>3 DEF IsHeld, HeldBy
    <3> QED BY <3>1, <3>2 DEF Led, Apart, WaitingApart, HeldApart, SpareApart
  <2>9. Moved(p)
    BY <1>3, <1>5, <2>6, <2>7, <2>8 DEF Moved, Places
  <2> QED BY <1>1, <1>2, <1>3, <1>5, <2>6, <2>9, LetsGoLeads
<1> QED BY <1>1, <1>4, <1>5 DEF SendQueued

LEMMA SameSound ==
    ASSUME Led
    PROVE  \A r : Alike(r, session) =>
             /\ Sound(r) /\ Current(r) = Current(session) /\ r.asking = session.asking
             /\ Waiting(r) = Waiting(session) /\ Leaving(r) = Leaving(session)
<1> TAKE r
<1> HAVE Alike(r, session)
<1> QED BY AlikeSessions DEF Led, SameTurn

LEMMA StrandedLeads ==
    ASSUME Types, Types', Grown, Led, NEW p \in Threads, Carries(p), Light(p),
           UNCHANGED <<core, channel, hand>>, Alike(session', session), Strand(pc[p].turn),
           SpareOf(p, pc'[p]) \subseteq SpareOf(p, pc[p])
    PROVE  Led'
<1>1. hist'.stranded = hist.stranded \cup {pc[p].turn}
  BY Unpacked DEF Strand, Failed, HistType
<1>2. pc[p].turn = Current(session) /\ session.asking = NoTurn
  BY CarriedIs
<1> QED BY <1>1, <1>2, SameSound, LetsGoPlainly

LEMMA RolledBackSession ==
    ASSUME session \in SessionType, Sound(session), session.dispatching = NoTurn, session.asking = NoTurn,
           session' = RolledBack(session, Current(session))
    PROVE  /\ Sound(session') /\ Current(session') = NoTurn /\ session'.asking = NoTurn
           /\ Waiting(session') = Waiting(session) /\ Leaving(session') = Leaving(session)
<1>1. /\ session'.queue = session.queue /\ session'.dispatching = session.dispatching
      /\ session'.pending = IF session.pending = Current(session) THEN NoTurn ELSE session.pending
      /\ session'.active = IF session.active = Current(session) THEN NoTurn ELSE session.active
      /\ session'.asking = session.asking
      /\ session'.turns = [session.turns EXCEPT ![Current(session)] = "none"]
  BY RollsBack
<1>2. session'.pending = NoTurn /\ session'.active = NoTurn
  BY <1>1 DEF Sound, OneThere, Current
<1>3. \A t : session'.turns[t] = "none" \/ session'.turns[t] = session.turns[t]
  <2>1. session.turns \in [Turns -> Statuses]
    BY DEF SessionType, Statuses
  <2> QED BY <1>1, <2>1
<1>4. ItemsUnlisted(session')
  BY <1>1, <1>3 DEF ItemsUnlisted, Sound
<1>5. Sound(session')
  BY <1>1, <1>2, <1>4 DEF Sound, OneThere, DispatchedThere, AskedThere, ItemsDiffer, ActiveListed
<1> QED BY <1>1, <1>2, <1>5 DEF Current, Waiting, Leaving

LEMMA SendLeads ==
    ASSUME Types, Types', Grown, Led, NEW p \in Threads, Send(p)
    PROVE  Led'
<1>1. pc[p].at = "send" /\ UNCHANGED <<channel, hand>>
  BY DEF Send, At
<1>2. Carries(p) /\ pc[p].at \in HoldingSteps /\ pc[p].at \notin SendingSteps
  BY <1>1 DEF Carries, HoldingSteps, SendingSteps
<1>3. /\ session.asking = NoTurn /\ pc[p].turn = Current(session) /\ session.dispatching = NoTurn
  BY <1>2, CarriedIs
<1>4. CASE SubmitToCore(pc[p].turn, pc[p].ids, TRUE) /\ End(p) /\ UNCHANGED session
  BY <1>1, <1>2, <1>4, EndLight, SubmittedLeads
<1>5. CASE session' = RolledBack(session, pc[p].turn) /\ Refused(p) /\ UNCHANGED core
  <2>1. /\ Sound(session') /\ Current(session') = NoTurn /\ session'.asking = NoTurn
        /\ Waiting(session') = Waiting(session) /\ Leaving(session') = Leaving(session)
    BY <1>3, <1>5, RolledBackSession, Unpacked DEF Led
  <2> QED BY <1>1, <1>2, <1>5, <2>1, RefusedLight, LetsGoPlainly
<1>6. CASE Strand(pc[p].turn) /\ UNCHANGED <<session, core>> /\ Refused(p)
  <2>1. Alike(session', session)
    BY <1>6 DEF Alike
  <2> QED BY <1>1, <1>2, <1>6, <2>1, RefusedLight, StrandedLeads
<1> QED BY <1>4, <1>5, <1>6 DEF Send

LEMMA ResolveSendLeads ==
    ASSUME Types, Types', Grown, Led, NEW p \in Threads, ResolveSend(p)
    PROVE  Led'
<1>1. pc[p].at = "resolve" /\ UNCHANGED <<session, channel, hand>>
  BY DEF ResolveSend, At
<1>2. Carries(p) /\ pc[p].at \in HoldingSteps
  BY <1>1 DEF Carries, HoldingSteps
<1>3. CASE SubmitToCore(pc[p].turn, pc[p].ids, TRUE) /\ (IF p = "lane" THEN Go(p, "note") ELSE End(p))
  <2>1. /\ "note" \in Steps \ (CarryingSteps \cup RestoringSteps \cup {"append_now", "now"})
        /\ ~Speaking(p, "note")
    BY AllSteps DEF CarryingSteps, RestoringSteps, SavingSteps, Speaking
  <2>2. Light(p) /\ SpareOf(p, pc'[p]) \subseteq SpareOf(p, pc[p])
    BY <1>1, <1>3, <2>1, GoLight, EndLight
  <2> QED BY <1>1, <1>2, <1>3, <2>2, SubmittedLeads
<1>4. CASE Strand(pc[p].turn) /\ End(p) /\ UNCHANGED core
  <2>1. Alike(session', session)
    BY <1>1 DEF Alike
  <2> QED BY <1>1, <1>2, <1>4, <2>1, EndLight, StrandedLeads
<1> QED BY <1>3, <1>4 DEF ResolveSend

LEMMA NowSavedLeads ==
    ASSUME Types, Types', Grown, Led, NowSaved
    PROVE  Led'
<1>1. pc["lane"].at = "save_now" /\ UNCHANGED <<session, core, channel, hand>> /\ "lane" \in Threads
  BY ThreadsApart DEF NowSaved, At
<1>2. Carries("lane")
  BY <1>1 DEF Carries
<1>3. CASE Go("lane", "send_queued") /\ UNCHANGED hist
  <2>1. /\ "send_queued" \in CarryingSteps
        /\ "send_queued" \in SendingSteps <=> pc["lane"].at \in SendingSteps
        /\ "send_queued" \in HoldingSteps <=> pc["lane"].at \in HoldingSteps
        /\ "send_queued" \notin RestoringSteps /\ ~Speaking("lane", "send_queued")
    BY <1>1 DEF CarryingSteps, SendingSteps, HoldingSteps, RestoringSteps, SavingSteps, Speaking
  <2> QED BY <1>1, <1>2, <1>3, <2>1, CarriesOnLeads
<1>4. CASE Strand(pc["lane"].turn) /\ End("lane")
  <2>1. Alike(session', session)
    BY <1>1 DEF Alike
  <2> QED BY <1>1, <1>2, <1>4, <2>1, EndLight, StrandedLeads
<1> QED BY <1>3, <1>4 DEF NowSaved

LEMMA TurnSavedLeads ==
    ASSUME Types, Types', Grown, Led, Steady', NEW p \in Threads, TurnSaved(p)
    PROVE  Led'
<1>1. pc[p].at = "save_turn" /\ UNCHANGED <<core, channel, hand>>
  BY DEF TurnSaved, At
<1>2. Carries(p)
  BY <1>1 DEF Carries
<1>3. ASSUME NEW x \in {"ask", "send"}, Go(p, x), UNCHANGED <<session, hist>>
      PROVE  Led'
  <2>1. /\ x \in CarryingSteps
        /\ x \in SendingSteps <=> pc[p].at \in SendingSteps
        /\ x \in HoldingSteps <=> pc[p].at \in HoldingSteps
        /\ x \notin RestoringSteps /\ (Speaking(p, x) => Says(p, pc[p]))
    BY <1>1 DEF CarryingSteps, SendingSteps, HoldingSteps, RestoringSteps, SavingSteps, Speaking, Says
  <2> QED BY <1>1, <1>2, <1>3, <2>1, CarriesOnLeads
<1>4. CASE PutBack(p) /\ Refused(p)
  <2>1. session' = pc[p].image /\ session = pc[p].left
    BY <1>4, PutBackEffect, Unpacked DEF Steady
  <2>2. /\ Sound(session') /\ Current(session') = NoTurn
        /\ Waiting(session') \subseteq Waiting(session) /\ Leaving(session') = Leaving(session)
    BY <1>1, <2>1 DEF Led, Fitting, RestoringSteps, SavingSteps, NewTurnSteps
  <2>3. session'.asking = NoTurn
    <3>1. session' \in SessionType
      BY DEF Types, SessionOK
    <3> QED BY <2>2, <3>1 DEF Sound, AskedThere
  <2> QED BY <1>1, <1>2, <1>4, <2>2, <2>3, RefusedLight, LetsGoPlainly
<1> QED BY <1>3, <1>4 DEF TurnSaved
LEMMA AskLeads ==
    ASSUME Types, Types', Grown, Led, NEW p \in Threads, Ask(p)
    PROVE  Led'
<1>1. pc[p].at = "ask" /\ UNCHANGED <<core, channel, hand, hist>> /\ End(p)
  BY DEF Ask, At
<1>2. Carries(p) /\ pc[p].at \in HoldingSteps /\ pc[p].at \notin SendingSteps
  BY <1>1 DEF Carries, HoldingSteps, SendingSteps
<1>3. /\ session.asking = NoTurn /\ CoreIdle /\ pc[p].turn = Current(session)
      /\ pc[p].turn \in Turns /\ Current(session) # NoTurn /\ session.dispatching = NoTurn
      /\ \A q \in Threads : q # p => ~Carries(q)
  BY <1>2, CarriedIs
<1>4. Light(p) /\ SpareOf(p, pc'[p]) = {}
  BY <1>1, EndLight
<1>5. Alone(p) /\ Fitting(pc'[p]) /\ Single(pc'[p]) /\ ~Carries(p)' /\ Here(p)' = AskedIds(session')
  BY <1>4, LightStep
<1>6. /\ session'.asking = pc[p].turn /\ session'.askedFor = pc[p].ids
      /\ session'.queue = session.queue /\ session'.dispatching = session.dispatching
      /\ session'.turns = session.turns /\ session'.pending = session.pending
      /\ session'.active = session.active
  BY Unpacked DEF Ask, SessionType
<1>7. Current(session') = Current(session)
  BY <1>6 DEF Current
<1>8. Sound(session')
  BY <1>3, <1>6, <1>7 DEF Led, Sound, OneThere, DispatchedThere, AskedThere, ItemsDiffer, ItemsUnlisted,
                         ActiveListed
<1>9. Waiting(session') = Waiting(session) /\ Leaving(session') = Leaving(session)
  BY <1>6 DEF Waiting, Leaving
<1>10. \A q \in Threads : ~Carries(q)'
  BY <1>3, <1>5 DEF Carries, Alone
<1>11. CoreIdle' /\ OneCarries' /\ session'.asking # NoTurn
  BY <1>1, <1>3, <1>6, <1>7, <1>10, SameIdle DEF OneCarries
<1>12. Token' /\ Sending'
  BY <1>3, <1>6, <1>10, <1>11, TokenWhenIdle, SendingWhenIdle
<1>13. Here(p)' \subseteq Here(p)
  BY <1>2, <1>5, <1>6 DEF Here, AskedIds, HeldBy
<1>14. Moved(p)
  BY <1>1, <1>4, <1>9, <1>13, MovedLess DEF Led
<1> QED BY <1>5, <1>8, <1>12, <1>14, ThreadStepLeads

LEMMA ResolveLeads ==
    ASSUME Types, Types', Grown, Led, NEW p \in Threads, Resolve(p)
    PROVE  Led'
<1>1. /\ pc[p].at = "idle" /\ UNCHANGED <<core, channel, hand, hist>> /\ session.asking # NoTurn
      /\ Carry(p, "resolve", session.asking, session.askedFor)
  BY DEF Resolve, At
<1>2. "resolve" \in Steps /\ session.asking \in MaybeTurn /\ session.askedFor \in SUBSET Names
  BY AllSteps, Unpacked DEF SessionType
<1>3. /\ Alone(p) /\ pc'[p].at = "resolve" /\ pc'[p].turn = session.asking
      /\ pc'[p].ids = session.askedFor /\ pc'[p].back = pc[p].back /\ pc'[p].cmd = pc[p].cmd
  BY <1>1, <1>2, CarryEffect, Unpacked
<1>4. Carries(p)' /\ pc'[p].at \in HoldingSteps /\ pc'[p].at \notin SendingSteps
  BY <1>3, CarryingIs DEF HoldingSteps, SendingSteps, CarryingSteps
<1>5. session.asking = Current(session) /\ session.dispatching = NoTurn
  BY <1>1 DEF Led, Sound, AskedThere
<1>6. CoreIdle /\ \A q \in Threads : ~Carries(q)
  BY <1>1 DEF Led, Token, AskedIsIdle, CarriedIsThere
<1>7. /\ session'.asking = NoTurn /\ session'.askedFor = {}
      /\ session'.queue = session.queue /\ session'.dispatching = session.dispatching
      /\ session'.turns = session.turns /\ session'.pending = session.pending
      /\ session'.active = session.active
  BY Unpacked DEF Resolve, SessionType
<1>8. Current(session') = Current(session)
  BY <1>7 DEF Current
<1>9. Sound(session')
  BY <1>7, <1>8 DEF Led, Sound, OneThere, DispatchedThere, AskedThere, ItemsDiffer, ItemsUnlisted,
                    ActiveListed
<1>10. Waiting(session') = Waiting(session) /\ Leaving(session') = Leaving(session)
  BY <1>7 DEF Waiting, Leaving
<1>11. \A q \in Threads : Carries(q)' => q = p
  BY <1>3, <1>6 DEF Carries, Alone
<1>12. CoreIdle' /\ OneCarries'
  BY <1>1, <1>6, <1>11, SameIdle DEF OneCarries
<1>13. Token' /\ Sending'
  BY <1>3, <1>4, <1>5, <1>7, <1>8, <1>11, <1>12, TokenWhenIdle, SendingWhenIdle
<1>14. Here(p)' \subseteq Here(p)
  BY <1>1, <1>3, <1>7 DEF Here, AskedIds, HeldBy
<1>15. SpareOf(p, pc'[p]) \subseteq SpareOf(p, pc[p])
  BY <1>1, <1>3 DEF SpareOf, Says
<1>16. Moved(p)
  BY <1>1, <1>10, <1>14, <1>15, MovedLess DEF Led
<1>17. Fitting(pc'[p]) /\ Single(pc'[p])
  BY <1>3 DEF Fitting, Single, RestoringSteps, SavingSteps
<1> QED BY <1>3, <1>9, <1>13, <1>16, <1>17, ThreadStepLeads

(* A command that nobody has used. *)
LEMMA UsedAreSent ==
    ASSUME Types, Grown
    PROVE  Waiting(session) \cup Leaving(session) \cup core.known \cup AskedIds(session) \subseteq hist.sent
BY DEF Grown, Within, CoreWithin, Waiting, Leaving, AskedIds

LEMMA SentLeads ==
    ASSUME Types, Types', Grown, Led, NEW p \in {"lane", "task"}, pc[p].at = "idle",
           NEW x \in {"start", "enqueue", "append"}, NEW c \in Names, c \notin hist.sent,
           Begin(p, x, c), hist' = [hist EXCEPT !.sent = @ \cup {c}],
           UNCHANGED <<session, core, channel, hand>>
    PROVE  Led'
<1>1. p \in Threads
  BY ThreadsApart
<1>2. Light(p) /\ SpareOf(p, pc'[p]) = {c}
  BY <1>1, BeginLight
<1>3. Alone(p) /\ Fitting(pc'[p]) /\ Single(pc'[p]) /\ ~Carries(p)' /\ Here(p)' = AskedIds(session')
  BY <1>2, LightStep
<1>4. ~Carries(p) /\ HeldBy(pc[p]) = {}
  BY DEF Carries, HeldBy, HoldingSteps
<1>5. SameBurden(p) /\ SameTurns /\ Alike(session', session)
  BY <1>3, <1>4, SameCore DEF SameBurden, Alike
<1>6. /\ Sound(session') /\ SameTurn(session', session)
      /\ Waiting(session') = Waiting(session) /\ Leaving(session') = Leaving(session)
      /\ AskedIds(session') = AskedIds(session)
  BY <1>5, AlikeSessions DEF Led
<1>7. Here(p) = AskedIds(session)
  BY <1>4 DEF Here
<1>8. \A y : y \in AskedIds(session) => IsHeld(y)
  BY DEF IsHeld
<1>9. OnePlace(p)'
  BY <1>2, <1>3, <1>6, <1>8, UsedAreSent DEF OnePlace, Led, Apart, WaitingApart, HeldApart
<1>10. Moved(p)
  BY <1>2, <1>3, <1>6, <1>7, <1>9 DEF Moved, Places
<1>11. hist'.stranded = hist.stranded
  BY Unpacked DEF HistType
<1> QED BY <1>1, <1>3, <1>5, <1>6, <1>10, <1>11, SteadyStepLeads

LEMMA SubmitLeads ==
    ASSUME Types, Types', Grown, Led, NEW c \in Commands, Submit(c)
    PROVE  Led'
<1>1. /\ pc["lane"].at = "idle" /\ c \in Names /\ c \notin hist.sent
      /\ hist' = [hist EXCEPT !.sent = @ \cup {c}] /\ UNCHANGED <<session, core, channel, hand>>
      /\ \E x \in {"start", "enqueue", "append"} : Begin("lane", x, c)
  BY DEF Submit, At, Names
<1> QED BY <1>1, SentLeads

LEMMA FireLeads ==
    ASSUME Types, Types', Grown, Led, NEW f \in Fires, Fire(f)
    PROVE  Led'
<1>1. /\ pc["task"].at = "idle" /\ f \in Names /\ f \notin hist.sent
      /\ hist' = [hist EXCEPT !.sent = @ \cup {f}] /\ UNCHANGED <<session, core, channel, hand>>
      /\ \E x \in {"start", "enqueue", "append"} : Begin("task", x, f)
  BY DEF Fire, At, Names
<1> QED BY <1>1, SentLeads

LEMMA SupplementLeads ==
    ASSUME Types, Types', Grown, Led, NEW c \in Commands, Supplement(c)
    PROVE  Led'
<1>1. /\ pc["lane"].at = "idle" /\ c \in Names /\ c \notin hist.sent
      /\ hist' = [hist EXCEPT !.sent = @ \cup {c}] /\ UNCHANGED <<session, core, channel, hand>>
      /\ \E x \in {"start", "enqueue", "append"} : Begin("lane", x, c)
  BY DEF Supplement, At, Names
<1> QED BY <1>1, SentLeads

(* A turn that is made while none is there. *)
LEMMA MadeSession ==
    ASSUME Types, Grown, Sound(session), Current(session) = NoTurn, CanMake,
           NEW ids \in SUBSET Names, session' = NewTurn(session, Fresh, ids)
    PROVE  /\ Sound(session') /\ Current(session') = Fresh
           /\ session'.asking = NoTurn /\ session'.dispatching = NoTurn
           /\ Waiting(session') = Waiting(session) /\ Leaving(session') = Leaving(session)
           /\ session'.askedFor = session.askedFor
<1>1. Fresh \in Turns /\ hist.made \in Nat /\ Fresh = hist.made + 1 /\ Fresh # NoTurn
  BY FreshOK, MadeNat, Unpacked DEF Fresh, NoTurn
<1>2. /\ session' \in SessionType
      /\ session'.queue = session.queue /\ session'.dispatching = session.dispatching
      /\ session'.pending = Fresh /\ session'.active = session.active
      /\ session'.asking = session.asking /\ session'.askedFor = session.askedFor
      /\ session'.turns = [session.turns EXCEPT ![Fresh] = "pending"]
  BY <1>1, NewTurnMakes, Unpacked
<1>3. session.active = NoTurn /\ session.dispatching = NoTurn /\ session.asking = NoTurn
  BY CurrentOfSound, Unpacked
<1>4. ItemsUnlisted(session')
  <2> SUFFICES ASSUME NEW i \in DOMAIN session.queue
               PROVE  session'.turns[session.queue[i].turn] = "none"
    BY <1>2 DEF ItemsUnlisted
  <2>1. session.queue[i].turn \in Turns /\ session.queue[i].turn <= hist.made
    <3>1. session.queue \in Seq(Item)
      BY Unpacked DEF SessionType, Item
    <3>2. session.queue[i] \in Item
      BY <3>1
    <3> QED BY <3>2 DEF Item, Grown, Within
  <2>2. session.queue[i].turn # Fresh
    BY <1>1, <2>1 DEF Turns
  <2>3. session.turns[session.queue[i].turn] = "none"
    BY DEF Sound, ItemsUnlisted
  <2> QED BY <1>2, <2>1, <2>2, <2>3, Unpacked DEF SessionType
<1>5. Sound(session')
  BY <1>2, <1>3, <1>4 DEF Sound, OneThere, DispatchedThere, AskedThere, ItemsDiffer, ActiveListed
<1> QED BY <1>2, <1>3, <1>5 DEF Current, Waiting, Leaving
LEMMA IdsOfThread ==
    ASSUME Types, NEW p \in {"lane", "task"}, Says(p, pc[p])
    PROVE  Ids(p) \in SUBSET Names
BY ThreadFields, ThreadsApart, Unpacked DEF Ids

LEMMA StartLeads ==
    ASSUME Types, Types', Grown, Led, NEW p \in Threads, Start(p)
    PROVE  Led'
<1>1. pc[p].at = "start" /\ UNCHANGED <<core, channel, hand>>
  BY DEF Start, At
<1>2. p \in {"lane", "task"} /\ Says(p, pc[p]) /\ ~Carries(p)
  BY <1>1, AtSteps, Unpacked DEF Says, Carries
<1>3. CASE session' = session /\ Refused(p) /\ hist' = hist
  <2>1. Alike(session', session) /\ SameTurns
    BY <1>1, <1>3, SameCore DEF Alike
  <2> QED BY <1>1, <1>2, <1>3, <2>1, RefusedLight, PassingLeads
<1>4. CASE /\ Current(session) = NoTurn /\ CanMake
           /\ session' = NewTurn(session, Fresh, Ids(p))
           /\ Save(p, "save_turn", Fresh, Ids(p))
  <2>1. Ids(p) \in SUBSET Names
    BY <1>2, IdsOfThread
  <2>2. Fresh \in MaybeTurn /\ "save_turn" \in Steps /\ session' \in SessionType
    BY <1>4, FreshOK, AllSteps, Unpacked DEF MaybeTurn, Types, SessionOK
  <2>3. /\ Sound(session') /\ Current(session') = Fresh
        /\ session'.asking = NoTurn /\ session'.dispatching = NoTurn
        /\ Waiting(session') = Waiting(session) /\ Leaving(session') = Leaving(session)
    BY <1>4, <2>1, MadeSession DEF Led
  <2>4. /\ Alone(p) /\ pc'[p].at = "save_turn" /\ pc'[p].turn = Fresh /\ pc'[p].ids = Ids(p)
        /\ pc'[p].image = session /\ pc'[p].left = session'
        /\ pc'[p].cmd = pc[p].cmd /\ pc'[p].back = pc[p].back
    BY <1>4, <2>1, <2>2, SaveEffect, Unpacked
  <2>5. Fitting(pc'[p]) /\ Single(pc'[p])
    BY <1>4, <2>3, <2>4 DEF Fitting, Single, Led, NewTurnSteps
  <2>6. Carries(p)' /\ pc'[p].at \notin SendingSteps
    BY <2>4, CarryingIs DEF SendingSteps, CarryingSteps
  <2>7. Here(p)' = Ids(p)
    BY <2>3, <2>4 DEF Here, AskedIds, HeldBy, HoldingSteps
  <2>8. pc[p].back # "settle"
    BY <1>1, ThreadFields, Unpacked DEF ThreadsOK, ThreadOK, HandlerSteps, HandoffSteps
  <2>9. SpareOf(p, pc[p]) = {pc[p].cmd}
    BY <1>1, <1>2 DEF SpareOf
  <2>10. /\ Ids(p) \cup SpareOf(p, pc'[p]) = {pc[p].cmd}
         /\ Ids(p) \cap SpareOf(p, pc'[p]) = {}
    BY <1>2, <2>4, <2>8 DEF Ids, SpareOf, Says
  <2>11. OnePlace(p)'
    <3> SUFFICES ASSUME NEW x \in Names
                 PROVE  /\ x \in Waiting(session) => x \notin core.known \cup {pc[p].cmd}
                        /\ x = pc[p].cmd =>
                             x \notin Waiting(session) \cup Leaving(session) \cup core.known
      BY <1>1, <2>3, <2>7, <2>10 DEF OnePlace
    <3>1. x = pc[p].cmd => IsSpare(x)
      BY <2>9 DEF IsSpare
    <3> QED BY <3>1 DEF Led, Apart, WaitingApart, SpareApart
  <2>12. Moved(p)
    BY <1>1, <2>3, <2>7, <2>9, <2>10, <2>11 DEF Moved, Places
  <2> QED BY <1>1, <1>4, <2>3, <2>4, <2>5, <2>6, <2>12, TakesUpLeads
<1> QED BY <1>3, <1>4 DEF Start

LEMMA RetainedAlike ==
    ASSUME NEW s \in SessionType, NEW ids \in SUBSET Names
    PROVE  Alike(Retained(s, ids), s)
BY RetainedEffect DEF Alike

LEMMA HandoffLeads ==
    ASSUME Types, Types', Grown, Led, NEW h \in Handlers, Handoff(h)
    PROVE  Led'
<1>1. /\ pc[h].at = "handoff" /\ UNCHANGED <<core, channel, hand>> /\ h \in Threads
      /\ pc[h].ids \in SUBSET Names
  BY ThreadsApart, Unpacked DEF Handoff, At
<1>2. ~Carries(h)
  BY <1>1 DEF Carries
<1>3. CASE session' = Retained(session, pc[h].ids) /\ Return(h) /\ hist' = hist
  <2>1. Alike(session', session) /\ SameTurns
    BY <1>1, <1>3, SameCore, RetainedAlike, Unpacked
  <2> QED BY <1>1, <1>2, <1>3, <2>1, ReturnLight, PassingLeads
<1>4. CASE /\ Current(session) = NoTurn /\ CanMake
           /\ session' = NewTurn(session, Fresh, pc[h].ids)
           /\ Save(h, "save_handoff", Fresh, pc[h].ids)
  <2>2. Fresh \in MaybeTurn /\ "save_handoff" \in Steps /\ session' \in SessionType
    BY <1>4, FreshOK, AllSteps, Unpacked DEF MaybeTurn, Types, SessionOK, HandoffSteps
  <2>3. /\ Sound(session') /\ Current(session') = Fresh
        /\ session'.asking = NoTurn /\ session'.dispatching = NoTurn
        /\ Waiting(session') = Waiting(session) /\ Leaving(session') = Leaving(session)
    BY <1>1, <1>4, MadeSession DEF Led
  <2>4. /\ Alone(h) /\ pc'[h].at = "save_handoff" /\ pc'[h].turn = Fresh /\ pc'[h].ids = pc[h].ids
        /\ pc'[h].image = session /\ pc'[h].left = session'
        /\ pc'[h].cmd = pc[h].cmd /\ pc'[h].back = pc[h].back
    BY <1>1, <1>4, <2>2, SaveEffect, Unpacked
  <2>5. Fitting(pc'[h]) /\ Single(pc'[h])
    BY <1>4, <2>3, <2>4 DEF Fitting, Single, Led, NewTurnSteps
  <2>6. Carries(h)' /\ pc'[h].at \notin SendingSteps
    BY <2>4, CarryingIs DEF SendingSteps, CarryingSteps
  <2>7. Here(h)' = {}
    BY <2>3, <2>4 DEF Here, AskedIds, HeldBy, HoldingSteps
  <2>8. SpareOf(h, pc'[h]) \subseteq SpareOf(h, pc[h])
    BY <1>1, <2>4 DEF SpareOf, Says
  <2>9. Moved(h)
    BY <1>1, <2>3, <2>7, <2>8, MovedLess DEF Led
  <2> QED BY <1>1, <1>4, <2>3, <2>4, <2>5, <2>6, <2>9, TakesUpLeads
<1> QED BY <1>3, <1>4 DEF Handoff

LEMMA HandoffFailsLeads ==
    ASSUME Types, Types', Grown, Led, Steady', NEW h \in Handlers, HandoffFails(h),
           UNCHANGED <<channel, hand>>, pc[h].at \in {"save_handoff", "send_handoff"}
    PROVE  Led'
<1>1. h \in Threads /\ Carries(h) /\ core' = core /\ Return(h)
  BY ThreadsApart DEF Carries, HandoffFails
<1>2. session' = Retained(pc[h].image, pc[h].ids) /\ session = pc[h].left
  BY HandoffFailsEffect DEF Steady
<1>3. Alike(session', pc[h].image)
  BY <1>1, <1>2, RetainedAlike, ThreadFields, Unpacked
<1>4. /\ Sound(pc[h].image) /\ Current(pc[h].image) = NoTurn
      /\ Waiting(pc[h].image) \subseteq Waiting(session) /\ Leaving(pc[h].image) = Leaving(session)
  BY <1>1, <1>2 DEF Led, Fitting, RestoringSteps, SavingSteps, NewTurnSteps
<1>5. /\ Sound(session') /\ Current(session') = NoTurn
      /\ Waiting(session') \subseteq Waiting(session) /\ Leaving(session') = Leaving(session)
  BY <1>3, <1>4, AlikeSessions DEF SameTurn
<1>6. session'.asking = NoTurn
  <2>1. session' \in SessionType
    BY DEF Types, SessionOK
  <2> QED BY <1>5, <2>1 DEF Sound, AskedThere
<1> QED BY <1>1, <1>5, <1>6, ReturnLight, LetsGoPlainly

LEMMA HandoffSavedLeads ==
    ASSUME Types, Types', Grown, Led, Steady', NEW h \in Handlers, HandoffSaved(h)
    PROVE  Led'
<1>1. /\ pc[h].at = "save_handoff" /\ UNCHANGED <<channel, hand>> /\ h \in Threads
  BY ThreadsApart DEF HandoffSaved, At
<1>2. CASE Go(h, "send_handoff") /\ UNCHANGED <<session, core, hist>>
  <2>1. Carries(h)
    BY <1>1 DEF Carries
  <2>2. /\ "send_handoff" \in CarryingSteps
        /\ "send_handoff" \in SendingSteps <=> pc[h].at \in SendingSteps
        /\ "send_handoff" \in HoldingSteps <=> pc[h].at \in HoldingSteps
        /\ ~Speaking(h, "send_handoff")
    BY <1>1 DEF CarryingSteps, SendingSteps, HoldingSteps, Speaking
  <2> QED BY <1>1, <1>2, <2>1, <2>2, CarriesOnLeads
<1>3. CASE HandoffFails(h)
  BY <1>1, <1>3, HandoffFailsLeads
<1> QED BY <1>2, <1>3 DEF HandoffSaved

LEMMA SendHandoffLeads ==
    ASSUME Types, Types', Grown, Led, Steady', NEW h \in Handlers, SendHandoff(h)
    PROVE  Led'
<1>1. /\ pc[h].at = "send_handoff" /\ UNCHANGED <<channel, hand>> /\ h \in Threads
      /\ pc[h].ids \in SUBSET Names
  BY ThreadsApart, Unpacked DEF SendHandoff, At
<1>2. Carries(h) /\ pc[h].at \notin HoldingSteps
  BY <1>1 DEF Carries, HoldingSteps
<1>3. CASE SubmitToCore(pc[h].turn, pc[h].ids, FALSE) /\ Go(h, "dispatch") /\ UNCHANGED session
  <2>1. /\ "dispatch" \in Steps \ (CarryingSteps \cup RestoringSteps \cup {"append_now", "now"})
        /\ ~Speaking(h, "dispatch")
    BY AllSteps DEF CarryingSteps, RestoringSteps, SavingSteps, Speaking
  <2>2. Light(h) /\ SpareOf(h, pc'[h]) \subseteq SpareOf(h, pc[h])
    BY <1>1, <1>3, <2>1, GoLight
  <2> QED BY <1>1, <1>2, <1>3, <2>2, SubmittedLeads
<1>4. CASE HandoffFails(h)
  BY <1>1, <1>4, HandoffFailsLeads
<1>5. CASE /\ Strand(pc[h].turn) /\ Return(h) /\ UNCHANGED core
           /\ session' = Retained(session, pc[h].ids)
  <2>1. Alike(session', session)
    BY <1>1, <1>5, RetainedAlike, Unpacked
  <2> QED BY <1>1, <1>2, <1>5, <2>1, ReturnLight, StrandedLeads
<1> QED BY <1>3, <1>4, <1>5 DEF SendHandoff

LEMMA ResubmitLeads ==
    ASSUME Types, Types', Grown, Led, NEW h \in Handlers, Resubmit(h)
    PROVE  Led'
<1> DEFINE x == IF session.unconsumed = {} THEN "dispatch" ELSE "handoff"
<1>1. /\ pc[h].at = "resubmit" /\ UNCHANGED <<core, channel, hand, hist>> /\ h \in Threads
      /\ session' = [session EXCEPT !.unconsumed = {}]
      /\ Carry(h, x, NoTurn, session.unconsumed)
  BY ThreadsApart DEF Resubmit, At
<1>2. /\ x \in Steps \ (CarryingSteps \cup RestoringSteps \cup {"append_now", "now", "save_entry"})
      /\ x \notin {"start", "enqueue", "append", "settle", "save_turn", "send"}
  BY AllSteps DEF CarryingSteps, RestoringSteps, SavingSteps, HandoffSteps
<1>3. NoTurn \in MaybeTurn /\ session.unconsumed \in SUBSET Names
  BY Unpacked DEF MaybeTurn, SessionType
<1> HIDE DEF x
<1>4. Alone(h) /\ pc'[h].at = x /\ pc'[h].cmd = pc[h].cmd /\ pc'[h].back = pc[h].back
  BY <1>1, <1>2, <1>3, CarryEffect, Unpacked
<1>5. Light(h) /\ SpareOf(h, pc'[h]) \subseteq SpareOf(h, pc[h])
  BY <1>1, <1>2, <1>4 DEF Light, SpareOf, Says
<1>6. ~Carries(h) /\ SameTurns
  BY <1>1, SameCore DEF Carries
<1>7. Alike(session', session)
  BY <1>1, Unpacked DEF Alike, SessionType
<1> QED BY <1>1, <1>5, <1>6, <1>7, PassingLeads
LEMMA NotSettling ==
    ASSUME Types, NEW p \in Threads, pc[p].at \notin HandlerSteps \cup {"settle"}
    PROVE  pc[p].back # "settle"
BY ThreadFields, Unpacked DEF ThreadsOK, ThreadOK

LEMMA NoteLeads ==
    ASSUME Types, Types', Grown, Led, Note
    PROVE  Led'
<1>1. /\ pc["lane"].at = "note" /\ UNCHANGED <<session, core, channel, hand, hist>> /\ "lane" \in Threads
  BY ThreadsApart DEF Note, At
<1>2. ~Carries("lane") /\ Alike(session', session) /\ SameTurns
  BY <1>1, SameCore DEF Carries, Alike
<1>3. CASE End("lane")
  BY <1>1, <1>2, <1>3, EndLight, PassingLeads
<1>4. CASE Save("lane", "save_note", NoTurn, {})
  <2>1. /\ "save_note" \in SavingSteps \ NewTurnSteps /\ "save_note" \in Steps
        /\ NoTurn \in MaybeTurn /\ {} \in SUBSET Names /\ session' \in SessionType
    BY <1>1, AllSteps, Unpacked DEF SavingSteps, NewTurnSteps, MaybeTurn
  <2>2. pc'["lane"].at = "save_note" /\ pc'["lane"].back = pc["lane"].back /\ pc'["lane"].cmd = pc["lane"].cmd
    BY <1>1, <1>4, <2>1, SaveEffect, Unpacked
  <2>3. SpareOf("lane", pc'["lane"]) \subseteq SpareOf("lane", pc["lane"])
    BY <1>1, <2>2 DEF SpareOf, Says
  <2>4. /\ Sound(session') /\ SameTurn(session', session)
        /\ Waiting(session') = Waiting(session) /\ Leaving(session') = Leaving(session)
    BY <1>2, AlikeSessions DEF Led
  <2>5. hist.stranded \subseteq hist'.stranded
    BY <1>1
  <2> QED BY <1>1, <1>2, <1>4, <2>1, <2>3, <2>4, <2>5, SavingLeads
<1> QED BY <1>3, <1>4 DEF Note

LEMMA NoteSavedLeads ==
    ASSUME Types, Types', Grown, Led, Steady', NoteSaved
    PROVE  Led'
<1>1. /\ pc["lane"].at = "save_note" /\ UNCHANGED <<core, channel, hand>> /\ "lane" \in Threads /\ End("lane")
  BY ThreadsApart DEF NoteSaved, At
<1>2. CASE UNCHANGED <<session, hist>>
  <2>1. ~Carries("lane") /\ Alike(session', session) /\ SameTurns
    BY <1>1, <1>2, SameCore DEF Carries, Alike
  <2> QED BY <1>1, <1>2, <2>1, EndLight, PassingLeads
<1>3. CASE PutBack("lane")
  <2>1. pc["lane"].at \in SavingSteps \ NewTurnSteps
    BY <1>1 DEF SavingSteps, NewTurnSteps
  <2> QED BY <1>1, <1>3, <2>1, PutBackLeads
<1> QED BY <1>2, <1>3 DEF NoteSaved

LEMMA QueueSavedLeads ==
    ASSUME Types, Types', Grown, Led, Steady', NEW p \in Threads, QueueSaved(p)
    PROVE  Led'
<1>1. /\ pc[p].at = "save_queue" /\ UNCHANGED <<core, channel, hand>>
  BY DEF QueueSaved, At
<1>2. CASE Go(p, "dispatch") /\ UNCHANGED <<session, hist>>
  <2>1. ~Carries(p) /\ Alike(session', session) /\ SameTurns
    BY <1>1, <1>2, SameCore DEF Carries, Alike
  <2>2. /\ "dispatch" \in Steps \ (CarryingSteps \cup RestoringSteps \cup {"append_now", "now"})
        /\ ~Speaking(p, "dispatch")
    BY AllSteps DEF CarryingSteps, RestoringSteps, SavingSteps, Speaking
  <2> QED BY <1>1, <1>2, <2>1, <2>2, GoLight, PassingLeads
<1>3. CASE PutBack(p) /\ End(p)
  <2>1. pc[p].at \in SavingSteps \ NewTurnSteps
    BY <1>1 DEF SavingSteps, NewTurnSteps
  <2> QED BY <1>1, <1>3, <2>1, PutBackLeads
<1> QED BY <1>2, <1>3 DEF QueueSaved

LEMMA StopSavedLeads ==
    ASSUME Types, Types', Grown, Led, Steady', StopSaved
    PROVE  Led'
<1>1. /\ pc["lane"].at = "save_stop" /\ UNCHANGED <<core, channel, hand>> /\ "lane" \in Threads
  BY ThreadsApart DEF StopSaved, At
<1>2. CASE Go("lane", "stop") /\ UNCHANGED <<session, hist>>
  <2>1. ~Carries("lane") /\ Alike(session', session) /\ SameTurns
    BY <1>1, <1>2, SameCore DEF Carries, Alike
  <2>2. /\ "stop" \in Steps \ (CarryingSteps \cup RestoringSteps \cup {"append_now", "now"})
        /\ ~Speaking("lane", "stop")
    BY AllSteps DEF CarryingSteps, RestoringSteps, SavingSteps, Speaking
  <2> QED BY <1>1, <1>2, <2>1, <2>2, GoLight, PassingLeads
<1>3. CASE PutBack("lane") /\ End("lane")
  <2>1. pc["lane"].at \in SavingSteps \ NewTurnSteps
    BY <1>1 DEF SavingSteps, NewTurnSteps
  <2> QED BY <1>1, <1>3, <2>1, PutBackLeads
<1> QED BY <1>2, <1>3 DEF StopSaved

LEMMA StopCoreLeads ==
    ASSUME Types, Types', Grown, Led, StopCore
    PROVE  Led'
<1>1. /\ pc["lane"].at = "stop" /\ UNCHANGED <<session, channel, hand, hist>> /\ "lane" \in Threads
      /\ End("lane")
  BY ThreadsApart DEF StopCore, At
<1>2. SameTurns /\ core'.known = core.known
  BY StopCoreEffect, Unpacked DEF SameTurns
<1>3. ~Carries("lane") /\ Alike(session', session)
  BY <1>1 DEF Carries, Alike
<1> QED BY <1>1, <1>2, <1>3, EndLight, PassingLeads

LEMMA SettledLeads ==
    ASSUME Types, Types', Grown, Led, Settled
    PROVE  Led'
<1>1. /\ pc["lane"].at = "settle" /\ UNCHANGED <<session, core, channel, hand, hist>>
      /\ "lane" \in Threads
  BY ThreadsApart DEF Settled, At
<1>2. Says("lane", pc["lane"]) /\ pc["lane"].cmd \in Names
  BY <1>1, ThreadFields, Unpacked DEF Says
<1>3. ~Carries("lane") /\ Alike(session', session) /\ SameTurns
  BY <1>1, SameCore DEF Carries, Alike
<1>4. SpareOf("lane", pc["lane"]) = {pc["lane"].cmd}
  BY <1>1, <1>2 DEF SpareOf
<1>5. Light("lane") /\ SpareOf("lane", pc'["lane"]) \subseteq SpareOf("lane", pc["lane"])
  BY <1>1, <1>2, <1>4, BeginLight, EndLight DEF Settled
<1> QED BY <1>1, <1>3, <1>5, PassingLeads

LEMMA SendNowLeads ==
    ASSUME Types, Types', Grown, Led, NEW item \in ToSet(session.queue), SendNow(item)
    PROVE  Led'
<1>1. /\ pc["lane"].at = "idle" /\ UNCHANGED <<session, core, channel, hand, hist>>
      /\ "lane" \in Threads
  BY ThreadsApart DEF SendNow, At
<1> DEFINE x == IF HasActive(session) THEN "append_now" ELSE "now"
<1>2. item.id \in Names /\ {item.id} \in SUBSET Names /\ NoTurn \in MaybeTurn
  BY FoundItem DEF Item, MaybeTurn
<1>3. x \in Steps /\ x \in {"append_now", "now"} /\ Carry("lane", x, NoTurn, {item.id})
  BY AllSteps DEF SendNow
<1> HIDE DEF x
<1>4. /\ Alone("lane") /\ pc'["lane"].at = x /\ pc'["lane"].ids = {item.id}
      /\ pc'["lane"].cmd = pc["lane"].cmd /\ pc'["lane"].back = pc["lane"].back
  BY <1>1, <1>2, <1>3, CarryEffect, Unpacked
<1>5. Fitting(pc'["lane"]) /\ Single(pc'["lane"])
  BY <1>2, <1>3, <1>4 DEF Fitting, Single, RestoringSteps, SavingSteps
<1>6. /\ ~Carries("lane") /\ ~Carries("lane")' /\ HeldBy(pc'["lane"]) = {}
  BY <1>1, <1>3, <1>4 DEF Carries, HeldBy, HoldingSteps
<1>7. SameBurden("lane") /\ SameTurns /\ Alike(session', session)
  BY <1>1, <1>6, SameCore DEF SameBurden, Alike
<1>8. /\ Sound(session') /\ SameTurn(session', session)
      /\ Waiting(session') = Waiting(session) /\ Leaving(session') = Leaving(session)
      /\ AskedIds(session') = AskedIds(session)
  BY <1>7, AlikeSessions DEF Led
<1>9. Here("lane")' \subseteq Here("lane")
  BY <1>6, <1>8 DEF Here
<1>10. SpareOf("lane", pc'["lane"]) \subseteq SpareOf("lane", pc["lane"])
  BY <1>1, <1>3, <1>4 DEF SpareOf, Says
<1>11. Moved("lane")
  BY <1>1, <1>8, <1>9, <1>10, MovedLess DEF Led
<1> QED BY <1>1, <1>4, <1>5, <1>7, <1>8, <1>11, SteadyStepLeads

LEMMA EntrySavedLeads ==
    ASSUME Types, Types', Grown, Led, Steady', EntrySaved
    PROVE  Led'
<1>1. /\ pc["lane"].at = "save_entry" /\ UNCHANGED <<channel, hand>> /\ "lane" \in Threads /\ End("lane")
  BY ThreadsApart DEF EntrySaved, At
<1>2. CASE /\ core' = [core EXCEPT !.mail = @ \cup pc["lane"].ids, !.known = @ \cup pc["lane"].ids]
           /\ hist' = [hist EXCEPT !.accepted = @ \cup pc["lane"].ids]
           /\ UNCHANGED session
  <2>1. /\ core'.known = core.known \cup pc["lane"].ids
        /\ core'.queue = core.queue /\ core'.run = core.run
    BY <1>2, Unpacked DEF CoreOK, CoreType
  <2>2. hist'.stranded = hist.stranded
    BY <1>2, Unpacked DEF HistType
  <2>3. Light("lane") /\ SpareOf("lane", pc'["lane"]) = {} /\ SpareOf("lane", pc["lane"]) = pc["lane"].ids
    BY <1>1, EndLight DEF SpareOf
  <2>4. /\ Alone("lane") /\ Fitting(pc'["lane"]) /\ Single(pc'["lane"]) /\ ~Carries("lane")'
        /\ Here("lane")' = AskedIds(session')
    BY <2>3, LightStep
  <2>5. ~Carries("lane") /\ HeldBy(pc["lane"]) = {}
    BY <1>1 DEF Carries, HeldBy, HoldingSteps
  <2>6. SameBurden("lane") /\ SameTurns /\ Alike(session', session)
    BY <1>2, <2>1, <2>4, <2>5, SameCore DEF SameBurden, Alike
  <2>7. /\ Sound(session') /\ SameTurn(session', session)
        /\ Waiting(session') = Waiting(session) /\ Leaving(session') = Leaving(session)
        /\ AskedIds(session') = AskedIds(session)
    BY <2>6, AlikeSessions DEF Led
  <2>8. Here("lane") = AskedIds(session)
    BY <2>5 DEF Here
  <2>9. OnePlace("lane")'
    <3> SUFFICES ASSUME NEW x \in Names
                 PROVE  /\ x \in Waiting(session) =>
                             x \notin core.known \cup pc["lane"].ids \cup AskedIds(session)
                        /\ x \in core.known \cup pc["lane"].ids => x \notin AskedIds(session)
      BY <2>1, <2>3, <2>4, <2>7 DEF OnePlace
    <3>1. x \in pc["lane"].ids => IsSpare(x)
      BY <1>1, <2>3 DEF IsSpare
    <3>2. x \in AskedIds(session) => IsHeld(x)
      BY DEF IsHeld
    <3> QED BY <3>1, <3>2 DEF Led, Apart, WaitingApart, HeldApart, SpareApart
  <2>10. Moved("lane")
    BY <2>1, <2>3, <2>4, <2>7, <2>8, <2>9 DEF Moved, Places
  <2> QED BY <1>1, <2>2, <2>4, <2>6, <2>7, <2>10, SteadyStepLeads
<1>3. CASE PutBack("lane") /\ UNCHANGED core
  <2>1. pc["lane"].at \in SavingSteps \ NewTurnSteps
    BY <1>1 DEF SavingSteps, NewTurnSteps
  <2> QED BY <1>1, <1>3, <2>1, PutBackLeads
<1> QED BY <1>2, <1>3 DEF EntrySaved
LEMMA AppendEntryLeads ==
    ASSUME Types, Types', Grown, Led, AppendEntry
    PROVE  Led'
<1>1. /\ pc["lane"].at = "append" /\ UNCHANGED <<core, channel, hand, hist>> /\ "lane" \in Threads
  BY ThreadsApart DEF AppendEntry, At
<1>2. Says("lane", pc["lane"]) /\ pc["lane"].cmd \in Names /\ ~Carries("lane")
  BY <1>1, ThreadFields, Unpacked DEF Says, Carries
<1>3. SameTurns /\ SpareOf("lane", pc["lane"]) = {pc["lane"].cmd}
  BY <1>1, <1>2, SameCore DEF SpareOf
<1>4. CASE Become("lane", Resting("settle", pc["lane"].cmd)) /\ session' = session
  <2>1. Alone("lane") /\ pc'["lane"].at = "settle" /\ pc'["lane"].cmd = pc["lane"].cmd
    BY <1>1, <1>2, <1>4, RestEffect, Unpacked
  <2>2. Light("lane") /\ SpareOf("lane", pc'["lane"]) \subseteq SpareOf("lane", pc["lane"])
    BY <1>3, <2>1 DEF Light, CarryingSteps, RestoringSteps, SavingSteps, SpareOf, Says
  <2> QED BY <1>1, <1>2, <1>3, <1>4, <2>2, PassingLeads DEF Alike
<1>5. CASE End("lane") /\ session' = session
  BY <1>1, <1>2, <1>3, <1>5, EndLight, PassingLeads DEF Alike
<1>6. CASE /\ session' = Recorded(session, {pc["lane"].cmd})
           /\ Save("lane", "save_entry", NoTurn, {pc["lane"].cmd})
  <2>1. /\ {pc["lane"].cmd} \in SUBSET Names /\ NoTurn \in MaybeTurn
        /\ "save_entry" \in SavingSteps \ NewTurnSteps /\ "save_entry" \in Steps
        /\ session' \in SessionType
    BY <1>2, AllSteps DEF MaybeTurn, SavingSteps, NewTurnSteps, Types, SessionOK
  <2>2. Alike(session', session)
    BY <1>6, <2>1, RecordedEffect, Unpacked, ZenonT(60) DEF Alike, SameQueue
  <2>3. /\ Sound(session') /\ SameTurn(session', session)
        /\ Waiting(session') = Waiting(session) /\ Leaving(session') = Leaving(session)
    BY <2>2, AlikeSessions DEF Led
  <2> DEFINE ids == {pc["lane"].cmd}
  <2>7. Save("lane", "save_entry", NoTurn, ids) /\ ids \in SUBSET Names
    BY <1>6, <2>1
  <2> HIDE DEF ids
  <2>8. pc'["lane"].at = "save_entry" /\ pc'["lane"].ids = ids
    BY <1>1, <2>1, <2>7, SaveEffect, Unpacked
  <2>4. pc'["lane"].at = "save_entry" /\ pc'["lane"].ids = {pc["lane"].cmd}
    BY <2>8 DEF ids
  <2>5. SpareOf("lane", pc'["lane"]) = SpareOf("lane", pc["lane"])
    BY <1>3, <2>4 DEF SpareOf
  <2>6. hist.stranded \subseteq hist'.stranded
    BY <1>1
  <2> QED BY <1>1, <1>2, <1>6, <2>1, <2>3, <2>5, <2>6, SavingLeads
<1> QED BY <1>4, <1>5, <1>6 DEF AppendEntry

(* The turns and messages of the queue. *)
LEMMA QueueOf ==
    ASSUME NEW s \in SessionType
    PROVE  /\ s.queue \in Seq(Item)
           /\ \A i \in DOMAIN s.queue : s.queue[i].turn \in Turns /\ s.queue[i].id \in Names
           /\ \A i \in DOMAIN s.queue : s.queue[i].turn # NoTurn
<1>1. s.queue \in Seq(Item)
  BY DEF SessionType, Item
<1>2. \A i \in DOMAIN s.queue : s.queue[i] \in Item
  BY <1>1
<1> QED BY <1>1, <1>2 DEF Item, Turns, NoTurn

LEMMA EnqueueLeads ==
    ASSUME Types, Types', Grown, Led, NEW p \in Threads, Enqueue(p)
    PROVE  Led'
<1>1. pc[p].at = "enqueue" /\ UNCHANGED <<core, channel, hand>> /\ p \in {"lane", "task"}
  BY AtSteps, Unpacked DEF Enqueue, At
<1>2. Says(p, pc[p]) /\ pc[p].cmd \in Names /\ ~Carries(p) /\ SpareOf(p, pc[p]) = {pc[p].cmd}
  BY <1>1, ThreadFields, Unpacked DEF Says, Carries, SpareOf
<1>3. CASE session' = session /\ End(p) /\ hist' = hist
  BY <1>1, <1>2, <1>3, EndLight, PassingLeads, SameCore DEF Alike
<1>4. CASE ~Quiet(session)
  <2> DEFINE n == Len(session.queue) + 1
             s == session
             id == pc[p].cmd
  <2>1. /\ CanMake /\ hist' = Made(hist) /\ Save(p, "save_queue", Fresh, {})
        /\ session' \in SessionType /\ session'.dispatching = s.dispatching
        /\ session'.pending = s.pending /\ session'.active = s.active
        /\ session'.asking = s.asking /\ session'.askedFor = s.askedFor
        /\ session'.turns = s.turns
    BY <1>1, <1>4, EnqueuedEffect
  <2>2. /\ n \in DOMAIN session'.queue /\ session'.queue[n].id = id /\ session'.queue[n].turn = Fresh
        /\ \A i \in DOMAIN session'.queue :
             i = n \/ (i \in DOMAIN s.queue /\ session'.queue[i] = s.queue[i])
        /\ \A i \in DOMAIN s.queue : i \in DOMAIN session'.queue /\ session'.queue[i] = s.queue[i]
    BY <1>1, <1>4, EnqueuedEffect
  <2> HIDE DEF n, id
  <2>3. Fresh \in Turns /\ hist.made \in Nat /\ Fresh = hist.made + 1 /\ Fresh # NoTurn
    BY <2>1, FreshOK, MadeNat, Unpacked DEF Fresh, NoTurn
  <2>4. \A i \in DOMAIN s.queue : s.queue[i].turn \in Turns /\ s.queue[i].id \in Names
    BY QueueOf, Unpacked
  <2>5. \A i \in DOMAIN s.queue : s.queue[i].turn # Fresh
    BY <2>3, <2>4 DEF Grown, Within, Turns
  <2>6. s.dispatching # Fresh
    <3>1. s.dispatching = NoTurn \/ s.dispatching = s.pending
      BY DEF Led, Sound, DispatchedThere
    <3>2. s.pending \in MaybeTurn /\ s.pending <= hist.made
      BY Unpacked DEF SessionType, Grown, Within
    <3> QED BY <2>3, <3>1, <3>2 DEF MaybeTurn, Turns, NoTurn
  <2>7. id \in Names /\ IsSpare(id)
    BY <1>2 DEF IsSpare, id
  <2>8. id \notin Waiting(s) \cup Leaving(s) \cup core.known /\ ~IsHeld(id)
    BY <2>7 DEF Led, Apart, SpareApart
  <2>9. \A i \in DOMAIN s.queue : s.queue[i].id # id
    BY <2>4, <2>8 DEF Waiting, Leaving
  <2>10. ASSUME NEW x PROVE x \in Waiting(session') <=> x \in Waiting(s) \cup {id}
    BY <2>1, <2>2, <2>6, <2>7 DEF Waiting
  <2>11. ASSUME NEW x PROVE x \in Leaving(session') <=> x \in Leaving(s)
    BY <2>1, <2>2, <2>6 DEF Leaving
  <2>12. Current(session') = Current(s)
    BY <2>1 DEF Current
  <2>13. ItemsDiffer(session')
    <3>1. ItemsDiffer(s)
      BY DEF Led, Sound
    <3> QED BY <2>2, <2>5, <2>9, <3>1 DEF ItemsDiffer
  <2>14. ItemsUnlisted(session')
    <3>1. ItemsUnlisted(s)
      BY DEF Led, Sound
    <3>2. s.turns[Fresh] = "none"
      BY <2>3 DEF Grown, Within
    <3> QED BY <2>1, <2>2, <3>1, <3>2 DEF ItemsUnlisted
  <2>15. Sound(session')
    BY <2>1, <2>12, <2>13, <2>14 DEF Led, Sound, OneThere, DispatchedThere, AskedThere, ActiveListed
  <2>16. SameTurn(session', session)
    BY <2>1, <2>12 DEF SameTurn
  <2>17. /\ "save_queue" \in SavingSteps \ NewTurnSteps /\ "save_queue" \in Steps
         /\ Fresh \in MaybeTurn /\ {} \in SUBSET Names
    BY <2>3, AllSteps DEF MaybeTurn, SavingSteps, NewTurnSteps
  <2>18. pc'[p].at = "save_queue" /\ pc'[p].back = pc[p].back
    BY <2>1, <2>17, SaveEffect, Unpacked
  <2>19. SpareOf(p, pc'[p]) = {}
    <3>1. pc[p].back # "settle"
      BY <1>1, NotSettling DEF HandlerSteps, HandoffSteps
    <3> QED BY <2>18, <3>1 DEF SpareOf, Says
  <2>20. hist'.stranded = hist.stranded
    BY <2>1, Unpacked DEF Made, HistType
  <2>21. id \in SpareOf(p, pc[p])
    BY <1>2 DEF id
  <2>22. /\ Waiting(session) \subseteq Waiting(session') /\ Leaving(session') = Leaving(session)
         /\ \A i \in Names : i \in Waiting(session') =>
              i \in Waiting(session) \/ (i \in SpareOf(p, pc[p]) /\ i \notin SpareOf(p, pc'[p]))
    BY <2>10, <2>11, <2>19, <2>21
  <2>23. hist.stranded \subseteq hist'.stranded /\ \A i : i \notin SpareOf(p, pc'[p])
    BY <2>19, <2>20
  <2>24. Waiting(session) \subseteq Waiting(session') \cup (IF "save_queue" = "save_entry" THEN {} ELSE {})
    BY <2>22
  <2> QED BY <1>1, <1>2, <2>1, <2>15, <2>16, <2>17, <2>22, <2>23, <2>24, SavingLeads
<1> QED BY <1>3, <1>4 DEF Enqueue

LEMMA SupplementNowLeads ==
    ASSUME Types, Types', Grown, Led, SupplementNow
    PROVE  Led'
<1>1. /\ pc["lane"].at = "append_now" /\ UNCHANGED <<core, channel, hand, hist>> /\ "lane" \in Threads
  BY ThreadsApart DEF SupplementNow, At
<1>2. ~Carries("lane") /\ SameTurns
  BY <1>1, SameCore DEF Carries
<1>3. CASE End("lane") /\ UNCHANGED session
  BY <1>1, <1>2, <1>3, EndLight, PassingLeads DEF Alike
<1>4. CASE ~(\/ ~core.open \/ ~IsQueued(session, pc["lane"].ids) \/ ~HasActive(session)
             \/ session.dispatching = Queued(session, pc["lane"].ids).turn)
  <2> DEFINE ids == pc["lane"].ids
             s == Unqueued(session, ids)
             k == Place(session, ids)
             q == RemoveAt(session.queue, k)
             r == Recorded(s, ids)
  <2>1. /\ session' = r /\ Save("lane", "save_entry", NoTurn, ids)
        /\ ids \in SUBSET Names /\ NoTurn \in MaybeTurn
        /\ IsQueued(session, ids) /\ session.dispatching # Queued(session, ids).turn
    BY <1>1, <1>4, Unpacked DEF SupplementNow, MaybeTurn
  <2>2. \E y \in Names : ids = {y}
    BY <1>1 DEF Led, Single
  <2> HIDE DEF ids
  <2>3. k \in DOMAIN session.queue /\ session.queue[k].id \in ids /\ Queued(session, ids) = session.queue[k]
    BY <2>1, QueuedItem, Unpacked
  <2>4. /\ \A j \in DOMAIN session.queue : j # k => \E i \in DOMAIN q : q[i] = session.queue[j]
        /\ \A i \in DOMAIN q : \E j \in DOMAIN session.queue : j # k /\ q[i] = session.queue[j]
        /\ \A i, j \in DOMAIN q : i # j =>
             \E m, o \in DOMAIN session.queue : m # o /\ q[i] = session.queue[m] /\ q[j] = session.queue[o]
    BY <2>1, UnqueuedItems, Unpacked, SMTT(30)
  <2>5. /\ s \in SessionType /\ s.dispatching = session.dispatching
        /\ s.pending = session.pending /\ s.active = session.active
        /\ s.asking = session.asking /\ s.askedFor = session.askedFor
        /\ s.turns = session.turns /\ s.queue = q
    BY <2>1, UnqueuedEffect, Unpacked
  <2> HIDE DEF s, k, q
  <2>6. /\ r \in SessionType /\ r.queue = s.queue /\ r.dispatching = s.dispatching
        /\ r.pending = s.pending /\ r.active = s.active
        /\ r.asking = s.asking /\ r.askedFor = s.askedFor /\ r.turns = s.turns
    BY <2>1, <2>5, RecordedEffect DEF SameQueue
  <2> HIDE DEF r
  <2>7. /\ session' \in SessionType /\ session'.queue = q
        /\ session'.dispatching = session.dispatching
        /\ session'.pending = session.pending /\ session'.active = session.active
        /\ session'.asking = session.asking /\ session'.askedFor = session.askedFor
        /\ session'.turns = session.turns
    BY <2>1, <2>5, <2>6
  <2>8. PICK y \in Names : ids = {y} /\ session.queue[k].id = y
    BY <2>2, <2>3
  <2>9. /\ \A j \in DOMAIN session.queue : session.queue[j].id = y => j = k
        /\ session.queue[k].turn # session.dispatching
    BY <2>1, <2>3, <2>8 DEF Led, Sound, ItemsDiffer
  <2>10. ASSUME NEW x PROVE x \in Waiting(session') <=> x \in Waiting(session) \ {y}
    BY <2>3, <2>4, <2>7, <2>8, <2>9 DEF Waiting
  <2>11. ASSUME NEW x PROVE x \in Leaving(session') <=> x \in Leaving(session)
    BY <2>3, <2>4, <2>7, <2>9 DEF Leaving
  <2>12. Current(session') = Current(session)
    BY <2>7 DEF Current
  <2>13. ItemsDiffer(session')
    BY <2>4, <2>7 DEF Led, Sound, ItemsDiffer
  <2>14. ItemsUnlisted(session')
    BY <2>4, <2>7 DEF Led, Sound, ItemsUnlisted
  <2>15. Sound(session')
    BY <2>7, <2>12, <2>13, <2>14 DEF Led, Sound, OneThere, DispatchedThere, AskedThere, ActiveListed
  <2>16. SameTurn(session', session)
    BY <2>7, <2>12 DEF SameTurn
  <2>17. "save_entry" \in SavingSteps \ NewTurnSteps /\ "save_entry" \in Steps
    BY AllSteps DEF SavingSteps, NewTurnSteps
  <2>18. pc'["lane"].at = "save_entry" /\ pc'["lane"].ids = ids
    BY <1>1, <2>1, <2>7, <2>17, SaveEffect, Unpacked
  <2>19. SpareOf("lane", pc'["lane"]) = {y}
    BY <2>8, <2>18 DEF SpareOf
  <2>20. y \in Waiting(session) /\ y \notin Leaving(session)
    BY <2>3, <2>8, <2>9 DEF Waiting, Leaving
  <2>21. hist.stranded \subseteq hist'.stranded
    BY <1>1
  <2> QED BY <1>1, <1>2, <2>1, <2>8, <2>10, <2>11, <2>15, <2>16, <2>17, <2>19, <2>20, <2>21, SavingLeads
<1> QED BY <1>3, <1>4 DEF SupplementNow
LEMMA StillAlone ==
    ASSUME Led, NEW p \in Threads, pc' = pc
    PROVE  /\ Alone(p) /\ Fitting(pc'[p]) /\ Single(pc'[p]) /\ SameBurden(p)
           /\ HeldBy(pc'[p]) = HeldBy(pc[p]) /\ SpareOf(p, pc'[p]) = SpareOf(p, pc[p])
BY DEF Led, Alone, SameBurden, Carries

LEMMA AbandonedSession ==
    ASSUME session \in SessionType, Sound(session), session.asking # NoTurn,
           session.pending # NoTurn, session.turns[session.pending] # "none",
           session' = Abandoned(session)
    PROVE  /\ Sound(session') /\ Current(session') = NoTurn
           /\ session'.asking = NoTurn /\ session'.dispatching = NoTurn
           /\ Waiting(session') = Waiting(session) /\ Leaving(session') = Leaving(session)
<1> DEFINE r == Abandoned(session)
<1>1. /\ r.queue = session.queue /\ r.dispatching = session.dispatching
      /\ r.pending = NoTurn /\ r.active = NoTurn /\ r.asking = NoTurn
      /\ r.turns = [session.turns EXCEPT ![session.pending] = "done"]
  BY AbandonedEffect DEF SameQueue
<1>2. session' = r
  OBVIOUS
<1> HIDE DEF r
<1>3. session.dispatching = NoTurn
  BY DEF Sound, AskedThere
<1>4. ItemsUnlisted(session')
  <2> SUFFICES ASSUME NEW i \in DOMAIN session.queue
               PROVE  session'.turns[session.queue[i].turn] = "none"
    BY <1>1, <1>2 DEF ItemsUnlisted
  <2>1. session.turns[session.queue[i].turn] = "none"
    BY DEF Sound, ItemsUnlisted
  <2>2. session.queue[i].turn # session.pending /\ session.queue[i].turn \in Turns
    BY <2>1, QueueOf
  <2> QED BY <1>1, <1>2, <2>1, <2>2 DEF SessionType
<1>5. Sound(session')
  BY <1>1, <1>2, <1>3, <1>4 DEF Sound, OneThere, DispatchedThere, AskedThere, ItemsDiffer, ActiveListed
<1> QED BY <1>1, <1>2, <1>3, <1>5 DEF Current, Waiting, Leaving

LEMMA CancelledSession ==
    ASSUME session \in SessionType, Sound(session), HasActive(session), session' = Cancelled(session)
    PROVE  /\ Sound(session') /\ SameTurn(session', session)
           /\ Waiting(session') = Waiting(session) /\ Leaving(session') = Leaving(session)
<1> DEFINE r == Cancelled(session)
<1>1. /\ r.queue = session.queue /\ r.dispatching = session.dispatching
      /\ r.pending = session.pending /\ r.active = session.active
      /\ r.asking = session.asking /\ r.askedFor = session.askedFor
      /\ r.turns = [session.turns EXCEPT ![Current(session)] = "done"]
  BY CancelledEffect DEF SameQueue
<1>2. session' = r
  OBVIOUS
<1> HIDE DEF r
<1>3. Current(session') = Current(session)
  BY <1>1, <1>2 DEF Current
<1>4. ItemsUnlisted(session')
  <2> SUFFICES ASSUME NEW i \in DOMAIN session.queue
               PROVE  session'.turns[session.queue[i].turn] = "none"
    BY <1>1, <1>2 DEF ItemsUnlisted
  <2>1. session.turns[session.queue[i].turn] = "none"
    BY DEF Sound, ItemsUnlisted
  <2>2. session.queue[i].turn # Current(session) /\ session.queue[i].turn \in Turns
    BY <2>1, QueueOf DEF HasActive
  <2> QED BY <1>1, <1>2, <2>1, <2>2 DEF SessionType
<1>5. ActiveListed(session')
  <2>1. session.active \in MaybeTurn /\ session.turns \in [Turns -> Statuses]
    BY DEF SessionType, Statuses
  <2> QED BY <1>1, <1>2, <2>1 DEF Sound, ActiveListed, Current, HasActive, MaybeTurn
<1>6. Sound(session')
  BY <1>1, <1>2, <1>3, <1>4, <1>5 DEF Sound, OneThere, DispatchedThere, AskedThere, ItemsDiffer
<1> QED BY <1>1, <1>2, <1>3, <1>6 DEF SameTurn, Waiting, Leaving

LEMMA CancelLeads ==
    ASSUME Types, Types', Grown, Led, Cancel
    PROVE  Led'
<1>1. /\ pc["lane"].at = "idle" /\ UNCHANGED <<core, channel, hand>> /\ "lane" \in Threads
      /\ ~Carries("lane") /\ HeldBy(pc["lane"]) = {} /\ SameTurns
  BY ThreadsApart, SameCore DEF Cancel, At, Carries, HeldBy, HoldingSteps
<1> DEFINE last == IF session.asking # NoTurn THEN "stopped" ELSE hist.last
<1>2. hist'.stranded = hist.stranded
  <2>1. hist' = [hist EXCEPT !.stops = @ + 1, !.last = last]
    BY DEF Cancel
  <2> HIDE DEF last
  <2> QED BY <2>1, Unpacked DEF HistType
<1>3. CASE /\ session.asking # NoTurn /\ pc' = pc /\ session' = session
  <2>1. /\ Alone("lane") /\ Fitting(pc'["lane"]) /\ Single(pc'["lane"]) /\ SameBurden("lane")
        /\ HeldBy(pc'["lane"]) = HeldBy(pc["lane"])
        /\ SpareOf("lane", pc'["lane"]) = SpareOf("lane", pc["lane"])
    BY <1>1, <1>3, StillAlone
  <2>2. Sound(session') /\ SameTurn(session', session)
    BY <1>3 DEF Led, SameTurn
  <2>3. Here("lane")' = Here("lane")
    BY <1>3, <2>1 DEF Here
  <2>4. Moved("lane")
    BY <1>1, <1>3, <2>1, <2>3, MovedLess DEF Led
  <2>5. Leaving(session') = Leaving(session)
    BY <1>3
  <2> QED BY <1>1, <1>2, <2>1, <2>2, <2>4, <2>5, SteadyStepLeads
<1>4. CASE /\ session.asking # NoTurn /\ pc' = pc
           /\ session.pending # NoTurn /\ session.turns[session.pending] # "none"
           /\ session' = Abandoned(session)
  <2>1. /\ Alone("lane") /\ Fitting(pc'["lane"]) /\ Single(pc'["lane"])
        /\ HeldBy(pc'["lane"]) = HeldBy(pc["lane"])
        /\ SpareOf("lane", pc'["lane"]) = SpareOf("lane", pc["lane"])
    BY <1>1, <1>4, StillAlone
  <2>2. /\ Sound(session') /\ Current(session') = NoTurn
        /\ session'.asking = NoTurn /\ session'.dispatching = NoTurn
        /\ Waiting(session') = Waiting(session) /\ Leaving(session') = Leaving(session)
    BY <1>4, AbandonedSession, Unpacked DEF Led
  <2>3. CoreIdle /\ \A q \in Threads : ~Carries(q)
    BY <1>4 DEF Led, Token, AskedIsIdle, CarriedIsThere
  <2>4. CoreIdle' /\ \A q \in Threads : ~Carries(q)'
    BY <1>1, <1>4, <2>3, SameIdle DEF Carries
  <2>5. OneCarries'
    BY <2>4 DEF OneCarries
  <2>6. Token' /\ Sending'
    BY <2>2, <2>4, <2>5, TokenWhenIdle, SendingWhenIdle
  <2>7. Here("lane")' \subseteq Here("lane")
    BY <2>1, <2>2 DEF Here, AskedIds
  <2>8. Moved("lane")
    BY <1>1, <2>1, <2>2, <2>7, MovedLess DEF Led
  <2> QED BY <1>1, <2>1, <2>2, <2>6, <2>8, ThreadStepLeads
<1>5. CASE /\ HasActive(session) /\ session' = Cancelled(session)
           /\ Save("lane", "save_stop", Current(session), {})
  <2>1. /\ Sound(session') /\ SameTurn(session', session)
        /\ Waiting(session') = Waiting(session) /\ Leaving(session') = Leaving(session)
    BY <1>5, CancelledSession, Unpacked DEF Led
  <2>2. /\ "save_stop" \in SavingSteps \ NewTurnSteps /\ "save_stop" \in Steps
        /\ Current(session) \in MaybeTurn /\ {} \in SUBSET Names /\ session' \in SessionType
    BY CurrentType, AllSteps, Unpacked DEF SavingSteps, NewTurnSteps, Types, SessionOK
  <2>3. pc'["lane"].at = "save_stop" /\ pc'["lane"].back = pc["lane"].back /\ pc'["lane"].cmd = pc["lane"].cmd
    BY <1>1, <1>5, <2>2, SaveEffect, Unpacked
  <2>4. SpareOf("lane", pc'["lane"]) \subseteq SpareOf("lane", pc["lane"])
    BY <1>1, <2>3 DEF SpareOf, Says
  <2>5. hist.stranded \subseteq hist'.stranded
    BY <1>2
  <2> QED BY <1>1, <1>5, <2>1, <2>2, <2>4, <2>5, SavingLeads
<1>6. CASE session' = session /\ Carry("lane", "stop", Current(session), {})
  <2>1. "stop" \in Steps /\ Current(session) \in MaybeTurn /\ {} \in SUBSET Names
    BY CurrentType, AllSteps, Unpacked
  <2>2. /\ Alone("lane") /\ pc'["lane"].at = "stop" /\ pc'["lane"].back = pc["lane"].back
        /\ pc'["lane"].cmd = pc["lane"].cmd
    BY <1>1, <1>6, <2>1, CarryEffect, Unpacked
  <2>3. Light("lane") /\ SpareOf("lane", pc'["lane"]) \subseteq SpareOf("lane", pc["lane"])
    BY <1>1, <2>2 DEF Light, CarryingSteps, RestoringSteps, SavingSteps, SpareOf, Says
  <2>4. Alike(session', session) /\ hist.stranded \subseteq hist'.stranded /\ core'.known = core.known
    BY <1>1, <1>2, <1>6 DEF Alike
  <2> QED BY <1>1, <2>3, <2>4, PassingLeads
<1> QED BY <1>3, <1>4, <1>5, <1>6 DEF Cancel
-----------------------------------------------------------------------------
(* The steps of Core, and the threads that hear of them.                    *)

(* What the first event leaves behind it, and what events are added to.     *)
LEMMA EventsBehind ==
    ASSUME NEW s \in Seq(EventType), s # <<>>
    PROVE  /\ \A i \in DOMAIN Tail(s) : i + 1 \in DOMAIN s /\ Tail(s)[i] = s[i + 1]
           /\ \A i \in DOMAIN s : i = 1 \/ (i - 1 \in DOMAIN Tail(s) /\ s[i] = Tail(s)[i - 1])
           /\ Len(Tail(s)) = Len(s) - 1 /\ Len(s) \in Nat
OBVIOUS

LEMMA TailOfOne ==
    ASSUME NEW S, NEW s \in Seq(S), Len(s) = 1
    PROVE  Tail(s) = <<>>
<1>1. s # <<>>
  BY EmptySeq
<1>2. Tail(s) \in Seq(S) /\ Len(Tail(s)) = 0
  BY <1>1, HeadTailProperties
<1> QED BY <1>2, EmptySeq

LEMMA FinishedBehind ==
    ASSUME NEW s \in Seq(EventType), s # <<>>
    PROVE  /\ FinishedLast(s) => FinishedLast(Tail(s))
           /\ s[1].kind # "finished" => (NoneFinished(Tail(s)) <=> NoneFinished(s))
           /\ FinishedLast(s) /\ s[1].kind = "finished" => Len(s) = 1 /\ Tail(s) = <<>>
<1> DEFINE c == Tail(s)
<1>1. /\ \A i \in DOMAIN c : i \in Nat /\ i + 1 \in DOMAIN s /\ c[i] = s[i + 1]
      /\ \A i \in DOMAIN s : i = 1 \/ (i - 1 \in DOMAIN c /\ s[i] = c[i - 1])
      /\ Len(c) = Len(s) - 1 /\ Len(s) \in Nat /\ 1 \in DOMAIN s
  BY EventsBehind
<1>2. Len(s) = 1 => c = <<>>
  BY TailOfOne
<1> HIDE DEF c
<1>3. FinishedLast(s) => FinishedLast(c)
  BY <1>1 DEF FinishedLast
<1>4. s[1].kind # "finished" => (NoneFinished(c) <=> NoneFinished(s))
  BY <1>1 DEF NoneFinished
<1>5. FinishedLast(s) /\ s[1].kind = "finished" => Len(s) = 1
  BY <1>1 DEF FinishedLast
<1> QED BY <1>2, <1>3, <1>4, <1>5 DEF c

LEMMA EventsAdded ==
    ASSUME NEW s \in Seq(EventType), NEW t \in Seq(EventType)
    PROVE  /\ \A i \in DOMAIN s : i \in DOMAIN (s \o t) /\ (s \o t)[i] = s[i]
           /\ \A i \in DOMAIN t : Len(s) + i \in DOMAIN (s \o t) /\ (s \o t)[Len(s) + i] = t[i]
           /\ \A i \in DOMAIN (s \o t) : \/ i \in DOMAIN s /\ (s \o t)[i] = s[i]
                                         \/ i - Len(s) \in DOMAIN t /\ (s \o t)[i] = t[i - Len(s)]
           /\ Len(s \o t) = Len(s) + Len(t) /\ Len(s) \in Nat /\ Len(t) \in Nat
OBVIOUS

LEMMA FinishedAdded ==
    ASSUME NEW s \in Seq(EventType), NEW t \in Seq(EventType), NoneFinished(s), FinishedLast(t)
    PROVE  FinishedLast(s \o t) /\ (NoneFinished(s \o t) <=> NoneFinished(t))
<1> DEFINE c == s \o t
<1>1. /\ \A i \in DOMAIN t : Len(s) + i \in DOMAIN c /\ c[Len(s) + i] = t[i]
      /\ \A i \in DOMAIN c : \/ i \in DOMAIN s /\ c[i] = s[i]
                             \/ i - Len(s) \in DOMAIN t /\ c[i] = t[i - Len(s)]
      /\ Len(c) = Len(s) + Len(t) /\ Len(s) \in Nat /\ Len(t) \in Nat
      /\ DOMAIN c \subseteq Nat
  BY EventsAdded
<1> HIDE DEF c
<1>2. FinishedLast(c)
  <2> SUFFICES ASSUME NEW i \in DOMAIN c, c[i].kind = "finished" PROVE i = Len(c)
    BY DEF FinishedLast
  <2>1. i - Len(s) \in DOMAIN t /\ c[i] = t[i - Len(s)]
    BY <1>1 DEF NoneFinished
  <2>2. i - Len(s) = Len(t) /\ i \in Nat
    BY <1>1, <2>1 DEF FinishedLast
  <2> QED BY <1>1, <2>2
<1>3. NoneFinished(c) <=> NoneFinished(t)
  BY <1>1, SMTT(30) DEF NoneFinished
<1> QED BY <1>2, <1>3 DEF c

(* The threads and the session stay as they are. *)
LEMMA CoreStepLeads ==
    ASSUME Led, UNCHANGED <<session, pc>>, core'.known = core.known, Token', Sending'
    PROVE  Led'
<1>1. Apart'
  BY DEF Led, Apart, WaitingApart, HeldApart, SpareApart, SparesDiffer, IsHeld, IsSpare
<1> QED BY <1>1 DEF Led

(* With something under way in Core, no thread carries a turn.              *)
LEMMA NobodyCarries ==
    ASSUME Token, ~CoreIdle
    PROVE  session.asking = NoTurn /\ \A p \in Threads : ~Carries(p)
BY DEF Token, CarriedIsThere, AskedIsIdle

LEMMA CoreTakeLeads ==
    ASSUME Types, Types', Grown, Led, CoreTake
    PROVE  Led'
<1>1. core'.queue = core.queue /\ core'.run = core.run /\ core'.known = core.known
  BY CoreTakeEffect, Unpacked
<1>2. UNCHANGED <<session, channel, hand, pc>> /\ hist'.stranded = hist.stranded
  <2>1. hist' = [hist EXCEPT !.reached = @ \cup core.mail] /\ UNCHANGED <<session, channel, hand, pc>>
    BY DEF CoreTake
  <2> QED BY <2>1, Unpacked DEF HistType
<1>3. SameTurns /\ SameTurn(session', session) /\ Leaving(session') = Leaving(session)
  BY <1>1, <1>2, SameCore DEF SameTurn
<1>4. \A p \in Threads : SameBurden(p)
  BY <1>2, StillAlone
<1>5. Token' /\ Sending'
  BY <1>2, <1>3, <1>4, TokenKept DEF Led
<1> QED BY <1>1, <1>2, <1>5, CoreStepLeads

LEMMA CoreStartLeads ==
    ASSUME Types, Types', Grown, Led, CoreStart
    PROVE  Led'
<1> DEFINE e == Event("started", core'.run.turn, core'.run.ids, "none")
<1>1. /\ core.run = NoRun /\ core.queue # <<>> /\ core.queue \in Seq(SubmissionType)
      /\ core'.queue = Tail(core.queue) /\ core'.run # NoRun
      /\ core'.run.turn = core.queue[1].turn /\ core'.run.ids = core.queue[1].ids
      /\ core'.known = core.known /\ channel' = channel \o <<e>>
      /\ UNCHANGED <<session, hand, pc, hist>>
  BY CoreStartEffect, Unpacked DEF CoreStart, CoreOK, CoreType
<1>2. e.kind = "started" /\ e.turn = core'.run.turn /\ e.ids = core'.run.ids
  BY DEF Event
<1> HIDE DEF e
<1>3. /\ Len(core.queue) = 1 /\ channel = <<>> /\ NoneEnds /\ core.queue[1].turn = Current(session)
      /\ ~CoreIdle
  BY <1>1 DEF Led, Token, SubmittedIsThere, CoreIdle
<1>4. core'.queue = <<>>
  BY <1>1, <1>3, TailOfOne
<1>5. channel' = <<e>>
  BY <1>1, <1>3
<1>6. DOMAIN channel' = {1} /\ channel'[1] = e /\ Len(channel') = 1
  BY <1>5
<1>7. NoneEnds'
  BY <1>1, <1>2, <1>3, <1>6 DEF NoneEnds, NoneFinished
<1>8. session.asking = NoTurn /\ \A p \in Threads : ~Carries(p) /\ ~Carries(p)'
  BY <1>1, <1>3, NobodyCarries DEF Led, Carries
<1>9. OneCarries' /\ CarriedIsThere' /\ AskedIsIdle' /\ SubmittedIsThere' /\ RunningIsThere'
  BY <1>1, <1>3, <1>4, <1>7, <1>8
     DEF OneCarries, CarriedIsThere, AskedIsIdle, SubmittedIsThere, RunningIsThere
<1>10. ToldIsThere' /\ Somewhere'
  BY <1>1, <1>2, <1>3, <1>6 DEF ToldIsThere, FinishedLast, Somewhere, CoreIdle
<1>11. EndIsThere'
  BY <1>7 DEF EndIsThere, NoneEnds, NoneFinished, FinishedLast
<1>12. Sending'
  <2>1. session.dispatching # NoTurn => core.queue[1].ids = Leaving(session) /\ NoneFinished(hand["lane"])
    BY <1>1 DEF Led, Sending
  <2>2. session.dispatching # NoTurn => Announced'
    BY <1>1, <1>2, <1>6, <2>1 DEF Announced
  <2> QED BY <1>1, <1>4, <1>8, <2>1, <2>2 DEF Sending
<1> QED BY <1>1, <1>9, <1>10, <1>11, <1>12, CoreStepLeads DEF Token

(* Core, with a turn that runs, has something to say. *)
LEMMA CoreTellsLeads ==
    ASSUME Types, Types', Led, UNCHANGED <<session, hand, pc>>, hist'.stranded = hist.stranded,
           core'.known = core.known, core'.queue = core.queue, core.run # NoRun,
           NEW es \in Seq(EventType), es # <<>>, channel' = channel \o es, FinishedLast(es),
           \A i \in DOMAIN es : es[i].turn = core.run.turn,
           \/ core'.run = core.run /\ NoneFinished(es)
           \/ core'.run = NoRun /\ ~NoneFinished(es)
    PROVE  Led'
<1>1. /\ core.run.turn = Current(session) /\ NoneEnds /\ ~CoreIdle /\ core.queue = <<>>
      /\ channel \in Seq(EventType)
  BY Unpacked DEF Led, Token, RunningIsThere, SubmittedIsThere, CoreIdle, EventsOK
<1>2. session.asking = NoTurn /\ \A p \in Threads : ~Carries(p) /\ ~Carries(p)'
  BY <1>1, NobodyCarries DEF Led, Carries
<1>3. FinishedLast(channel') /\ (NoneFinished(channel') <=> NoneFinished(es))
  BY <1>1, FinishedAdded DEF NoneEnds
<1>4. /\ \A i \in DOMAIN channel' : channel'[i].turn = Current(session)
      /\ \A i \in DOMAIN channel : i \in DOMAIN channel' /\ channel'[i] = channel[i]
      /\ channel' # <<>>
  <2> DEFINE c == channel \o es
  <2>1. /\ \A i \in DOMAIN channel : i \in DOMAIN c /\ c[i] = channel[i]
        /\ \A i \in DOMAIN c : \/ i \in DOMAIN channel /\ c[i] = channel[i]
                               \/ i - Len(channel) \in DOMAIN es /\ c[i] = es[i - Len(channel)]
        /\ c # <<>>
    BY <1>1, EventsAdded
  <2> HIDE DEF c
  <2>2. channel' = c
    BY DEF c
  <2> QED BY <1>1, <2>1, <2>2 DEF Led, Token, ToldIsThere
<1>5. \A h \in Handlers : NoneFinished(hand'[h])
  BY <1>1 DEF NoneEnds
<1>6. OneCarries' /\ CarriedIsThere' /\ AskedIsIdle' /\ SubmittedIsThere'
  BY <1>1, <1>2 DEF OneCarries, CarriedIsThere, AskedIsIdle, SubmittedIsThere
<1>7. RunningIsThere'
  BY <1>1, <1>3, <1>5 DEF RunningIsThere, NoneEnds
<1>8. ToldIsThere' /\ Somewhere'
  BY <1>3, <1>4 DEF ToldIsThere, Somewhere, CoreIdle
<1>9. EndIsThere'
  BY <1>5 DEF EndIsThere, NoneFinished, FinishedLast
<1>10. Sending'
  <2>1. session.dispatching # NoTurn => Announced /\ NoneFinished(hand["lane"])
    BY DEF Led, Sending
  <2>2. session.dispatching # NoTurn => Announced'
    BY <1>4, <2>1 DEF Announced
  <2> QED BY <1>1, <1>2, <2>1, <2>2 DEF Sending
<1> QED BY <1>6, <1>7, <1>8, <1>9, <1>10, CoreStepLeads DEF Token

LEMMA CoreCloseLeads ==
    ASSUME Types, Types', Grown, Led, NEW how \in Outcomes, CoreClose(how)
    PROVE  Led'
<1> DEFINE projected == Event("projected", core.run.turn, {}, how)
           unconsumed == Event("unconsumed", core.run.turn, core.mail, how)
           es == <<projected>> \o (IF core.mail = {} THEN <<>> ELSE <<unconsumed>>)
<1>1. /\ core'.queue = core.queue /\ core'.run = core.run /\ core.run # NoRun
      /\ core'.known = core.known /\ projected \in EventType /\ unconsumed \in EventType
      /\ channel' = channel \o es /\ UNCHANGED <<session, hand, pc, hist>>
  BY CoreCloseEffect, Unpacked DEF CoreClose
<1>2. /\ projected.kind = "projected" /\ projected.turn = core.run.turn
      /\ unconsumed.kind = "unconsumed" /\ unconsumed.turn = core.run.turn
  BY DEF Event
<1> HIDE DEF projected, unconsumed
<1>3. /\ es \in Seq(EventType) /\ es # <<>>
      /\ \A i \in DOMAIN es : es[i] \in {projected, unconsumed}
  BY <1>1
<1> HIDE DEF es
<1>4. /\ \A i \in DOMAIN es : es[i].turn = core.run.turn
      /\ FinishedLast(es) /\ NoneFinished(es)
  BY <1>2, <1>3 DEF FinishedLast, NoneFinished
<1> QED BY <1>1, <1>3, <1>4, CoreTellsLeads

LEMMA CoreFinishLeads ==
    ASSUME Types, Types', Grown, Led, CoreFinish
    PROVE  Led'
<1> DEFINE e == Event("finished", core.run.turn, {}, core.closing)
           es == <<e>>
<1>1. /\ core'.queue = core.queue /\ core'.run = NoRun /\ core.run # NoRun
      /\ core'.known = core.known /\ e \in EventType
      /\ channel' = channel \o es /\ UNCHANGED <<session, hand, pc, hist>>
  BY CoreFinishEffect, Unpacked DEF CoreFinish
<1>2. e.kind = "finished" /\ e.turn = core.run.turn
  BY DEF Event
<1> HIDE DEF e
<1>3. es \in Seq(EventType) /\ es # <<>> /\ DOMAIN es = {1} /\ es[1] = e /\ Len(es) = 1
  BY <1>1
<1> HIDE DEF es
<1>4. /\ \A i \in DOMAIN es : es[i].turn = core.run.turn
      /\ FinishedLast(es) /\ ~NoneFinished(es)
  BY <1>2, <1>3 DEF FinishedLast, NoneFinished
<1> QED BY <1>1, <1>3, <1>4, CoreTellsLeads

(* What handling an event is, for what follows. *)
LEMMA HandlingEffect ==
    ASSUME Types, NEW h \in Handlers, NEW kind, Handle(h, kind)
    PROVE  /\ hand[h] # <<>> /\ hand[h][1].kind = kind /\ hand[h] \in Seq(EventType)
           /\ hand[h][1] \in EventType /\ Head(hand[h]) = hand[h][1]
           /\ channel' = channel /\ core' = core /\ hand'[h] = Tail(hand[h])
           /\ \A g \in Handlers : g # h => hand'[g] = hand[g]
           /\ hist'.stranded = hist.stranded
<1>1. /\ hand[h] # <<>> /\ hand[h][1].kind = kind /\ hand[h][1] \in EventType
      /\ Head(hand[h]) = hand[h][1] /\ channel' = channel /\ hand'[h] = Tail(hand[h])
      /\ \A g \in Handlers : g # h => hand'[g] = hand[g]
      /\ hist'.stranded = hist.stranded
  BY HandleEffect, Unpacked
<1>2. hand[h] \in Seq(EventType)
  BY Unpacked DEF EventsOK
<1>3. core' = core
  BY DEF Handle
<1> QED BY <1>1, <1>2, <1>3

LEMMA DrainLeads ==
    ASSUME Types, Types', Grown, Led, NEW h \in Handlers, Drain(h)
    PROVE  Led'
<1>1. /\ UNCHANGED <<session, core, pc>> /\ hand[h] = <<>> /\ channel # <<>> /\ channel' = <<>>
      /\ hand'[h] = channel /\ \A g \in Handlers : g # h => hand'[g] = hand[g]
      /\ h = "lane" => HasActive(session)
  BY DrainEffect, Unpacked DEF Drain
<1>2. hist'.stranded = hist.stranded
  <2>1. hist' = [hist EXCEPT !.elder = hist'.elder]
    BY DrainEffect, Unpacked
  <2> QED BY <2>1, Unpacked DEF HistType
<1>3. /\ ~CoreIdle /\ session.asking = NoTurn /\ core.queue = <<>>
      /\ \A p \in Threads : ~Carries(p) /\ ~Carries(p)'
  BY <1>1, NobodyCarries DEF Led, Token, CoreIdle, SubmittedIsThere, Carries
<1>4. NoneFinished(hand[h])
  BY <1>1 DEF NoneFinished
<1>5. \A g \in Handlers : NoneFinished(hand[g])
  BY <1>1 DEF Led, Token, EndIsThere
<1>6. (NoneEnds' <=> NoneFinished(channel)) /\ (NoneEnds <=> NoneFinished(channel))
  <2>1. NoneFinished(channel')
    BY <1>1 DEF NoneFinished
  <2> QED BY <1>1, <1>5, <2>1 DEF NoneEnds
<1>7. core.run = NoRun => ~NoneEnds'
  BY <1>1, <1>6 DEF Led, Token, ToldIsThere
<1>8. OneCarries' /\ CarriedIsThere' /\ AskedIsIdle' /\ SubmittedIsThere'
  BY <1>1, <1>3 DEF OneCarries, CarriedIsThere, AskedIsIdle, SubmittedIsThere
<1>9. RunningIsThere' /\ ToldIsThere' /\ Somewhere'
  <2>1. FinishedLast(channel')
    BY <1>1 DEF FinishedLast
  <2> QED BY <1>1, <1>6, <1>7, <2>1
          DEF Led, Token, RunningIsThere, ToldIsThere, Somewhere, CoreIdle
<1>10. EndIsThere'
  <2> SUFFICES ASSUME NEW g \in Handlers
               PROVE  /\ \A i \in DOMAIN hand'[g] :
                           hand'[g][i].kind = "finished" => hand'[g][i].turn = Current(session')
                      /\ FinishedLast(hand'[g])
                      /\ ~NoneFinished(hand'[g]) =>
                           channel' = <<>> /\ \A k \in Handlers : k = g \/ NoneFinished(hand'[k])
    BY DEF EndIsThere
  <2>1. CASE g = h
    BY <1>1, <1>5, <2>1 DEF Led, Token, ToldIsThere
  <2>2. CASE g # h
    BY <1>1, <1>5, <2>2 DEF Led, Token, EndIsThere
  <2> QED BY <2>1, <2>2
<1>11. Sending'
  <2> SUFFICES ASSUME session.dispatching # NoTurn
               PROVE  /\ core.run # NoRun \/ ~NoneEnds' => Announced'
                      /\ NoneFinished(hand'["lane"])
    BY <1>1, <1>3 DEF Sending
  <2>1. h = "bridge"
    <3> SUFFICES ASSUME HasActive(session) PROVE FALSE
      BY <1>1 DEF Handlers
    <3>1. PICK i \in DOMAIN session.queue : session.queue[i].turn = session.dispatching
      BY Unpacked DEF Reserved
    <3>2. session.turns[session.dispatching] = "none"
      BY <3>1 DEF Led, Sound, ItemsUnlisted
    <3>3. Current(session) = session.dispatching
      BY CurrentOfSound, Unpacked DEF Led
    <3> QED BY <3>2, <3>3 DEF HasActive
  <2>2. NoneFinished(hand'["lane"])
    BY <1>1, <1>5, <2>1 DEF Handlers
  <2>3. ASSUME core.run # NoRun \/ ~NoneEnds' PROVE Announced'
    <3>1. Announced
      BY <1>6, <2>3 DEF Led, Sending
    <3>2. DOMAIN hand["bridge"] = {}
      BY <1>1, <2>1
    <3>3. \E i \in DOMAIN channel : channel[i].kind = "started" /\ channel[i].ids = Leaving(session)
      BY <3>1, <3>2 DEF Announced
    <3> QED BY <1>1, <2>1, <3>3 DEF Announced
  <2> QED BY <2>2, <2>3
<1> QED BY <1>1, <1>8, <1>9, <1>10, <1>11, CoreStepLeads DEF Token

(* An event that does not end a turn is handled, and the turn stays.        *)
LEMMA HandlingKeepsToken ==
    ASSUME Types, Types', Token, NEW h \in Handlers, NEW kind, kind # "finished", Handle(h, kind),
           \A p \in Threads : (Carries(p)' <=> Carries(p)) /\ (Carries(p) => pc'[p].turn = pc[p].turn),
           Current(session') = Current(session), session'.asking = session.asking
    PROVE  /\ Token' /\ NoneEnds' = NoneEnds
           /\ \A g \in Handlers : NoneFinished(hand'[g]) <=> NoneFinished(hand[g])
<1>1. /\ hand[h] # <<>> /\ hand[h][1].kind # "finished" /\ hand[h] \in Seq(EventType)
      /\ channel' = channel /\ core' = core /\ hand'[h] = Tail(hand[h])
      /\ \A g \in Handlers : g # h => hand'[g] = hand[g]
      /\ hist'.stranded = hist.stranded
  BY HandlingEffect
<1>2. \A g \in Handlers : NoneFinished(hand'[g]) <=> NoneFinished(hand[g])
  BY <1>1, FinishedBehind
<1>3. NoneEnds' <=> NoneEnds
  BY <1>1, <1>2 DEF NoneEnds
<1>4. CoreIdle' <=> CoreIdle
  BY <1>1, <1>3 DEF CoreIdle
<1>5. OneCarries' /\ CarriedIsThere' /\ AskedIsIdle' /\ SubmittedIsThere' /\ RunningIsThere'
  BY <1>1, <1>3, <1>4
     DEF Token, OneCarries, CarriedIsThere, AskedIsIdle, SubmittedIsThere, RunningIsThere
<1>6. ToldIsThere' /\ Somewhere'
  BY <1>1, <1>4 DEF Token, ToldIsThere, Somewhere
<1>7. EndIsThere'
  <2> SUFFICES ASSUME NEW g \in Handlers
               PROVE  /\ \A i \in DOMAIN hand'[g] :
                           hand'[g][i].kind = "finished" => hand'[g][i].turn = Current(session)
                      /\ FinishedLast(hand'[g])
    BY <1>1, <1>2 DEF Token, EndIsThere
  <2>1. CASE g # h
    BY <1>1, <2>1 DEF Token, EndIsThere
  <2>2. CASE g = h
    <3>1. FinishedLast(hand'[g])
      BY <1>1, <2>2, FinishedBehind DEF Token, EndIsThere
    <3>2. \A i \in DOMAIN hand'[h] : i + 1 \in DOMAIN hand[h] /\ hand'[h][i] = hand[h][i + 1]
      BY <1>1, EventsBehind
    <3> QED BY <2>2, <3>1, <3>2 DEF Token, EndIsThere
  <2> QED BY <2>1, <2>2
<1>8. NoneEnds' = NoneEnds
  BY <1>3 DEF NoneEnds, NoneFinished
<1> QED BY <1>2, <1>5, <1>6, <1>7, <1>8 DEF Token

(* The announcement is only taken by the bridge, in its own event.          *)
LEMMA StillAnnounced ==
    ASSUME Types, NEW h \in Handlers, NEW kind, Handle(h, kind), Leaving(session') = Leaving(session),
           Announced, kind # "started" \/ h = "lane" \/ hand[h][1].ids # Leaving(session)
    PROVE  Announced'
<1>1. /\ hand[h] # <<>> /\ hand[h][1].kind = kind /\ hand[h] \in Seq(EventType)
      /\ channel' = channel /\ hand'[h] = Tail(hand[h])
      /\ \A g \in Handlers : g # h => hand'[g] = hand[g]
  BY HandlingEffect
<1>2. CASE \E i \in DOMAIN channel : channel[i].kind = "started" /\ channel[i].ids = Leaving(session)
  BY <1>1, <1>2 DEF Announced
<1>3. ASSUME NEW i \in DOMAIN hand["bridge"],
             hand["bridge"][i].kind = "started", hand["bridge"][i].ids = Leaving(session)
      PROVE  Announced'
  <2>1. CASE h # "bridge"
    BY <1>1, <1>3, <2>1 DEF Announced, Handlers
  <2>2. CASE h = "bridge"
    <3>1. i # 1
      BY <1>1, <1>3, <2>2
    <3>2. i - 1 \in DOMAIN hand'[h] /\ hand[h][i] = hand'[h][i - 1]
      BY <1>1, <1>3, <2>2, <3>1, EventsBehind
    <3> QED BY <1>3, <2>2, <3>2 DEF Announced
  <2> QED BY <2>1, <2>2
<1> QED BY <1>2, <1>3 DEF Announced

(* The session's turn and queue stay too. *)
LEMMA HandlingLeads ==
    ASSUME Types, Types', Grown, Led, NEW h \in Handlers, NEW kind, kind # "finished", Handle(h, kind),
           Alone(h), SameBurden(h), Fitting(pc'[h]), Single(pc'[h]), HeldBy(pc'[h]) = HeldBy(pc[h]),
           SpareOf(h, pc'[h]) \subseteq SpareOf(h, pc[h]),
           Sound(session'), SameTurn(session', session),
           Waiting(session') = Waiting(session), Leaving(session') = Leaving(session),
           session.dispatching # NoTurn =>
             kind # "started" \/ h = "lane" \/ hand[h][1].ids # Leaving(session)
    PROVE  Led'
<1>1. h \in Threads /\ core' = core
  BY ThreadsApart DEF Handle
<1>2. /\ Current(session') = Current(session) /\ session'.dispatching = session.dispatching
      /\ session'.asking = session.asking /\ session'.askedFor = session.askedFor
  BY DEF SameTurn
<1>3. \A p \in Threads : SameBurden(p)
  BY <1>1, BurdenOfAll
<1>4. \A p \in Threads : (Carries(p)' <=> Carries(p)) /\ (Carries(p) => pc'[p].turn = pc[p].turn)
  BY <1>3 DEF SameBurden
<1>5. /\ Token' /\ NoneEnds' = NoneEnds
      /\ \A g \in Handlers : NoneFinished(hand'[g]) <=> NoneFinished(hand[g])
  BY <1>2, <1>4, HandlingKeepsToken DEF Led
<1>6. session.dispatching # NoTurn /\ Announced => Announced'
  BY StillAnnounced
<1>7. NoneFinished(hand'["lane"]) <=> NoneFinished(hand["lane"])
  BY <1>5 DEF Handlers
<1>8. Sending'
  <2>1. \A p \in Threads : Carries(p)' => (session'.dispatching # NoTurn <=> pc'[p].at \in SendingSteps)
    BY <1>2, <1>3 DEF Led, Sending, SameBurden
  <2>2. session'.dispatching # NoTurn => \A p \in Threads : Carries(p)' => pc'[p].ids = Leaving(session')
    BY <1>2, <1>3 DEF Led, Sending, SameBurden
  <2> QED BY <1>1, <1>2, <1>5, <1>6, <1>7, <2>1, <2>2 DEF Led, Sending
<1>9. Here(h)' = Here(h)
  BY <1>2 DEF Here, AskedIds
<1>10. Moved(h)
  BY <1>1, <1>9, MovedLess DEF Led
<1> QED BY <1>1, <1>5, <1>8, <1>10, ThreadStepLeads

LEMMA HandleProjectedLeads ==
    ASSUME Types, Types', Grown, Led, NEW h \in Handlers, HandleProjected(h)
    PROVE  Led'
<1>1. Handle(h, "projected") /\ Go(h, "dispatch") /\ h \in Threads /\ pc[h].at \in {"idle", "settle"}
  BY ThreadsApart DEF HandleProjected, Handle, Handling, At
<1>2. Alike(session', session)
  BY Unpacked DEF HandleProjected, SessionType, Alike
<1>3. /\ Sound(session') /\ SameTurn(session', session)
      /\ Waiting(session') = Waiting(session) /\ Leaving(session') = Leaving(session)
  BY <1>2, AlikeSessions DEF Led
<1>4. /\ "dispatch" \in Steps \ (CarryingSteps \cup RestoringSteps \cup {"append_now", "now"})
      /\ ~Speaking(h, "dispatch")
  BY AllSteps DEF CarryingSteps, RestoringSteps, SavingSteps, Speaking
<1>5. Light(h) /\ SpareOf(h, pc'[h]) \subseteq SpareOf(h, pc[h])
  BY <1>1, <1>4, GoLight
<1>6. /\ Alone(h) /\ Fitting(pc'[h]) /\ Single(pc'[h]) /\ ~Carries(h)' /\ HeldBy(pc'[h]) = {}
  BY <1>5, LightStep
<1>7. ~Carries(h) /\ HeldBy(pc[h]) = {} /\ SameBurden(h)
  BY <1>1, <1>6 DEF Carries, HeldBy, HoldingSteps, SameBurden
<1> QED BY <1>1, <1>3, <1>5, <1>6, <1>7, HandlingLeads

LEMMA HandleUnconsumedLeads ==
    ASSUME Types, Types', Grown, Led, NEW h \in Handlers, HandleUnconsumed(h)
    PROVE  Led'
<1>1. Handle(h, "unconsumed") /\ pc' = pc /\ h \in Threads
  BY ThreadsApart DEF HandleUnconsumed
<1>2. Alike(session', session)
  BY Unpacked DEF HandleUnconsumed, SessionType, Alike
<1>3. /\ Sound(session') /\ SameTurn(session', session)
      /\ Waiting(session') = Waiting(session) /\ Leaving(session') = Leaving(session)
  BY <1>2, AlikeSessions DEF Led
<1>4. /\ Alone(h) /\ Fitting(pc'[h]) /\ Single(pc'[h]) /\ SameBurden(h)
      /\ HeldBy(pc'[h]) = HeldBy(pc[h]) /\ SpareOf(h, pc'[h]) \subseteq SpareOf(h, pc[h])
  BY <1>1, StillAlone
<1> QED BY <1>1, <1>3, <1>4, HandlingLeads

(* The start of the message that is being sent takes it from the queue.    *)
LEMMA LeavingIs ==
    ASSUME NEW s \in SessionType, Reserved(s), Sound(s), s.dispatching # NoTurn
    PROVE  \E i \in DOMAIN s.queue :
             /\ s.queue[i].turn = s.dispatching /\ Leaving(s) = {s.queue[i].id}
             /\ s.turns[s.dispatching] = "none"
<1>1. PICK i \in DOMAIN s.queue : s.queue[i].turn = s.dispatching
  BY DEF Reserved
<1>2. \A j \in DOMAIN s.queue : s.queue[j].turn = s.dispatching => j = i
  BY <1>1 DEF Sound, ItemsDiffer
<1>3. s.queue[i].id \in Names
  BY QueueOf
<1>4. ASSUME NEW x PROVE x \in Leaving(s) <=> x \in {s.queue[i].id}
  BY <1>1, <1>2, <1>3 DEF Leaving
<1>5. s.turns[s.dispatching] = "none"
  BY <1>1 DEF Sound, ItemsUnlisted
<1> QED BY <1>1, <1>4, <1>5

LEMMA QueuedLeaving ==
    ASSUME NEW s \in SessionType, Reserved(s), Sound(s), s.dispatching # NoTurn
    PROVE  IsQueued(s, Leaving(s)) /\ Queued(s, Leaving(s)).turn = s.dispatching
<1> DEFINE ids == Leaving(s)
<1>1. PICK i \in DOMAIN s.queue : s.queue[i].turn = s.dispatching /\ ids = {s.queue[i].id}
  BY LeavingIs
<1> HIDE DEF ids
<1>2. IsQueued(s, ids)
  BY <1>1 DEF IsQueued
<1>3. Place(s, ids) \in DOMAIN s.queue /\ s.queue[Place(s, ids)].id \in ids
  BY <1>2, PlaceOfQueued
<1>4. Place(s, ids) = i
  BY <1>1, <1>3 DEF Sound, ItemsDiffer
<1> QED BY <1>1, <1>2, <1>4 DEF Queued, ids

LEMMA ActivatesLeaving ==
    ASSUME NEW s \in SessionType, Reserved(s), Sound(s), s.dispatching # NoTurn
    PROVE  Activated(s, Leaving(s)).dispatching = NoTurn
<1> DEFINE ids == Leaving(s)
           t == s.dispatching
           u == Unqueued(s, ids)
           m == Materialized(s, ids)
<1>1. IsQueued(s, ids) /\ Queued(s, ids).turn = t /\ t \in Turns
  BY QueuedLeaving DEF SessionType, MaybeTurn
<1>2. ids # {}
  BY LeavingIs
<1>3. StartedTurn(s, ids) = t
  BY <1>1, <1>2 DEF StartedTurn
<1>4. u \in SessionType
  BY <1>1, UnqueuedEffect
<1>5. m = [u EXCEPT !.dispatching = NoTurn, !.turns[t] = "pending", !.entries[t] = ids]
  BY <1>1 DEF Materialized
<1> HIDE DEF u, m, ids, t
<1>6. m.turns[t] = "pending" /\ m.dispatching = NoTurn
  BY <1>1, <1>4, <1>5 DEF SessionType
<1>7. Activated(s, ids) = [m EXCEPT !.pending = IF @ = t THEN NoTurn ELSE @, !.active = t,
                                    !.turns[t] = IF @ = "done" THEN @ ELSE "working"]
  <2>1. t # NoTurn
    BY DEF t
  <2> QED BY <1>1, <1>3, <1>6, <2>1 DEF Activated, m
<1>8. m \in SessionType
  BY <1>1, <1>4, <1>5, ZenonT(60) DEF SessionType, MaybeTurn, ids, Leaving
<1>9. Activated(s, ids).dispatching = m.dispatching
  BY <1>7, <1>8 DEF SessionType
<1> QED BY <1>6, <1>9 DEF ids

(* Any other start is of the turn that is there.                            *)
LEMMA StartedIsCurrent ==
    ASSUME NEW s \in SessionType, Sound(s), NEW ids, ~IsQueued(s, ids), StartedTurn(s, ids) # NoTurn
    PROVE  StartedTurn(s, ids) = Current(s)
<1>1. s.active = NoTurn \/ s.pending = NoTurn
  BY DEF Sound, OneThere
<1>2. CASE ids = {}
  <2>1. Current([s EXCEPT !.active = s.pending, !.pending = s.active])
          = IF s.pending # NoTurn THEN s.pending ELSE s.active
    BY DEF Current, SessionType
  <2> QED BY <1>1, <1>2, <2>1 DEF StartedTurn, Current
<1>3. CASE ids # {}
  BY <1>1, <1>3 DEF StartedTurn, Current
<1> QED BY <1>2, <1>3

LEMMA ActivatedSession ==
    ASSUME session \in SessionType, Reserved(session), Sound(session), NEW t \in Turns, NEW ids,
           t = StartedTurn(session, ids), ~IsQueued(session, ids),
           session' \in SessionType, session'.active = t,
           session'.pending = (IF session.pending = t THEN NoTurn ELSE session.pending),
           session'.asking = session.asking, session'.askedFor = session.askedFor,
           ActivatesTurn(session', session, t)
    PROVE  /\ Sound(session') /\ SameTurn(session', session) /\ session.dispatching = NoTurn
           /\ Waiting(session') = Waiting(session) /\ Leaving(session') = Leaving(session)
<1>1. t = Current(session) /\ t # NoTurn
  BY StartedIsCurrent DEF Turns, NoTurn
<1>2. session.dispatching = NoTurn
  <2> SUFFICES ASSUME session.dispatching # NoTurn PROVE FALSE
    OBVIOUS
  <2>1. session.turns[session.dispatching] = "none"
    BY LeavingIs
  <2>2. session.dispatching = t
    BY <1>1, CurrentOfSound
  <2> QED BY <2>1, <2>2 DEF ActivatesTurn
<1>3. session'.pending = NoTurn /\ Current(session') = t
  BY <1>1 DEF Current, Sound, OneThere
<1>4. session'.queue = session.queue /\ session'.dispatching = session.dispatching
  BY DEF ActivatesTurn
<1>5. ItemsUnlisted(session')
  <2> SUFFICES ASSUME NEW i \in DOMAIN session.queue
               PROVE  session'.turns[session.queue[i].turn] = "none"
    BY <1>4 DEF ItemsUnlisted
  <2>1. session.turns[session.queue[i].turn] = "none" /\ session.queue[i].turn \in Turns
    BY QueueOf DEF Sound, ItemsUnlisted
  <2>2. session.queue[i].turn # t
    BY <2>1 DEF ActivatesTurn
  <2> QED BY <2>1, <2>2 DEF ActivatesTurn, SessionType
<1>6. ActiveListed(session')
  BY DEF ActiveListed, ActivatesTurn, SessionType
<1>7. Sound(session')
  BY <1>1, <1>2, <1>3, <1>4, <1>5, <1>6 DEF Sound, OneThere, DispatchedThere, AskedThere, ItemsDiffer
<1> QED BY <1>1, <1>2, <1>3, <1>4, <1>7 DEF SameTurn, Waiting, Leaving

LEMMA MaterializedSession ==
    ASSUME session \in SessionType, Reserved(session), Sound(session), NEW t \in Turns, NEW ids,
           session' \in SessionType, session'.active = t,
           session'.pending = (IF session.pending = t THEN NoTurn ELSE session.pending),
           session'.asking = session.asking, session'.askedFor = session.askedFor,
           ActivatesQueued(session', session, t, ids)
    PROVE  /\ Sound(session') /\ Current(session') = Current(session)
           /\ session.asking = NoTurn /\ session'.dispatching = NoTurn
           /\ Waiting(session') = Waiting(session) /\ Leaving(session') = {}
<1> DEFINE k == Place(session, ids)
           q == RemoveAt(session.queue, k)
<1>1. /\ IsQueued(session, ids) /\ t = session.queue[k].turn /\ session.dispatching = t /\ t # NoTurn
      /\ session'.queue = q /\ session'.dispatching = NoTurn
      /\ session'.turns = [session.turns EXCEPT ![t] = "working"]
  BY DEF ActivatesQueued, Queued, Turns, NoTurn
<1>2. /\ \A j \in DOMAIN session.queue : j # k => \E i \in DOMAIN q : q[i] = session.queue[j]
      /\ \A i \in DOMAIN q : \E j \in DOMAIN session.queue : j # k /\ q[i] = session.queue[j]
      /\ \A i, j \in DOMAIN q : i # j =>
           \E m, n \in DOMAIN session.queue : m # n /\ q[i] = session.queue[m] /\ q[j] = session.queue[n]
  <2>1. session \in SessionType /\ IsQueued(session, ids)
    BY <1>1
  <2> HIDE DEF k
  <2> QED BY ONLY <2>1, UnqueuedItems DEF k
<1>3. k \in DOMAIN session.queue
  BY <1>1, PlaceOfQueued
<1> HIDE DEF k, q
<1>4. Current(session) = t /\ session.active = NoTurn /\ session.pending = t /\ session.asking = NoTurn
  BY <1>1, CurrentOfSound DEF Sound, DispatchedThere, AskedThere
<1>5. session'.pending = NoTurn /\ Current(session') = t
  BY <1>4, <1>1 DEF Current
<1>6. ItemsDiffer(session')
  <2> SUFFICES ASSUME NEW i \in DOMAIN q, NEW j \in DOMAIN q, i # j
               PROVE  q[i].id # q[j].id /\ q[i].turn # q[j].turn
    BY <1>1 DEF ItemsDiffer
  <2> QED BY <1>2 DEF Sound, ItemsDiffer
<1>7. \A j \in DOMAIN session.queue : j # k => session.queue[j].turn # t
  BY <1>1, <1>3 DEF Sound, ItemsDiffer
<1>8. ItemsUnlisted(session')
  <2> SUFFICES ASSUME NEW i \in DOMAIN q PROVE session'.turns[q[i].turn] = "none"
    BY <1>1 DEF ItemsUnlisted
  <2>1. PICK j \in DOMAIN session.queue : j # k /\ q[i] = session.queue[j]
    BY <1>2
  <2>2. session.turns[session.queue[j].turn] = "none" /\ session.queue[j].turn \in Turns
    BY QueueOf DEF Sound, ItemsUnlisted
  <2> QED BY <1>1, <1>7, <2>1, <2>2 DEF SessionType
<1>9. ActiveListed(session')
  BY <1>1 DEF ActiveListed, SessionType
<1>10. Sound(session')
  BY <1>1, <1>4, <1>5, <1>6, <1>8, <1>9 DEF Sound, OneThere, DispatchedThere, AskedThere
<1>11. \A i \in DOMAIN q : q[i].turn # NoTurn
  BY <1>1, QueueOf
<1>12. ASSUME NEW x PROVE x \in Waiting(session') <=> x \in Waiting(session)
  <2>1. x \in Waiting(session') <=> x \in Names /\ \E i \in DOMAIN q : q[i].id = x
    BY <1>1, <1>11 DEF Waiting
  <2>2. x \in Waiting(session) <=> x \in Names /\ \E j \in DOMAIN session.queue :
                                                    j # k /\ session.queue[j].id = x
    BY <1>1, <1>7 DEF Waiting
  <2> QED BY <1>2, <2>1, <2>2
<1>13. Leaving(session') = {}
  BY <1>1, <1>11 DEF Leaving
<1>14. Waiting(session') = Waiting(session)
  BY <1>12
<1> QED BY <1>1, <1>4, <1>5, <1>10, <1>13, <1>14

LEMMA HandleStartedLeads ==
    ASSUME Types, Types', Grown, Led, NEW h \in Handlers, HandleStarted(h)
    PROVE  Led'
<1> DEFINE ids == hand[h][1].ids
<1>1. /\ Handle(h, "started") /\ pc' = pc /\ h \in Threads
      /\ session' = Activated(session, Head(hand[h]).ids)
  BY ThreadsApart DEF HandleStarted
<1>2. /\ hand[h] # <<>> /\ hand[h] \in Seq(EventType) /\ hand[h][1] \in EventType
      /\ Head(hand[h]) = hand[h][1] /\ core' = core /\ hist'.stranded = hist.stranded
  BY <1>1, HandlingEffect
<1>3. ids \in SUBSET Names /\ session' = Activated(session, ids) /\ Sound(session)
  BY <1>1, <1>2 DEF EventType, Led
<1>4. /\ Alone(h) /\ Fitting(pc'[h]) /\ Single(pc'[h]) /\ SameBurden(h)
      /\ HeldBy(pc'[h]) = HeldBy(pc[h]) /\ SpareOf(h, pc'[h]) = SpareOf(h, pc[h])
  BY <1>1, StillAlone
<1>5. ids \subseteq core.known
  <2>1. hand[h][1] \in ToSet(hand[h])
    BY <1>2, ElementsOfTail
  <2>2. hand[h][1] \in Underway
    BY <2>1 DEF Underway
  <2> QED BY <2>2 DEF Grown
<1> HIDE DEF ids
<1>6. CASE session' = session
  <2>1. session.dispatching # NoTurn => hand[h][1].ids # Leaving(session)
    BY <1>3, <1>6, ActivatesLeaving, Unpacked DEF ids
  <2>2. SameTurn(session', session)
    BY <1>6 DEF SameTurn
  <2>3. Sound(session') /\ Waiting(session') = Waiting(session) /\ Leaving(session') = Leaving(session)
    BY <1>3, <1>6
  <2> QED BY <1>1, <1>4, <2>1, <2>2, <2>3, HandlingLeads
<1>7. CASE session' # session
  <2>1. PICK t \in Turns :
          /\ t = StartedTurn(session, ids) /\ session' \in SessionType /\ session'.active = t
          /\ session'.pending = (IF session.pending = t THEN NoTurn ELSE session.pending)
          /\ session'.asking = session.asking /\ session'.askedFor = session.askedFor
          /\ \/ ~IsQueued(session, ids) /\ ActivatesTurn(session', session, t)
             \/ ActivatesQueued(session', session, t, ids)
    BY <1>3, <1>7, ActivatedEffect, Unpacked
  <2>2. CASE ~IsQueued(session, ids) /\ ActivatesTurn(session', session, t)
    <3>1. /\ Sound(session') /\ SameTurn(session', session) /\ session.dispatching = NoTurn
          /\ Waiting(session') = Waiting(session) /\ Leaving(session') = Leaving(session)
      BY <1>3, <2>1, <2>2, ActivatedSession, Unpacked
    <3> QED BY <1>1, <1>4, <3>1, HandlingLeads
  <2>3. CASE ActivatesQueued(session', session, t, ids)
    <3>1. /\ Sound(session') /\ Current(session') = Current(session)
          /\ session.asking = NoTurn /\ session'.dispatching = NoTurn
          /\ Waiting(session') = Waiting(session) /\ Leaving(session') = {}
      BY <1>3, <2>1, <2>3, MaterializedSession, Unpacked
    <3>2. session.dispatching # NoTurn
      BY <2>3 DEF ActivatesQueued, Turns, NoTurn
    <3>3. ASSUME NEW p \in Threads PROVE ~Carries(p)
      <4> SUFFICES ASSUME Carries(p) PROVE FALSE
        OBVIOUS
      <4>1. pc[p].at \in SendingSteps /\ pc[p].ids = Leaving(session)
        BY <3>2 DEF Led, Sending
      <4>2. PICK i \in DOMAIN session.queue :
              session.queue[i].turn = session.dispatching /\ Leaving(session) = {session.queue[i].id}
        BY <1>3, <3>2, LeavingIs, Unpacked
      <4>3. Place(session, ids) \in DOMAIN session.queue /\ session.queue[Place(session, ids)].id \in ids
        BY <2>3, PlaceOfQueued DEF ActivatesQueued
      <4>4. session.queue[Place(session, ids)].turn = session.dispatching
        BY <2>3 DEF ActivatesQueued, Queued
      <4>5. Place(session, ids) = i
        BY <1>3, <4>2, <4>3, <4>4 DEF Sound, ItemsDiffer
      <4>6. session.queue[i].id \in HeldBy(pc[p]) /\ session.queue[i].id \in core.known
        BY <1>5, <4>1, <4>2, <4>3, <4>5 DEF HeldBy, HoldingSteps, SendingSteps
      <4> QED BY <4>6 DEF Led, Apart, HeldApart, IsHeld
    <3>4. \A p \in Threads : ~Carries(p)'
      BY <1>1, <3>3 DEF Carries
    <3>5. \A p \in Threads : (Carries(p)' <=> Carries(p)) /\ (Carries(p) => pc'[p].turn = pc[p].turn)
      BY <3>3, <3>4
    <3>6. Token'
      <4>1. session'.asking = session.asking /\ "started" # "finished"
        BY <2>1
      <4> QED BY <1>1, <3>1, <3>5, <4>1, HandlingKeepsToken DEF Led
    <3>7. Sending'
      BY <3>1, <3>4 DEF Sending
    <3>8. Here(h)' = Here(h)
      BY <1>4, <2>1 DEF Here, AskedIds
    <3>9. Moved(h)
      <4>1. Leaving(session') \subseteq Leaving(session) /\ core'.known = core.known
        BY <1>2, <3>1
      <4> QED BY <1>1, <1>4, <3>1, <3>8, <4>1, MovedLess DEF Led
    <3> QED BY <1>1, <1>4, <3>1, <3>6, <3>7, <3>9, ThreadStepLeads
  <2> QED BY <2>1, <2>2, <2>3
<1> QED BY <1>6, <1>7

(* Whatever turn is there ends with it. *)
LEMMA HandleFinishedLeads ==
    ASSUME Types, Types', Grown, Led, NEW h \in Handlers, HandleFinished(h)
    PROVE  Led'
<1> DEFINE x == Then(Head(hand[h]).how)
<1>1. /\ Handle(h, "finished") /\ h \in Threads /\ pc[h].at \in {"idle", "settle"}
      /\ session' = Finished(session) /\ Go(h, x)
  BY ThreadsApart DEF HandleFinished, Handle, Handling, At
<1>2. x \in {"resubmit", "dispatch"}
  BY DEF Then
<1> HIDE DEF x
<1>3. /\ hand[h] # <<>> /\ hand[h][1].kind = "finished" /\ hand[h] \in Seq(EventType)
      /\ channel' = channel /\ core' = core /\ hand'[h] = Tail(hand[h])
      /\ \A g \in Handlers : g # h => hand'[g] = hand[g]
      /\ hist'.stranded = hist.stranded /\ 1 \in DOMAIN hand[h]
  BY <1>1, HandlingEffect
<1>4. ~NoneFinished(hand[h]) /\ FinishedLast(hand[h]) /\ channel = <<>>
      /\ \A g \in Handlers : g = h \/ NoneFinished(hand[g])
  BY <1>3 DEF NoneFinished, Led, Token, EndIsThere
<1>5. Len(hand[h]) = 1 /\ hand'[h] = <<>>
  BY <1>3, <1>4, FinishedBehind
<1>6. ~NoneEnds /\ ~CoreIdle
  BY <1>4 DEF NoneEnds, CoreIdle
<1>7. core.run = NoRun /\ core.queue = <<>>
  BY <1>6 DEF Led, Token, RunningIsThere, SubmittedIsThere
<1>8. session.asking = NoTurn /\ \A p \in Threads : ~Carries(p)
  BY <1>6, NobodyCarries DEF Led
<1>9. CoreIdle'
  <2>1. \A g \in Handlers : NoneFinished(hand'[g])
    BY <1>3, <1>4, <1>5 DEF NoneFinished
  <2>2. NoneFinished(channel')
    BY <1>3, <1>4 DEF NoneFinished
  <2> QED BY <1>3, <1>4, <1>7, <2>1, <2>2 DEF CoreIdle, NoneEnds
<1>10. session.dispatching = NoTurn
  <2> SUFFICES ASSUME session.dispatching # NoTurn PROVE FALSE
    OBVIOUS
  <2>1. NoneFinished(hand["lane"]) /\ Announced
    BY <1>6 DEF Led, Sending
  <2>2. h = "bridge"
    BY <1>4, <2>1 DEF Handlers
  <2>3. PICK i \in DOMAIN hand["bridge"] : hand["bridge"][i].kind = "started"
    BY <1>4, <2>1 DEF Announced
  <2>4. i = 1
    BY <1>3, <1>5, <2>2, <2>3
  <2> QED BY <1>3, <2>2, <2>3, <2>4
<1> DEFINE s == Finished(session)
<1>11. /\ s.queue = session.queue /\ s.dispatching = session.dispatching
       /\ s.pending = NoTurn /\ s.active = NoTurn /\ s.asking = session.asking
       /\ s.askedFor = session.askedFor
       /\ s.turns = (IF session.active = NoTurn THEN session.turns
                     ELSE [session.turns EXCEPT ![session.active] = "done"])
  BY FinishedEffect, Unpacked DEF SameQueue
<1>12. session' = s
  BY <1>1
<1> HIDE DEF s
<1>13. ItemsUnlisted(session')
  <2> SUFFICES ASSUME NEW i \in DOMAIN session.queue
               PROVE  session'.turns[session.queue[i].turn] = "none"
    BY <1>11, <1>12 DEF ItemsUnlisted
  <2>1. session.turns[session.queue[i].turn] = "none" /\ session.queue[i].turn \in Turns
    BY QueueOf, Unpacked DEF Led, Sound, ItemsUnlisted
  <2>2. session.active # NoTurn => session.queue[i].turn # session.active
    BY <2>1 DEF Led, Sound, ActiveListed
  <2> QED BY <1>11, <1>12, <2>1, <2>2, Unpacked DEF SessionType
<1>14. Sound(session')
  BY <1>8, <1>10, <1>11, <1>12, <1>13
     DEF Led, Sound, OneThere, DispatchedThere, AskedThere, ItemsDiffer, ActiveListed
<1>15. Current(session') = NoTurn /\ session'.dispatching = NoTurn /\ session'.asking = NoTurn
  BY <1>8, <1>10, <1>11, <1>12 DEF Current
<1>16. /\ x \in Steps \ (CarryingSteps \cup RestoringSteps \cup {"append_now", "now"})
       /\ ~Speaking(h, x)
  <2>1. "dispatch" \in Steps /\ "resubmit" \in Steps
    BY AllSteps DEF HandoffSteps
  <2>2. x \in Steps
    BY <1>2, <2>1
  <2> QED BY <1>2, <2>2 DEF CarryingSteps, RestoringSteps, SavingSteps, Speaking
<1>17. Light(h) /\ SpareOf(h, pc'[h]) \subseteq SpareOf(h, pc[h])
  BY <1>1, <1>16, GoLight
<1>18. /\ Alone(h) /\ Fitting(pc'[h]) /\ Single(pc'[h]) /\ ~Carries(h)' /\ HeldBy(pc'[h]) = {}
  BY <1>17, LightStep
<1>19. \A p \in Threads : ~Carries(p)'
  BY <1>8, <1>18 DEF Alone, Carries
<1>20. Token' /\ Sending'
  <2>1. OneCarries'
    BY <1>19 DEF OneCarries
  <2> QED BY <1>9, <1>15, <1>19, <2>1, TokenWhenIdle, SendingWhenIdle
<1>21. Moved(h)
  <2>1. Waiting(session') = Waiting(session) /\ Leaving(session') = Leaving(session)
    BY <1>11, <1>12 DEF Waiting, Leaving
  <2>2. Here(h)' \subseteq Here(h)
    BY <1>15, <1>18 DEF Here, AskedIds
  <2> QED BY <1>1, <1>3, <1>17, <2>1, <2>2, MovedLess DEF Led
<1> QED BY <1>1, <1>14, <1>18, <1>20, <1>21, ThreadStepLeads

-----------------------------------------------------------------------------
(* What disturbs the session is not forgotten, and nothing is undone but   *)
(* by a save that fails.                                                    *)

Faultless == ~hist.hurried /\ hist.faults = 0
UndoneByFault == hist.undone => hist.faults # 0
Remembers ==
  /\ Steady' => Steady
  /\ Faultless' => Faultless
  /\ UndoneByFault => UndoneByFault'
  /\ hist.overtaken => hist'.overtaken

LEMMA NextIsNotZero == \A n \in Nat : n + 1 # 0
OBVIOUS

LEMMA HistRemembers ==
    ASSUME hist \in HistType,
           \/ hist' = hist \/ hist' = Failed(hist) \/ hist' = Made(hist)
           \/ \E t : Strand(t)
           \/ \E c : hist' = [hist EXCEPT !.sent = @ \cup {c}]
           \/ \E b : hist' = [hist EXCEPT !.hurried = @ \/ b]
           \/ \E b : hist' = [Failed(hist) EXCEPT !.undone = @ \/ b]
           \/ \E ids : hist' = [hist EXCEPT !.reached = @ \cup ids]
           \/ \E ids : hist' = [hist EXCEPT !.accepted = @ \cup ids]
           \/ \E last : hist' = [hist EXCEPT !.stops = @ + 1, !.last = last]
    PROVE  Remembers
<1>1. /\ (hist.undone => hist'.undone) /\ (hist.hurried => hist'.hurried)
      /\ (hist.overtaken => hist'.overtaken)
  BY DEF HistType, Failed, Made, Strand
<1>2. \/ hist'.faults = hist.faults /\ hist'.undone = hist.undone
      \/ hist'.faults = hist.faults + 1
  BY DEF HistType, Failed, Made, Strand
<1>3. hist.faults \in Nat
  BY DEF HistType
<1>4. hist'.faults = hist.faults + 1 => hist'.faults # 0
  BY ONLY <1>3, NextIsNotZero, Zenon
<1> QED BY <1>1, <1>2, <1>4, Zenon DEF Remembers, Steady, Faultless, UndoneByFault

LEMMA HistoryStep ==
    ASSUME Types, [Next]_vars
    PROVE  Remembers
<1>1. CASE UNCHANGED vars
  BY <1>1 DEF vars, Remembers, Steady, Faultless, UndoneByFault
<1>2. ASSUME NEW p \in Threads,
             \/ DispatchNext(p) \/ Start(p) \/ Ask(p) \/ Resolve(p) \/ Enqueue(p)
             \/ Note \/ AppendEntry \/ Settled \/ SupplementNow \/ StopCore
             \/ CoreStart \/ CoreFinish \/ (\E how \in Outcomes : CoreClose(how))
             \/ (\E item \in ToSet(session.queue) : SendNow(item)) \/ Resubmit(p) \/ Handoff(p)
      PROVE  Remembers
  <2>1. hist' = hist \/ hist' = Made(hist)
    BY <1>2 DEF DispatchNext, Start, Ask, Resolve, Enqueue, Note, AppendEntry, Settled, SupplementNow,
       StopCore, CoreStart, CoreFinish, CoreClose, SendNow, Resubmit, Handoff
  <2> QED BY <2>1, HistRemembers, Unpacked
<1>3. ASSUME NEW p \in Threads,
             \/ SendQueued(p) \/ Send(p) \/ ResolveSend(p) \/ NowSaved \/ CoreTake \/ EntrySaved
      PROVE  Remembers
  <2>1. \/ hist' = hist \/ hist' = Failed(hist) \/ (\E t : Strand(t))
        \/ (\E ids : hist' = [hist EXCEPT !.reached = @ \cup ids])
        \/ (\E ids : hist' = [hist EXCEPT !.accepted = @ \cup ids])
        \/ PutBack("lane")
    BY <1>3 DEF SendQueued, Send, ResolveSend, NowSaved, CoreTake, EntrySaved, SubmitToCore
  <2> QED BY <2>1, HistRemembers, Unpacked DEF PutBack
<1>4. ASSUME NEW p \in Threads,
             TurnSaved(p) \/ QueueSaved(p) \/ NoteSaved \/ StopSaved
      PROVE  Remembers
  <2>1. hist' = hist \/ PutBack(p) \/ PutBack("lane")
    BY <1>4 DEF TurnSaved, QueueSaved, NoteSaved, StopSaved
  <2> QED BY <2>1, HistRemembers, Unpacked DEF PutBack
<1>5. ASSUME NEW h \in Handlers, HandoffSaved(h) \/ SendHandoff(h)
      PROVE  Remembers
  <2>1. \/ hist' = hist \/ (\E t : Strand(t)) \/ HandoffFails(h)
        \/ (\E ids : hist' = [hist EXCEPT !.reached = @ \cup ids])
    BY <1>5 DEF HandoffSaved, SendHandoff, SubmitToCore
  <2> QED BY <2>1, HistRemembers, Unpacked DEF HandoffFails
<1>6. ASSUME NEW c, Submit(c) \/ Supplement(c) \/ Fire(c)
      PROVE  Remembers
  <2>1. hist' = [hist EXCEPT !.sent = @ \cup {c}]
    BY <1>6 DEF Submit, Supplement, Fire
  <2> QED BY <2>1, HistRemembers, Unpacked
<1>7. CASE DispatchNow
  <2>1. hist' = hist \/ (\E b : hist' = [hist EXCEPT !.hurried = @ \/ b])
    BY <1>7 DEF DispatchNow
  <2> QED BY <2>1, HistRemembers, Unpacked
<1>8. CASE Cancel
  <2>1. \E last : hist' = [hist EXCEPT !.stops = @ + 1, !.last = last]
    BY <1>8 DEF Cancel
  <2> QED BY <2>1, HistRemembers, Unpacked
<1>9. ASSUME NEW h \in Handlers, Drain(h)
      PROVE  Remembers
  <2>1. hist' = [hist EXCEPT !.elder = hist'.elder]
    BY <1>9, DrainEffect, Unpacked
  <2> QED BY <2>1, Unpacked DEF HistType, Remembers, Steady, Faultless, UndoneByFault
<1>10. ASSUME NEW h \in Handlers, NEW kind, Handle(h, kind)
       PROVE  Remembers
  <2>1. hist'.undone = hist.undone /\ hist'.hurried = hist.hurried /\ hist'.faults = hist.faults
    BY <1>10, HandleEffect, Unpacked
  <2>2. hist.overtaken => hist'.overtaken
    BY <1>10, Unpacked DEF Handle, HistType
  <2> QED BY <2>1, <2>2 DEF Remembers, Steady, Faultless, UndoneByFault
<1>11. ASSUME NEW h \in Handlers,
              \/ HandleStarted(h) \/ HandleProjected(h) \/ HandleUnconsumed(h) \/ HandleFinished(h)
       PROVE  Remembers
  BY <1>10, <1>11 DEF HandleStarted, HandleProjected, HandleUnconsumed, HandleFinished
<1>12. "task" \in Threads /\ Handlers \subseteq Threads
  BY ThreadsApart
<1>13. CASE Next
  <2>1. CASE \E c \in Commands : Submit(c) \/ Supplement(c)
    BY <1>6, <2>1
  <2>2. CASE \E f \in Fires : Fire(f)
    BY <1>6, <2>2
  <2>3. CASE \E p \in Threads :
               DispatchNext(p) \/ SendQueued(p) \/ Start(p) \/ TurnSaved(p) \/ Ask(p) \/ Send(p)
               \/ Resolve(p) \/ ResolveSend(p) \/ Enqueue(p) \/ QueueSaved(p)
    BY <1>2, <1>3, <1>4, <2>3
  <2>4. CASE \/ Note \/ AppendEntry \/ Settled \/ SupplementNow \/ StopCore
             \/ CoreStart \/ CoreFinish \/ (\E how \in Outcomes : CoreClose(how))
             \/ (\E item \in ToSet(session.queue) : SendNow(item))
    BY <1>2, <1>12, <2>4
  <2>5. CASE NowSaved \/ CoreTake \/ EntrySaved \/ NoteSaved \/ StopSaved
    BY <1>3, <1>4, <1>12, <2>5
  <2>6. CASE DispatchNow \/ Cancel
    BY <1>7, <1>8, <2>6
  <2>7. CASE \E h \in Handlers :
               Drain(h) \/ HandleStarted(h) \/ HandleProjected(h) \/ HandleUnconsumed(h)
               \/ HandleFinished(h) \/ Resubmit(h) \/ Handoff(h) \/ HandoffSaved(h) \/ SendHandoff(h)
    BY <1>2, <1>5, <1>9, <1>11, <1>12, <2>7
  <2> QED BY <1>13, <2>1, <2>2, <2>3, <2>4, <2>5, <2>6, <2>7 DEF Next
<1> QED BY <1>1, <1>13

(* The initial session is sound, and every step keeps the token. *)
LEMMA LedInit == Init => Led
<1> SUFFICES ASSUME Init PROVE Led
  OBVIOUS
<1>1. PICK ask \in BOOLEAN : session = NewSession(ask)
  BY DEF Init
<1>2. /\ pc = [p \in Threads |-> Resting("idle", NoCommand)] /\ core.known = {}
      /\ core.queue = <<>> /\ core.run = NoRun
      /\ channel = <<>> /\ hand = [h \in Handlers |-> <<>>]
  BY DEF Init
<1>3. /\ session.active = NoTurn /\ session.pending = NoTurn /\ session.dispatching = NoTurn
      /\ session.asking = NoTurn /\ session.queue = <<>>
  BY <1>1 DEF NewSession
<1>4. \A p \in Threads : pc[p].at = "idle" /\ pc[p].back = "idle"
  BY <1>2 DEF Resting
<1>5. Sound(session)
  BY <1>3 DEF Sound, OneThere, DispatchedThere, AskedThere, ItemsDiffer, ItemsUnlisted, ActiveListed
<1>6. /\ \A p \in Threads : Fitting(pc[p]) /\ Single(pc[p]) /\ ~Carries(p) /\ HeldBy(pc[p]) = {}
      /\ \A p \in Threads : SpareOf(p, pc[p]) = {}
  BY <1>4 DEF Fitting, RestoringSteps, SavingSteps, Single, Carries, HeldBy, HoldingSteps, SpareOf, Says
<1>7. CoreIdle
  BY <1>2 DEF CoreIdle, NoneEnds, NoneFinished
<1>8. Current(session) = NoTurn
  BY <1>3 DEF Current
<1>9. Token
  BY <1>2, <1>3, <1>6, <1>7, <1>8
     DEF Token, OneCarries, CarriedIsThere, AskedIsIdle, SubmittedIsThere, RunningIsThere,
         ToldIsThere, EndIsThere, FinishedLast, NoneFinished, Somewhere
<1>10. Sending
  BY <1>3, <1>6 DEF Sending
<1>11. Apart
  <2>1. Waiting(session) = {}
    BY <1>3 DEF Waiting
  <2> QED BY <1>2, <1>3, <1>6, <2>1
          DEF Apart, WaitingApart, HeldApart, SpareApart, SparesDiffer, IsHeld, IsSpare, AskedIds
<1> QED BY <1>5, <1>6, <1>9, <1>10, <1>11 DEF Led

LEMMA LedStep == Types /\ Types' /\ Grown /\ Led /\ Steady' /\ [Next]_vars => Led'
<1> SUFFICES ASSUME Types, Types', Grown, Led, Steady', [Next]_vars PROVE Led'
  OBVIOUS
<1>1. CASE UNCHANGED vars
  <2>1. UNCHANGED <<session, core, channel, hand, pc, hist>>
    BY <1>1 DEF vars
  <2>2. Token'
    BY <2>1 DEF Led, Token, OneCarries, CarriedIsThere, AskedIsIdle, SubmittedIsThere, RunningIsThere,
         ToldIsThere, EndIsThere, Somewhere, CoreIdle, NoneEnds, Carries
  <2>3. Sending'
    BY <2>1 DEF Led, Sending, Announced, NoneEnds, Carries
  <2>4. core'.known = core.known
    BY <2>1
  <2> QED BY <2>1, <2>2, <2>3, <2>4, CoreStepLeads
<1>2. CASE Next
  BY <1>2, DispatchNextLeads, SendQueuedLeads, SubmitLeads, FireLeads, SupplementLeads, StartLeads,
     TurnSavedLeads, AskLeads, SendLeads, ResolveLeads, ResolveSendLeads, NoteLeads, NoteSavedLeads,
     EnqueueLeads, QueueSavedLeads, AppendEntryLeads, EntrySavedLeads, SettledLeads, SendNowLeads,
     DispatchNowLeads, SupplementNowLeads, NowSavedLeads, CancelLeads, StopSavedLeads, StopCoreLeads,
     CoreStartLeads, CoreTakeLeads, CoreCloseLeads, CoreFinishLeads, DrainLeads, HandleStartedLeads,
     HandleProjectedLeads, HandleUnconsumedLeads, HandleFinishedLeads, ResubmitLeads, HandoffLeads,
     HandoffSavedLeads, SendHandoffLeads, Zenon DEF Next
<1> QED BY <1>1, <1>2

(* Until something disturbs it, the session leads one turn at a time.       *)
THEOREM SessionLed == Spec => [](Types /\ Grown /\ (Steady => Led))
<1>1. Init => Grown /\ Led
  BY GrownInit, LedInit
<1>2. Types /\ Types' /\ Grown /\ (Steady => Led) /\ [Next]_vars => Grown' /\ (Steady' => Led')
  BY GrownStep, LedStep, HistoryStep DEF Remembers
<1> QED BY <1>1, <1>2, SessionTypes, PTL DEF Spec

LEMMA LedIsBacked ==
    ASSUME Types, Led, Current(session) # NoTurn, Current(session) \notin hist.stranded
    PROVE  Backed(Current(session))
<1> DEFINE t == Current(session)
<1>1. CASE session.asking # NoTurn
  BY <1>1 DEF Led, Sound, AskedThere, Backed
<1>2. CASE \E p \in Threads : Carries(p)
  BY <1>2 DEF Led, Token, CarriedIsThere, Backed
<1>3. CASE core.queue # <<>>
  <2>1. 1 \in DOMAIN core.queue /\ core.queue[1].turn = t
    BY <1>3, FirstSubmission, Unpacked DEF Led, Token, SubmittedIsThere
  <2> QED BY <2>1 DEF Backed
<1>4. CASE core.run # NoRun
  BY <1>4 DEF Led, Token, RunningIsThere, Backed
<1>5. CASE core.run = NoRun /\ channel # <<>>
  <2>1. PICK i \in DOMAIN channel : channel[i].kind = "finished" /\ channel[i].turn = t
    BY <1>5 DEF Led, Token, ToldIsThere, NoneFinished
  <2>2. channel[i] \in Underway
    BY DEF Underway, ToSet
  <2> QED BY <2>1, <2>2 DEF Backed
<1>6. CASE channel = <<>> /\ ~NoneEnds
  <2>1. PICK h \in Handlers : ~NoneFinished(hand[h])
    BY <1>6 DEF NoneEnds, NoneFinished
  <2>2. PICK i \in DOMAIN hand[h] : hand[h][i].kind = "finished" /\ hand[h][i].turn = t
    BY <2>1 DEF Led, Token, EndIsThere, NoneFinished
  <2>3. hand[h][i] \in Underway
    BY DEF Underway, ToSet
  <2> QED BY <2>2, <2>3 DEF Backed
<1> QED BY <1>1, <1>2, <1>3, <1>4, <1>5, <1>6 DEF Led, Token, Somewhere, CoreIdle

(* The turn the Session shows as current will end: Core has it, its end is *)
(* on the way, the user is asked about it, or a thread carries it, unless  *)
(* an error path has left it behind.                                       *)
THEOREM ShownTurnWillEnd == Spec => []ShownTurnIsBacked
<1>1. Types /\ (Steady => Led) => ShownTurnIsBacked
  BY LedIsBacked DEF ShownTurnIsBacked, Disturbed, Steady
<1> QED BY <1>1, SessionLed, PTL

(* The records have their shapes, a message reserved for sending is still  *)
(* in the queue, and Core has one turn of the Session at a time.           *)
THEOREM OneTurnAtATime == Spec => []SessionInv
<1>1. Types => TypeOK
  BY DEF Types, SessionOK, Reserved, CoreOK, CoreType, TypeOK
<1>2. Types /\ (Steady => Led) => OneTurnInCore
  <2> SUFFICES ASSUME Types, Led PROVE Len(core.queue) + (IF core.run = NoRun THEN 0 ELSE 1) <= 1
    BY DEF OneTurnInCore, Disturbed, Steady
  <2>1. CASE core.queue = <<>>
    BY <2>1
  <2>2. CASE core.queue # <<>>
    <3>1. Len(core.queue) = 1 /\ core.run = NoRun
      BY <2>2 DEF Led, Token, SubmittedIsThere
    <3> QED BY <3>1
  <2> QED BY <2>1, <2>2
<1>3. Types /\ (Steady => Led) => SessionInv
  BY <1>1, <1>2 DEF SessionInv
<1> QED BY <1>3, SessionLed, PTL

-----------------------------------------------------------------------------
(* Supplements that were handed back are on their way to a turn.            *)

(* A lane that settles a turn for its own command will start one, and so   *)
(* will a turn that is there or has not completed normally: its end, or    *)
(* the end of the one that the user starts, resubmits.                     *)
LaneMode == pc["lane"].at \in {"start", "settle"} \/ pc["lane"].back = "settle"
Coming == Current(session) # NoTurn \/ hist.last # "clean" \/ LaneMode
Resubmits == \E h \in Handlers : pc[h].at = "resubmit"
BridgeHears == \E i \in DOMAIN hand["bridge"] : hand["bridge"][i].kind = "unconsumed"

Handed ==
  /\ session.unconsumed # {} => Coming \/ Resubmits
  /\ BridgeHears => Coming

LEMMA HistFields ==
    ASSUME hist \in HistType
    PROVE  /\ Made(hist).last = hist.last
           /\ \A ids : [hist EXCEPT !.reached = @ \cup ids].last = hist.last
           /\ \A ids : [hist EXCEPT !.accepted = @ \cup ids].last = hist.last
           /\ \A c : [hist EXCEPT !.sent = @ \cup {c}].last = hist.last
           /\ \A b : [hist EXCEPT !.hurried = b].last = hist.last
           /\ \A g : [hist EXCEPT !.elder = g].last = hist.last
           /\ \A n, last : [hist EXCEPT !.stops = n, !.last = last].last = last
           /\ Failed(hist).faults = hist.faults + 1
           /\ \A t : [Failed(hist) EXCEPT !.stranded = @ \cup {t}].faults = hist.faults + 1
           /\ \A b : [Failed(hist) EXCEPT !.undone = b].faults = hist.faults + 1
BY DEF HistType, Made, Failed

LEMMA FaultsShow ==
    ASSUME Types, Faultless'
    PROVE  /\ hist' # Failed(hist) /\ (\A t : ~Strand(t))
           /\ (\A p : ~PutBack(p)) /\ (\A h : ~HandoffFails(h))
<1>1. hist \in HistType
  BY DEF Types
<1>2. hist.faults \in Nat
  BY <1>1 DEF HistType
<1>3. hist'.faults # hist.faults + 1
  BY <1>2, NextIsNotZero DEF Faultless
<1>4. hist' # Failed(hist)
  BY <1>1, <1>3, HistFields
<1>5. \A t : ~Strand(t)
  BY <1>1, <1>3, HistFields DEF Strand
<1>6. \A p : ~PutBack(p)
  BY <1>1, <1>3, HistFields, ZenonT(60) DEF PutBack
<1>7. \A h : ~HandoffFails(h)
  BY <1>1, <1>3, HistFields DEF HandoffFails
<1> QED BY <1>4, <1>5, <1>6, <1>7

LEMMA HandedWhenComing == Coming' => Handed'
BY DEF Handed

(* Nothing is handed back, and the turn that is there stays. *)
LEMMA HandedStep ==
    ASSUME Handed, NEW p \in Threads, Alone(p), hand' = hand,
           session'.unconsumed = session.unconsumed, hist'.last = hist.last,
           Current(session) # NoTurn => Current(session') # NoTurn,
           pc[p].at # "resubmit",
           p = "lane" /\ LaneMode => LaneMode' \/ Current(session') # NoTurn
    PROVE  Handed'
<1>1. LaneMode => LaneMode' \/ Current(session') # NoTurn
  BY ThreadsApart DEF Alone, LaneMode
<1>2. Coming => Coming'
  BY <1>1 DEF Coming
<1>3. Resubmits => Resubmits'
  BY ThreadsApart DEF Resubmits, Alone
<1>4. BridgeHears' <=> BridgeHears
  BY DEF BridgeHears
<1> QED BY <1>2, <1>3, <1>4 DEF Handed

LEMMA PlainlyHanded ==
    ASSUME Types, Handed, NEW p \in Threads, Alone(p), hand' = hand,
           session'.unconsumed = session.unconsumed, hist'.last = hist.last,
           Current(session) # NoTurn => Current(session') # NoTurn,
           pc[p].at \notin HandlerSteps \cup {"settle", "start"}
    PROVE  Handed'
<1>1. p = "lane" => ~LaneMode
  BY NotSettling DEF LaneMode
<1>2. pc[p].at # "resubmit"
  BY DEF HandlerSteps, HandoffSteps
<1> QED BY <1>1, <1>2, HandedStep

LEMMA HandedOnTheWayBack ==
    ASSUME Types, Handed, NEW p \in Threads, Alone(p), hand' = hand, pc'[p].back = pc[p].back,
           session'.unconsumed = session.unconsumed, hist'.last = hist.last,
           Current(session) # NoTurn => Current(session') # NoTurn,
           pc[p].at \notin {"start", "resubmit"}
    PROVE  Handed'
<1>1. p = "lane" /\ LaneMode => pc[p].back = "settle"
  BY ThreadFields, Unpacked DEF LaneMode
<1>2. p = "lane" /\ LaneMode => LaneMode'
  BY <1>1 DEF LaneMode
<1> QED BY <1>2, HandedStep

(* A thread that goes on is alone in it. *)
LEMMA BecomingAlone ==
    ASSUME Types, NEW p \in Threads,
           \/ (\E r : Become(p, r)) \/ (\E x : Go(p, x)) \/ (\E x, t, i : Carry(p, x, t, i))
           \/ (\E x, t, i : Save(p, x, t, i)) \/ (\E x, c : Begin(p, x, c))
           \/ End(p) \/ Return(p) \/ Refused(p)
    PROVE  Alone(p)
<1>1. PICK r : Become(p, r)
  BY DEF Go, Carry, Save, Begin, End, Return, Refused
<1> QED BY <1>1 DEF Become, Alone

(* A thread that goes on for its command goes back to it. *)
LEMMA BackIsKept ==
    ASSUME Types, NEW p \in Threads,
           \/ (\E x : Go(p, x)) \/ (\E x, t, i : Carry(p, x, t, i))
           \/ (\E x, t, i : Save(p, x, t, i)) \/ Return(p)
    PROVE  Alone(p) /\ pc'[p].back = pc[p].back
<1>1. pc \in [Threads -> ThreadType] /\ pc[p] \in ThreadType
  BY Unpacked
<1>2. Alone(p)
  BY BecomingAlone
<1>3. CASE Return(p)
  BY <1>1, <1>2, <1>3, ReturnEffect
<1>4. CASE \E x : Go(p, x)
  <2>1. PICK x : pc' = [pc EXCEPT ![p] = [pc[p] EXCEPT !.at = x]]
    BY <1>4 DEF Go, Become
  <2> QED BY <1>1, <1>2, <2>1 DEF ThreadType
<1>5. CASE \E x, t, i : Carry(p, x, t, i)
  <2>1. PICK x, t, i : pc' = [pc EXCEPT ![p] = [pc[p] EXCEPT !.at = x, !.turn = t, !.ids = i]]
    BY <1>5 DEF Carry, Become
  <2> QED BY <1>1, <1>2, <2>1 DEF ThreadType
<1>6. CASE \E x, t, i : Save(p, x, t, i)
  <2>1. PICK x, t, i : pc' = [pc EXCEPT ![p] = [pc[p] EXCEPT !.at = x, !.turn = t, !.ids = i,
                                                 !.image = session, !.left = session']]
    BY <1>6 DEF Save, Become
  <2> QED BY <1>1, <1>2, <2>1 DEF ThreadType
<1> QED BY <1>3, <1>4, <1>5, <1>6

LEMMA SubmittedHist ==
    ASSUME Types, NEW t, NEW ids, NEW named, SubmitToCore(t, ids, named)
    PROVE  hist'.last = hist.last
BY HistFields DEF SubmitToCore, Types

(* The steps at which no event is handled. *)
LEMMA PlainSteps ==
    {"idle", "save_turn", "ask", "send", "resolve", "enqueue", "save_queue", "note", "save_note",
     "append", "save_entry", "now", "append_now", "save_now", "save_stop", "stop"}
      \cap (HandlerSteps \cup {"settle", "start"}) = {}
BY DEF HandlerSteps, HandoffSteps

(* The session stays, or has a turn afterwards. *)
LEMMA PlainStepsHanded ==
    ASSUME Types, Types', Faultless', Handed, NEW p \in Threads,
           \/ TurnSaved(p) \/ Ask(p) \/ Send(p) \/ Resolve(p) \/ ResolveSend(p)
           \/ Enqueue(p) \/ QueueSaved(p)
    PROVE  Handed'
<1>1. hist \in HistType /\ session \in SessionType
  BY Unpacked
<1>2. /\ pc[p].at \in {"idle", "save_turn", "ask", "send", "resolve", "enqueue", "save_queue"}
      /\ hand' = hand
  BY DEF TurnSaved, Ask, Send, Resolve, ResolveSend, Enqueue, QueueSaved, At
<1>3. pc[p].at \notin HandlerSteps \cup {"settle", "start"}
  BY <1>2, PlainSteps
<1>4. Alone(p)
  BY BecomingAlone, FaultsShow DEF TurnSaved, Ask, Send, Resolve, ResolveSend, Enqueue, QueueSaved
<1>5. CASE TurnSaved(p) \/ QueueSaved(p)
  <2>1. session' = session /\ hist' = hist
    BY <1>5, FaultsShow DEF TurnSaved, QueueSaved
  <2> QED BY <1>2, <1>3, <1>4, <2>1, PlainlyHanded
<1>6. CASE Send(p) \/ ResolveSend(p)
  <2>1. session' = session /\ hist'.last = hist.last
    BY <1>6, FaultsShow, SubmittedHist DEF Send, ResolveSend
  <2> QED BY <1>2, <1>3, <1>4, <2>1, PlainlyHanded
<1>7. CASE Ask(p) \/ Resolve(p)
  <2>1. hist' = hist /\ session'.unconsumed = session.unconsumed
        /\ session'.pending = session.pending /\ session'.active = session.active
    BY <1>1, <1>7 DEF Ask, Resolve, SessionType
  <2> QED BY <1>2, <1>3, <1>4, <2>1, PlainlyHanded DEF Current
<1>8. CASE Enqueue(p)
  <2>1. hist'.last = hist.last /\ session'.unconsumed = session.unconsumed
        /\ session'.pending = session.pending /\ session'.active = session.active
    BY <1>1, <1>8, HistFields DEF Enqueue, SessionType
  <2> QED BY <1>2, <1>3, <1>4, <2>1, PlainlyHanded DEF Current
<1> QED BY <1>5, <1>6, <1>7, <1>8

LEMMA StartHanded ==
    ASSUME Types, Types', Handed, NEW p \in Threads, Start(p)
    PROVE  Handed'
<1>1. CASE Current(session) # NoTurn /\ session' = session
  BY <1>1, HandedWhenComing DEF Coming
<1>2. CASE CanMake /\ session' = NewTurn(session, Fresh, Ids(p))
  <2>1. Fresh \in Turns
    BY <1>2, FreshOK, Unpacked
  <2>2. session'.pending = Fresh
    BY <1>2, Unpacked DEF NewTurn, SessionType
  <2>3. Current(session') # NoTurn
    BY <2>1, <2>2 DEF Current, Turns, NoTurn
  <2> QED BY <2>3, HandedWhenComing DEF Coming
<1> QED BY <1>1, <1>2 DEF Start

LEMMA SentHanded ==
    ASSUME Types, Handed, NEW p \in {"lane", "task"}, pc[p].at = "idle",
           NEW x, NEW c, Begin(p, x, c), hist' = [hist EXCEPT !.sent = @ \cup {c}],
           UNCHANGED <<session, core, channel, hand>>
    PROVE  Handed'
<1>1. p \in Threads /\ Alone(p)
  BY BecomingAlone, ThreadsApart
<1>2. hist'.last = hist.last
  BY HistFields, Unpacked
<1>3. pc[p].at \notin HandlerSteps \cup {"settle", "start"}
  BY PlainSteps
<1> QED BY <1>1, <1>2, <1>3, PlainlyHanded

(* The lane's own commands. *)
LEMMA LaneStepsHanded ==
    ASSUME Types, Types', Faultless', Handed,
           \/ Note \/ NoteSaved \/ AppendEntry \/ EntrySaved \/ SupplementNow \/ NowSaved
           \/ StopSaved \/ StopCore \/ \E item \in ToSet(session.queue) : SendNow(item)
    PROVE  Handed'
<1>1. hist \in HistType /\ session \in SessionType /\ "lane" \in Threads
  BY Unpacked, ThreadsApart
<1>2. /\ pc["lane"].at \in {"idle", "note", "save_note", "append", "save_entry", "append_now",
                            "save_now", "save_stop", "stop"}
      /\ hand' = hand
  BY DEF Note, NoteSaved, AppendEntry, EntrySaved, SupplementNow, NowSaved, StopSaved, StopCore,
         SendNow, At
<1>3. pc["lane"].at \notin HandlerSteps \cup {"settle", "start"}
  BY <1>2, PlainSteps
<1>4. Alone("lane")
  <2>1. CASE Note \/ NoteSaved \/ AppendEntry \/ EntrySaved
    BY <1>1, <2>1, BecomingAlone, FaultsShow DEF Note, NoteSaved, AppendEntry, EntrySaved
  <2>2. CASE SupplementNow \/ NowSaved \/ StopSaved \/ StopCore
    BY <1>1, <2>2, BecomingAlone, FaultsShow DEF SupplementNow, NowSaved, StopSaved, StopCore
  <2>3. CASE \E item \in ToSet(session.queue) : SendNow(item)
    BY <1>1, <2>3, BecomingAlone DEF SendNow
  <2> QED BY <2>1, <2>2, <2>3
<1>5. hist'.last = hist.last
  BY <1>1, HistFields, FaultsShow
     DEF Note, NoteSaved, AppendEntry, EntrySaved, SupplementNow, NowSaved, StopSaved, StopCore, SendNow
<1>6. session'.unconsumed = session.unconsumed /\ Current(session') = Current(session)
  <2>1. CASE session' = session
    BY <2>1
  <2>2. CASE \E s \in SessionType, ids \in SUBSET Names :
               /\ session' = Recorded(s, ids) /\ s.unconsumed = session.unconsumed
               /\ s.pending = session.pending /\ s.active = session.active
    <3>1. PICK s \in SessionType, ids \in SUBSET Names :
             /\ session' = Recorded(s, ids) /\ s.unconsumed = session.unconsumed
             /\ s.pending = session.pending /\ s.active = session.active
      BY <2>2
    <3> DEFINE r == Recorded(s, ids)
    <3>2. r.unconsumed = s.unconsumed /\ r.pending = s.pending /\ r.active = s.active
      BY RecordedEffect DEF SameQueue
    <3>3. session' = r
      BY <3>1
    <3> HIDE DEF r
    <3> QED BY <3>1, <3>2, <3>3 DEF Current
  <2>3. CASE AppendEntry
    <3>1. pc["lane"].at = "append"
      BY <2>3 DEF AppendEntry, At
    <3>2. {pc["lane"].cmd} \in SUBSET Names
      BY <1>1, <3>1, ThreadFields, Unpacked DEF Says
    <3> QED BY <1>1, <2>1, <2>2, <2>3, <3>2 DEF AppendEntry
  <2>4. CASE SupplementNow
    <3>1. pc["lane"].ids \in SUBSET Names
      BY <1>1, Unpacked
    <3>2. IsQueued(session, pc["lane"].ids) =>
            LET s == Unqueued(session, pc["lane"].ids)
            IN  /\ s \in SessionType /\ s.unconsumed = session.unconsumed
                /\ s.pending = session.pending /\ s.active = session.active
      BY <1>1, UnqueuedEffect
    <3> QED BY <2>1, <2>2, <2>4, <3>1, <3>2 DEF SupplementNow
  <2>5. CASE Note \/ NoteSaved \/ EntrySaved \/ NowSaved \/ StopSaved \/ StopCore
             \/ \E item \in ToSet(session.queue) : SendNow(item)
    BY <2>1, <2>5, FaultsShow DEF Note, NoteSaved, EntrySaved, NowSaved, StopSaved, StopCore, SendNow
  <2> QED BY <2>3, <2>4, <2>5
<1> QED BY <1>1, <1>2, <1>3, <1>4, <1>5, <1>6, PlainlyHanded

LEMMA SettledHanded ==
    ASSUME Types, Types', Handed, Settled
    PROVE  Handed'
<1>1. CASE Begin("lane", "start", pc["lane"].cmd)
  <2>1. pc'["lane"].at = "start"
    BY <1>1, ThreadsApart, Unpacked, BeginEffect, AllSteps
  <2> QED BY <2>1, HandedWhenComing DEF Coming, LaneMode
<1>2. CASE HasActive(session) /\ session' = session
  BY <1>2, HandedWhenComing DEF Coming, HasActive
<1> QED BY <1>1, <1>2 DEF Settled

LEMMA DispatchNowHanded ==
    ASSUME Types, Types', Handed, DispatchNow
    PROVE  Handed'
<1>1. pc["lane"].at = "now" /\ hand' = hand /\ "lane" \in Threads
  BY ThreadsApart DEF DispatchNow, At
<1>2. CASE UNCHANGED <<session, hist>>
  <2>1. Alone("lane")
    BY <1>1, BecomingAlone DEF DispatchNow
  <2> QED BY <1>1, <1>2, <2>1, PlainSteps, PlainlyHanded
<1>3. CASE /\ IsQueued(session, pc["lane"].ids)
           /\ session' = Dispatching(session, Queued(session, pc["lane"].ids))
  <2>1. Queued(session, pc["lane"].ids) \in Item
    BY <1>3, QueuedItem, Unpacked
  <2>2. session'.pending = Queued(session, pc["lane"].ids).turn
    BY <1>3, <2>1, DispatchingEffect, Unpacked
  <2>3. Current(session') # NoTurn
    BY <2>1, <2>2 DEF Current, Item, Turns, NoTurn
  <2> QED BY <2>3, HandedWhenComing DEF Coming
<1> QED BY <1>2, <1>3 DEF DispatchNow

LEMMA CancelHanded ==
    ASSUME Types, Types', Handed, Cancel
    PROVE  Handed'
<1>1. hist \in HistType /\ session \in SessionType /\ "lane" \in Threads
  BY Unpacked, ThreadsApart
<1>2. pc["lane"].at = "idle" /\ hand' = hand
  BY DEF Cancel, At
<1>3. CASE session.asking # NoTurn
  <2>1. hist'.last = "stopped"
    BY <1>1, <1>3, HistFields DEF Cancel
  <2> QED BY <2>1, HandedWhenComing DEF Coming
<1>4. CASE session.asking = NoTurn
  <2>1. hist'.last = hist.last
    BY <1>1, <1>4, HistFields DEF Cancel
  <2>2. session' = session \/ session' = Cancelled(session)
    BY <1>4 DEF Cancel
  <2>3. session'.unconsumed = session.unconsumed /\ Current(session') = Current(session)
    BY <1>1, <2>2, CancelledEffect, ZenonT(60) DEF SameQueue, Current
  <2>4. Alone("lane")
    BY <1>1, <1>4, BecomingAlone DEF Cancel
  <2> QED BY <1>1, <1>2, <2>1, <2>3, <2>4, PlainSteps, PlainlyHanded
<1> QED BY <1>3, <1>4

LEMMA DispatchHanded ==
    ASSUME Types, Types', Faultless', Handed, NEW p \in Threads, DispatchNext(p) \/ SendQueued(p)
    PROVE  Handed'
<1>1. /\ pc[p].at \in {"dispatch", "send_queued"} /\ hand' = hand
      /\ hist \in HistType /\ session \in SessionType
  BY Unpacked DEF DispatchNext, SendQueued, At
<1>2. Alone(p) /\ pc'[p].back = pc[p].back
  BY BackIsKept DEF DispatchNext, SendQueued
<1>3. CASE session' = session /\ hist'.last = hist.last
  BY <1>1, <1>2, <1>3, HandedOnTheWayBack
<1>4. CASE DispatchNext(p) /\ MayDispatch(session)
  <2>1. Head(session.queue).turn \in Turns
    BY <1>1, <1>4, ReadyItem DEF Item
  <2>2. session'.pending = Head(session.queue).turn
    <3> DEFINE r == Dispatching(session, Head(session.queue))
    <3>1. r \in SessionType /\ r.pending = Head(session.queue).turn
      BY <1>1, <1>4, ReadyItem, DispatchingEffect
    <3>2. \E n : session' = [r EXCEPT !.next = n]
      BY <1>4 DEF DispatchNext
    <3> HIDE DEF r
    <3> QED BY <3>1, <3>2 DEF SessionType
  <2>3. Current(session') # NoTurn
    BY <2>1, <2>2 DEF Current, Turns, NoTurn
  <2> QED BY <2>3, HandedWhenComing DEF Coming
<1>5. CASE DispatchNext(p) /\ ~MayDispatch(session)
  <2>1. session' = session /\ hist' = hist
    BY <1>5 DEF DispatchNext
  <2> QED BY <1>3, <2>1
<1>6. CASE SendQueued(p)
  <2>1. session' = session /\ hist'.last = hist.last
    BY <1>6, FaultsShow, SubmittedHist DEF SendQueued
  <2> QED BY <1>3, <2>1
<1> QED BY <1>4, <1>5, <1>6

LEMMA CoreHanded ==
    ASSUME Types, Handed,
           CoreStart \/ CoreTake \/ CoreFinish \/ \E how \in Outcomes : CoreClose(how)
    PROVE  Handed'
<1>1. session' = session /\ hand' = hand /\ pc' = pc
  BY DEF CoreStart, CoreTake, CoreFinish, CoreClose
<1>2. hist'.last = hist.last
  BY HistFields, Unpacked DEF CoreStart, CoreTake, CoreFinish, CoreClose
<1> QED BY <1>1, <1>2 DEF Handed, Coming, LaneMode, Resubmits, BridgeHears

(* What the bridge drains is of the turn that is there. *)
LEMMA DrainHanded ==
    ASSUME Types, Led, Handed, NEW h \in Handlers, Drain(h)
    PROVE  Handed'
<1>1. channel # <<>> /\ session' = session
  BY DEF Drain
<1>2. channel \in Seq(EventType)
  BY Unpacked DEF EventsOK
<1>3. 1 \in DOMAIN channel /\ channel[1] \in EventType
  BY <1>1, <1>2
<1>4. channel[1].turn = Current(session) /\ channel[1].turn \in Turns
  BY <1>3 DEF Led, Token, ToldIsThere, EventType
<1>5. Current(session') # NoTurn
  BY <1>1, <1>4 DEF Turns, NoTurn
<1> QED BY <1>5, HandedWhenComing DEF Coming

(* A handler has one event less. *)
LEMMA HearsLess ==
    ASSUME Types, NEW h \in Handlers, NEW kind, Handle(h, kind)
    PROVE  /\ BridgeHears' => BridgeHears
           /\ h = "bridge" /\ kind = "unconsumed" => BridgeHears
           /\ kind # "finished" => hist'.last = hist.last
<1>1. /\ hand[h] # <<>> /\ hand[h][1].kind = kind /\ hand[h] \in Seq(EventType)
      /\ hand'[h] = Tail(hand[h])
      /\ \A g \in Handlers : g # h => hand'[g] = hand[g]
  BY HandlingEffect
<1>2. \A i \in DOMAIN Tail(hand[h]) : i + 1 \in DOMAIN hand[h] /\ Tail(hand[h])[i] = hand[h][i + 1]
  BY <1>1, EventsBehind
<1>3. 1 \in DOMAIN hand[h]
  BY <1>1
<1>4. BridgeHears' => BridgeHears
  <2>1. CASE h = "bridge"
    BY <1>1, <1>2, <2>1, ZenonT(60) DEF BridgeHears
  <2>2. CASE h # "bridge"
    BY <1>1, <2>2 DEF BridgeHears, Handlers
  <2> QED BY <2>1, <2>2
<1>5. kind # "finished" => hist'.last = hist.last
  BY HandleEffect, Unpacked
<1> QED BY <1>1, <1>3, <1>4, <1>5 DEF BridgeHears

LEMMA HandlersAt ==
    ASSUME Types, NEW h \in Handlers, Handling(h)
    PROVE  /\ h \in Threads /\ pc[h].at # "resubmit" /\ pc[h].at \in {"idle", "settle"}
           /\ h = "lane" => pc[h].back = "settle"
BY ThreadsApart, ThreadFields, Unpacked DEF Handling, At

(* The session stays, or its turn does, and so do its supplements.          *)
LEMMA HandlingHanded ==
    ASSUME Types, Handed, NEW h \in Handlers, NEW kind, Handle(h, kind), kind # "finished",
           Alone(h), pc'[h].back = pc[h].back,
           session'.unconsumed = session.unconsumed,
           Current(session) # NoTurn => Current(session') # NoTurn
    PROVE  Handed'
<1>1. /\ h \in Threads /\ pc[h].at # "resubmit"
      /\ h = "lane" => pc[h].back = "settle"
  BY HandlersAt DEF Handle
<1>2. BridgeHears' => BridgeHears
  BY HearsLess
<1>3. hist'.last = hist.last
  BY HearsLess
<1>4. LaneMode => LaneMode'
  BY <1>1, ThreadsApart DEF LaneMode, Alone
<1>5. Coming => Coming'
  BY <1>3, <1>4 DEF Coming
<1>6. Resubmits => Resubmits'
  BY <1>1, ThreadsApart DEF Resubmits, Alone
<1> QED BY <1>2, <1>5, <1>6 DEF Handed

LEMMA HandleStartedHanded ==
    ASSUME Types, Handed, NEW h \in Handlers, HandleStarted(h)
    PROVE  Handed'
<1>1. Handle(h, "started") /\ pc' = pc
  BY DEF HandleStarted
<1>2. Head(hand[h]).ids \in SUBSET Names
  BY <1>1, HandlingEffect DEF EventType
<1>3. session'.unconsumed = session.unconsumed /\ (Current(session) # NoTurn => Current(session') # NoTurn)
  <2>1. CASE session' = session
    BY <2>1
  <2>2. CASE session'.unconsumed = session.unconsumed /\ session'.active \in Turns
    BY <2>2 DEF Current, Turns, NoTurn
  <2> QED BY <1>2, <2>1, <2>2, ActivatedEffect, Unpacked DEF HandleStarted
<1>4. Alone(h) /\ pc'[h].back = pc[h].back
  BY <1>1 DEF Alone
<1> QED BY <1>1, <1>3, <1>4, HandlingHanded

LEMMA HandleProjectedHanded ==
    ASSUME Types, Handed, NEW h \in Handlers, HandleProjected(h)
    PROVE  Handed'
<1>1. Handle(h, "projected") /\ Go(h, "dispatch") /\ h \in Threads
  BY ThreadsApart DEF HandleProjected
<1>2. session'.unconsumed = session.unconsumed
      /\ session'.pending = session.pending /\ session'.active = session.active
  BY Unpacked DEF HandleProjected, SessionType
<1>3. Alone(h) /\ pc'[h].back = pc[h].back
  BY <1>1, BackIsKept
<1>4. Current(session') = Current(session)
  BY <1>2 DEF Current
<1> QED BY <1>1, <1>2, <1>3, <1>4, HandlingHanded

(* The bridge is told while a turn is coming, and a lane settles one.       *)
LEMMA HandleUnconsumedHanded ==
    ASSUME Types, Handed, NEW h \in Handlers, HandleUnconsumed(h)
    PROVE  Handed'
<1>1. Handle(h, "unconsumed") /\ pc' = pc
  BY DEF HandleUnconsumed
<1>2. hist'.last = hist.last
  BY <1>1, HearsLess
<1>3. session'.pending = session.pending /\ session'.active = session.active
  BY Unpacked DEF HandleUnconsumed, SessionType
<1>4. Coming
  <2>1. CASE h = "bridge"
    BY <1>1, <2>1, HearsLess DEF Handed
  <2>2. CASE h = "lane"
    BY <1>1, <2>2, HandlersAt DEF Coming, LaneMode, Handle
  <2> QED BY <2>1, <2>2 DEF Handlers
<1>5. Coming'
  BY <1>1, <1>2, <1>3, <1>4 DEF Coming, LaneMode, Current
<1> QED BY <1>5, HandedWhenComing

(* A turn that has completed normally resubmits; after any other end what  *)
(* was handed back waits for the next.                                      *)
LEMMA HandleFinishedHanded ==
    ASSUME Types, Led, Handed, NEW h \in Handlers, HandleFinished(h)
    PROVE  Handed'
<1>1. Handle(h, "finished") /\ Go(h, Then(Head(hand[h]).how)) /\ h \in Threads
  BY ThreadsApart DEF HandleFinished
<1>2. hist'.last = Head(hand[h]).how
  BY <1>1, HandleEffect, Unpacked
<1>3. CASE Head(hand[h]).how # "clean"
  BY <1>2, <1>3, HandedWhenComing DEF Coming
<1>4. CASE Head(hand[h]).how = "clean"
  <2>1. Go(h, "resubmit")
    BY <1>1, <1>4 DEF Then
  <2>2. pc'[h].at = "resubmit"
    BY <1>1, <2>1, GoEffect, Unpacked, AllSteps DEF HandoffSteps
  <2>3. Resubmits'
    BY <2>2 DEF Resubmits
  <2>4. CASE h = "bridge"
    <3>1. /\ hand[h] # <<>> /\ hand[h][1].kind = "finished" /\ hand[h] \in Seq(EventType)
          /\ hand'[h] = Tail(hand[h])
      BY <1>1, HandlingEffect
    <3>2. FinishedLast(hand[h])
      BY DEF Led, Token, EndIsThere
    <3>3. hand'["bridge"] = <<>>
      BY <2>4, <3>1, <3>2, FinishedBehind
    <3>4. ~BridgeHears'
      BY <3>3 DEF BridgeHears
    <3> QED BY <2>3, <3>4 DEF Handed
  <2>5. CASE h = "lane"
    <3>1. pc'[h].back = "settle"
      BY <1>1, <2>5, BackIsKept, HandlersAt DEF Handle
    <3> QED BY <2>5, <3>1, HandedWhenComing DEF Coming, LaneMode
  <2> QED BY <2>4, <2>5 DEF Handlers
<1> QED BY <1>3, <1>4

LEMMA ResubmitHanded ==
    ASSUME Types, Handed, NEW h \in Handlers, Resubmit(h)
    PROVE  Handed'
<1>1. pc[h].at = "resubmit" /\ h \in Threads /\ hand' = hand /\ hist' = hist
  BY ThreadsApart DEF Resubmit, At
<1>2. /\ session'.unconsumed = {}
      /\ session'.pending = session.pending /\ session'.active = session.active
  BY Unpacked DEF Resubmit, SessionType
<1>3. Alone(h) /\ pc'[h].back = pc[h].back
  BY <1>1, BackIsKept DEF Resubmit
<1>4. LaneMode => LaneMode'
  BY <1>1, <1>3, ThreadsApart DEF LaneMode, Alone
<1>5. Coming => Coming'
  BY <1>1, <1>2, <1>4 DEF Coming, Current
<1>6. BridgeHears' <=> BridgeHears
  BY <1>1 DEF BridgeHears
<1> QED BY <1>2, <1>5, <1>6 DEF Handed

LEMMA HandoffHanded ==
    ASSUME Types, Types', Handed, NEW h \in Handlers, Handoff(h)
    PROVE  Handed'
<1>1. pc[h].ids \in SUBSET Names
  BY ThreadsApart, Unpacked
<1>2. CASE Current(session) # NoTurn /\ session' = Retained(session, pc[h].ids)
  <2>1. session'.pending = session.pending /\ session'.active = session.active
    BY <1>1, <1>2, RetainedEffect, Unpacked
  <2>2. Current(session') # NoTurn
    BY <1>2, <2>1 DEF Current
  <2> QED BY <2>2, HandedWhenComing DEF Coming
<1>3. CASE CanMake /\ session' = NewTurn(session, Fresh, pc[h].ids)
  <2>1. Fresh \in Turns
    BY <1>3, FreshOK, Unpacked
  <2>2. session'.pending = Fresh
    BY <1>3, Unpacked DEF NewTurn, SessionType
  <2>3. Current(session') # NoTurn
    BY <2>1, <2>2 DEF Current, Turns, NoTurn
  <2> QED BY <2>3, HandedWhenComing DEF Coming
<1> QED BY <1>2, <1>3 DEF Handoff

LEMMA SendHandoffHanded ==
    ASSUME Types, Types', Faultless', Handed, NEW h \in Handlers, HandoffSaved(h) \/ SendHandoff(h)
    PROVE  Handed'
<1>1. pc[h].at \in {"save_handoff", "send_handoff"} /\ h \in Threads /\ hand' = hand
  BY ThreadsApart DEF HandoffSaved, SendHandoff, At
<1>2. session' = session /\ hist'.last = hist.last /\ \E x : Go(h, x)
  BY FaultsShow, SubmittedHist DEF HandoffSaved, SendHandoff
<1>3. Alone(h) /\ pc'[h].back = pc[h].back
  BY <1>1, <1>2, BackIsKept
<1> QED BY <1>1, <1>2, <1>3, HandedOnTheWayBack

LEMMA HandedInit == Init => Handed /\ UndoneByFault
<1> SUFFICES ASSUME Init PROVE Handed /\ UndoneByFault
  OBVIOUS
<1>1. \E ask \in BOOLEAN : session = NewSession(ask)
  BY DEF Init
<1>2. session.unconsumed = {}
  BY <1>1 DEF NewSession
<1>3. hand = [h \in Handlers |-> <<>>] /\ hist.undone = FALSE
  BY DEF Init
<1>4. hand["bridge"] = <<>>
  BY <1>3 DEF Handlers
<1>5. ~BridgeHears
  BY <1>4 DEF BridgeHears
<1> QED BY <1>2, <1>3, <1>5 DEF Handed, UndoneByFault

LEMMA NextHanded ==
    ASSUME Types, Types', Led, Faultless', Handed, [Next]_vars
    PROVE  Handed'
<1>1. CASE UNCHANGED vars
  BY <1>1 DEF vars, Handed, Coming, LaneMode, Resubmits, BridgeHears
<1>2. ASSUME NEW c \in Commands, Submit(c) \/ Supplement(c)
      PROVE  Handed'
  <2>1. /\ pc["lane"].at = "idle" /\ UNCHANGED <<session, core, channel, hand>>
        /\ \E x : Begin("lane", x, c)
        /\ hist' = [hist EXCEPT !.sent = @ \cup {c}]
    BY <1>2 DEF Submit, Supplement, At
  <2> QED BY <2>1, SentHanded
<1>3. ASSUME NEW f \in Fires, Fire(f)
      PROVE  Handed'
  <2>1. /\ pc["task"].at = "idle" /\ UNCHANGED <<session, core, channel, hand>>
        /\ \E x : Begin("task", x, f)
        /\ hist' = [hist EXCEPT !.sent = @ \cup {f}]
    BY <1>3 DEF Fire, At
  <2> QED BY <2>1, SentHanded
<1>4. CASE Next
  <2>1. CASE \E c \in Commands : Submit(c) \/ Supplement(c)
    BY <1>2, <2>1
  <2>2. CASE \E f \in Fires : Fire(f)
    BY <1>3, <2>2
  <2>3. CASE \E p \in Threads :
               DispatchNext(p) \/ SendQueued(p) \/ Start(p) \/ TurnSaved(p) \/ Ask(p) \/ Send(p)
               \/ Resolve(p) \/ ResolveSend(p) \/ Enqueue(p) \/ QueueSaved(p)
    BY <2>3, DispatchHanded, StartHanded, PlainStepsHanded
  <2>4. CASE \/ Note \/ NoteSaved \/ AppendEntry \/ EntrySaved \/ SupplementNow \/ NowSaved
             \/ StopSaved \/ StopCore \/ \E item \in ToSet(session.queue) : SendNow(item)
    BY <2>4, LaneStepsHanded
  <2>5. CASE Settled \/ DispatchNow \/ Cancel
    BY <2>5, SettledHanded, DispatchNowHanded, CancelHanded
  <2>6. CASE CoreStart \/ CoreTake \/ CoreFinish \/ \E how \in Outcomes : CoreClose(how)
    BY <2>6, CoreHanded
  <2>7. CASE \E h \in Handlers :
               Drain(h) \/ HandleStarted(h) \/ HandleProjected(h) \/ HandleUnconsumed(h)
               \/ HandleFinished(h) \/ Resubmit(h) \/ Handoff(h) \/ HandoffSaved(h) \/ SendHandoff(h)
    BY <2>7, DrainHanded, HandleStartedHanded, HandleProjectedHanded, HandleUnconsumedHanded,
       HandleFinishedHanded, ResubmitHanded, HandoffHanded, SendHandoffHanded
  <2> QED BY <1>4, <2>1, <2>2, <2>3, <2>4, <2>5, <2>6, <2>7 DEF Next
<1> QED BY <1>1, <1>4

(* Supplements that a turn handed back start a turn of their own: when     *)
(* everything is at rest after a turn that completed normally, none lies   *)
(* there, whichever thread handled the events, as long as nothing failed.  *)
THEOREM HandedBackAreSent == Spec => []HandedBackStartsATurn
<1> DEFINE Inv == UndoneByFault /\ (Faultless => Handed)
<1>1. Init => Inv
  BY HandedInit
<1>2. ASSUME Types, Types', Steady => Led, Inv, [Next]_vars
      PROVE  Inv'
  <2>1. Remembers
    BY <1>2, HistoryStep
  <2>2. UndoneByFault'
    BY <1>2, <2>1 DEF Remembers
  <2>3. ASSUME Faultless' PROVE Handed'
    <3>1. Faultless
      BY <2>1, <2>3 DEF Remembers
    <3>2. Led
      BY <1>2, <3>1 DEF Faultless, UndoneByFault, Steady
    <3> QED BY <1>2, <2>3, <3>1, <3>2, NextHanded
  <2> QED BY <2>2, <2>3
<1>3. ASSUME Types, Inv
      PROVE  HandedBackStartsATurn
  <2> SUFFICES ASSUME AtRest, hist.last = "clean", hist.faults = 0, ~hist.hurried,
                      session.unconsumed # {}
               PROVE  FALSE
    BY DEF HandedBackStartsATurn
  <2>1. Coming \/ Resubmits
    BY <1>3 DEF Faultless, Handed
  <2>2. pc["lane"].at = "idle" /\ \A h \in Handlers : pc[h].at = "idle"
    BY ThreadsApart DEF AtRest, At
  <2>3. "idle" \notin HandlerSteps \cup {"settle"}
    BY DEF HandlerSteps, HandoffSteps
  <2>4. pc["lane"].back # "settle"
    BY <1>3, <2>2, <2>3, NotSettling, ThreadsApart
  <2> QED BY <2>1, <2>2, <2>4 DEF AtRest, Coming, LaneMode, Resubmits
<1> HIDE DEF Inv
<1>4. Types /\ Types' /\ (Steady => Led) /\ Inv /\ [Next]_vars => Inv'
  BY <1>2
<1>5. Types /\ Inv => HandedBackStartsATurn
  BY <1>3
<1> QED BY <1>1, <1>4, <1>5, SessionLed, PTL DEF Spec

-----------------------------------------------------------------------------
(* The turns of the list are accounted for.                                 *)

(* Nor have two threads handled events out of their order. *)
Calm == Steady /\ ~hist.overtaken

(* A turn of the list that is not over is the one that is there, or was    *)
(* left behind; one that is over but still to start was cancelled; and the *)
(* turn that is there is in the list, unless it is a queued message's.     *)
OpenIn(s) == {t \in Turns : s.turns[t] \in {"pending", "working"}}

Closed(s, stranded) ==
  /\ \A t \in OpenIn(s) : t = Current(s) \/ t \in stranded
  /\ s.pending # NoTurn /\ s.turns[s.pending] = "done" => s.cancelling = s.pending
  /\ Current(s) # NoTurn /\ s.dispatching = NoTurn => s.turns[Current(s)] # "none"

(* What is put back has the same turn in the same state, with what was     *)
(* added to it but for the entry that is taken back.                        *)
Resembles(r, s, ids) ==
  /\ r.pending = s.pending /\ r.active = s.active
  /\ \A t \in Turns : s.entries[t] \subseteq r.entries[t] \cup ids

OwnEntry(r) == IF r.at = "save_entry" THEN r.ids ELSE {}

Closing(r, stranded) ==
  r.at \in RestoringSteps =>
    /\ Closed(r.image, stranded)
    /\ r.at \notin NewTurnSteps => Resembles(r.image, r.left, OwnEntry(r))

Tidy ==
  /\ Closed(session, hist.stranded)
  /\ \A p \in Threads : Closing(pc[p], hist.stranded)

(* The session will know Core's start by these ids: the turn is pending    *)
(* and has them, or the message is the one being sent.                      *)
Knows(s, ids) ==
  s.dispatching = NoTurn => /\ s.active = NoTurn /\ s.pending # NoTurn
                            /\ ids \subseteq s.entries[s.pending]

(* What Core is told of the commands a thread carries. *)
SentIds(r) == IF r.at \in {"save_handoff", "send_handoff"} THEN {} ELSE r.ids

Ready ==
  /\ \A p \in Threads : Carries(p) => Knows(session, SentIds(pc[p]))
  /\ session.asking # NoTurn => Knows(session, session.askedFor)
  /\ core.queue # <<>> => Knows(session, core.queue[1].ids)
  /\ \A e \in Underway : e.kind = "started" => Knows(session, e.ids)

(* Events are of the turn that is there, and its end is to come.  One      *)
(* thread, the elder, has what was drained before; the start of a turn is  *)
(* before all the rest, and the end after it.                               *)
InCore == core.run # NoRun \/ ~NoneEnds
EventsAreLive == (\A e \in Underway : e.turn = Current(session)) /\ (Underway # {} => InCore)
ElderHears ==
  \A h \in Handlers :
    /\ hand[h] # <<>> => hand[hist.elder] # <<>>
    /\ hand[h] # <<>> /\ h # hist.elder => NoneFinished(hand[hist.elder])
StartsComeFirst ==
  /\ \A i \in DOMAIN channel :
       channel[i].kind = "started" => i = 1 /\ \A h \in Handlers : hand[h] = <<>>
  /\ \A h \in Handlers : \A i \in DOMAIN hand[h] :
       hand[h][i].kind = "started" => i = 1 /\ h = hist.elder
StartIsHeard ==
  InCore => session.active = Current(session) \/ \E e \in Underway : e.kind = "started"

Orderly == EventsAreLive /\ ElderHears /\ StartsComeFirst /\ StartIsHeard

Accounted == Tidy /\ Ready /\ Orderly

(* Sessions that agree on these are closed alike. *)
SameTurnsListed(r, s) ==
  /\ r.turns = s.turns /\ r.pending = s.pending /\ r.active = s.active
  /\ r.cancelling = s.cancelling /\ r.dispatching = s.dispatching

LEMMA ClosedAlike ==
    ASSUME NEW r, NEW s, SameTurnsListed(r, s), NEW S, NEW Z, S \subseteq Z, Closed(s, S)
    PROVE  Closed(r, Z)
BY DEF SameTurnsListed, Closed, OpenIn, Current

LEMMA ClosingMore ==
    ASSUME NEW r, NEW S, NEW Z, S \subseteq Z, Closing(r, S)
    PROVE  Closing(r, Z)
BY DEF Closing, Closed

LEMMA KnowsStill ==
    ASSUME NEW s \in SessionType, NEW r \in SessionType, NEW ids, NEW own, Knows(s, ids), own \cap ids = {},
           r.pending = s.pending, r.active = s.active, r.dispatching = s.dispatching,
           \A t \in Turns : s.entries[t] \subseteq r.entries[t] \cup own
    PROVE  Knows(r, ids)
<1> SUFFICES ASSUME r.dispatching = NoTurn
             PROVE  r.active = NoTurn /\ r.pending # NoTurn /\ ids \subseteq r.entries[r.pending]
  BY DEF Knows
<1>1. s.active = NoTurn /\ s.pending # NoTurn /\ ids \subseteq s.entries[s.pending]
  BY DEF Knows
<1>2. s.pending \in Turns
  BY <1>1 DEF SessionType, MaybeTurn
<1>3. ids \subseteq r.entries[s.pending] \cup own
  BY <1>1, <1>2
<1> QED BY <1>1, <1>3

(* With nothing of the turn in Core no event is under way. *)
LEMMA NothingUnderway ==
    ASSUME Orderly, CoreIdle
    PROVE  Underway = {}
BY DEF Orderly, EventsAreLive, InCore, CoreIdle

LEMMA NoneInIt ==
    ASSUME NEW s \in Seq(EventType), ToSet(s) = {}
    PROVE  s = <<>>
<1>1. s # <<>> => 1 \in DOMAIN s
  OBVIOUS
<1>2. 1 \in DOMAIN s => s[1] \in ToSet(s)
  BY DEF ToSet
<1> QED BY <1>1, <1>2

LEMMA NoEvents ==
    ASSUME Types, Underway = {}
    PROVE  channel = <<>> /\ \A h \in Handlers : hand[h] = <<>>
<1>1. \A h \in Handlers : hand[h] \in Seq(EventType)
  BY Unpacked DEF EventsOK
<1>2. channel \in Seq(EventType)
  BY Unpacked DEF EventsOK
<1>3. ToSet(channel) = {} /\ \A h \in Handlers : ToSet(hand[h]) = {}
  BY DEF Underway
<1> QED BY <1>1, <1>2, <1>3, NoneInIt

LEMMA NoEventsNoOrder ==
    ASSUME hist'.elder \in Handlers, channel' = <<>>, \A h \in Handlers : hand'[h] = <<>>, ~InCore'
    PROVE  Orderly'
<1>1. \A h \in Handlers : hand'[h] = <<>>
  OBVIOUS
<1>2. Underway' = {}
  BY DEF Underway, ToSet
<1>3. ElderHears' /\ StartsComeFirst'
  BY DEF ElderHears, StartsComeFirst
<1> QED BY <1>2, <1>3 DEF Orderly, EventsAreLive, StartIsHeard

LEMMA OrderlyKept ==
    ASSUME Types, Orderly, UNCHANGED <<channel, hand>>, hist'.elder = hist.elder,
           core'.run = NoRun <=> core.run = NoRun,
           Current(session') = Current(session), session'.active = session.active
    PROVE  Orderly'
<1>1. Underway' = Underway
  BY DEF Underway
<1>2. InCore' <=> InCore
  BY DEF InCore, NoneEnds
<1>3. EventsAreLive' /\ StartIsHeard'
  BY <1>1, <1>2 DEF Orderly, EventsAreLive, StartIsHeard
<1>4. ElderHears' /\ StartsComeFirst'
  BY DEF Orderly, ElderHears, StartsComeFirst
<1> QED BY <1>3, <1>4 DEF Orderly

(* The images of the other threads are as good as before. *)
LEMMA TidyAfter ==
    ASSUME Tidy, NEW p \in Threads, Alone(p), hist.stranded \subseteq hist'.stranded,
           Closed(session', hist'.stranded), Closing(pc'[p], hist'.stranded)
    PROVE  Tidy'
<1>1. ASSUME NEW q \in Threads PROVE Closing(pc'[q], hist'.stranded)
  BY ClosingMore DEF Tidy, Alone
<1> QED BY <1>1 DEF Tidy

(* What a thread has of its own, no other has and Core does not know. *)
LEMMA OwnIsApart ==
    ASSUME Types, Grown, Led, NEW p \in Threads, NEW own, own = {} \/ own \subseteq SpareOf(p, pc[p])
    PROVE  /\ \A q \in Threads : Carries(q) => own \cap SentIds(pc[q]) = {}
           /\ session.asking # NoTurn => own \cap session.askedFor = {}
           /\ core.queue # <<>> => own \cap core.queue[1].ids = {}
           /\ \A e \in Underway : own \cap e.ids = {}
<1>1. ASSUME NEW x \in own
      PROVE  x \in Names /\ IsSpare(x) /\ x \notin core.known /\ ~IsHeld(x)
  <2>1. x \in SpareOf(p, pc[p])
    BY <1>1
  <2>2. pc[p] \in ThreadType /\ ThreadOK(p, pc[p])
    BY Unpacked DEF ThreadsOK
  <2>3. x \in Names
    BY <2>1, <2>2 DEF SpareOf, ThreadType, ThreadOK
  <2> QED BY <2>1, <2>3 DEF Led, Apart, SpareApart, IsSpare
<1>2. ASSUME NEW q \in Threads, Carries(q), NEW x \in SentIds(pc[q])
      PROVE  IsHeld(x)
  <2>1. x \in HeldBy(pc[q])
    BY <1>2 DEF SentIds, HeldBy, HoldingSteps, Carries
  <2> QED BY <2>1 DEF IsHeld
<1>3. session.asking # NoTurn => \A x \in session.askedFor : IsHeld(x)
  BY DEF IsHeld, AskedIds
<1>4. core.queue # <<>> => core.queue[1].ids \subseteq core.known
  BY FirstSubmission, Unpacked DEF Grown, CoreWithin
<1>5. \A e \in Underway : e.ids \subseteq core.known
  BY DEF Grown
<1>6. \A x \in own : x \notin core.known /\ ~IsHeld(x)
  BY <1>1
<1> QED BY <1>2, <1>3, <1>4, <1>5, <1>6

(* The turn that is there stays where it is. *)
LEMMA SameTurnAccounted ==
    ASSUME Types, Types', Grown, Led, Accounted, NEW p \in Threads, Alone(p),
           UNCHANGED <<channel, hand>>, hist'.elder = hist.elder,
           hist.stranded \subseteq hist'.stranded, SameTurns,
           SameBurden(p), Carries(p) => SentIds(pc'[p]) \subseteq SentIds(pc[p]),
           session'.pending = session.pending, session'.active = session.active,
           session'.dispatching = session.dispatching,
           session'.asking = session.asking, session'.askedFor = session.askedFor,
           NEW own, own = {} \/ own \subseteq SpareOf(p, pc[p]),
           \A t \in Turns : session.entries[t] \subseteq session'.entries[t] \cup own,
           Closed(session', hist'.stranded), Closing(pc'[p], hist'.stranded)
    PROVE  Accounted'
<1>1. Tidy'
  BY TidyAfter DEF Accounted
<1>2. Orderly'
  BY OrderlyKept DEF Accounted, SameTurns, Current
<1>3. ASSUME NEW ids, Knows(session, ids), own \cap ids = {}
      PROVE  Knows(session', ids)
  <2>1. session \in SessionType /\ session' \in SessionType
    BY DEF Types, SessionOK
  <2> QED BY <1>3, <2>1, KnowsStill
<1>4. /\ \A q \in Threads : Carries(q) => own \cap SentIds(pc[q]) = {}
      /\ session.asking # NoTurn => own \cap session.askedFor = {}
      /\ core.queue # <<>> => own \cap core.queue[1].ids = {}
      /\ \A e \in Underway : own \cap e.ids = {}
  BY OwnIsApart
<1>5. ASSUME NEW q \in Threads, Carries(q)'
      PROVE  Knows(session', SentIds(pc'[q]))
  <2>1. Carries(q) /\ SentIds(pc'[q]) \subseteq SentIds(pc[q])
    BY <1>5 DEF Alone, SameBurden, Carries
  <2>2. Knows(session, SentIds(pc[q])) /\ own \cap SentIds(pc[q]) = {}
    BY <2>1, <1>4 DEF Accounted, Ready
  <2>3. Knows(session', SentIds(pc[q]))
    BY <2>2, <1>3
  <2> QED BY <2>1, <2>3 DEF Knows
<1>6. session'.asking # NoTurn => Knows(session', session'.askedFor)
  BY <1>3, <1>4 DEF Accounted, Ready
<1>7. core'.queue # <<>> => Knows(session', core'.queue[1].ids)
  <2> SUFFICES ASSUME core'.queue # <<>> PROVE Knows(session', core'.queue[1].ids)
    OBVIOUS
  <2>1. core.queue # <<>> /\ 1 \in DOMAIN core.queue
    BY FirstSubmission, Unpacked DEF SameTurns
  <2>2. core'.queue[1].ids = core.queue[1].ids
    BY <2>1 DEF SameTurns
  <2> QED BY <2>1, <2>2, <1>3, <1>4 DEF Accounted, Ready
<1>8. ASSUME NEW e \in Underway', e.kind = "started"
      PROVE  Knows(session', e.ids)
  <2>1. e \in Underway
    BY DEF Underway
  <2> QED BY <2>1, <1>3, <1>4, <1>8 DEF Accounted, Ready
<1>9. Ready'
  BY <1>5, <1>6, <1>7, <1>8 DEF Ready
<1> QED BY <1>1, <1>2, <1>9 DEF Accounted

(* With no event under way a thread takes up a turn, brings it on or lets  *)
(* it go.                                                                   *)
LEMMA FreshlyAccounted ==
    ASSUME Types, Types', Led, Accounted, CoreIdle, NEW p \in Threads, Alone(p),
           UNCHANGED <<channel, hand>>, core'.run = core.run,
           hist.stranded \subseteq hist'.stranded,
           \A q \in Threads : q # p => ~Carries(q),
           Carries(p)' => Knows(session', SentIds(pc'[p])),
           session'.asking # NoTurn => Knows(session', session'.askedFor),
           core'.queue # <<>> => Knows(session', core'.queue[1].ids),
           Closed(session', hist'.stranded), Closing(pc'[p], hist'.stranded)
    PROVE  Accounted'
<1>1. Tidy'
  BY TidyAfter DEF Accounted
<1>2. channel = <<>> /\ \A h \in Handlers : hand[h] = <<>>
  BY NothingUnderway, NoEvents DEF Accounted
<1>3. Underway' = {}
  BY NothingUnderway DEF Accounted, Underway
<1>4. Orderly'
  <2>1. ~InCore'
    BY DEF CoreIdle, InCore, NoneEnds
  <2>2. hist'.elder \in Handlers
    BY DEF Types, HistType
  <2> QED BY <1>2, <2>1, <2>2, NoEventsNoOrder
<1>5. Ready'
  BY <1>3 DEF Ready, Alone, Carries
<1> QED BY <1>1, <1>4, <1>5 DEF Accounted

LEMMA ElderStays ==
    ASSUME hist \in HistType,
           \/ hist' = hist \/ hist' = Failed(hist) \/ hist' = Made(hist)
           \/ \E t : Strand(t)
           \/ \E c : hist' = [hist EXCEPT !.sent = @ \cup {c}]
           \/ \E b : hist' = [hist EXCEPT !.hurried = @ \/ b]
           \/ \E b : hist' = [Failed(hist) EXCEPT !.undone = @ \/ b]
           \/ \E ids : hist' = [hist EXCEPT !.reached = @ \cup ids]
           \/ \E ids : hist' = [hist EXCEPT !.accepted = @ \cup ids]
           \/ \E last : hist' = [hist EXCEPT !.stops = @ + 1, !.last = last]
    PROVE  hist'.elder = hist.elder /\ hist.stranded \subseteq hist'.stranded
BY DEF HistType, Failed, Made, Strand

(* What the session keeps of its turns, as the list and the ids show it. *)
SameListed(r, s) ==
  /\ SameTurnsListed(r, s) /\ r.asking = s.asking /\ r.askedFor = s.askedFor
  /\ r.entries = s.entries

LEMMA NotRestoring ==
    ASSUME NEW r, NEW S, r.at \notin RestoringSteps
    PROVE  Closing(r, S)
BY DEF Closing

(* A thread goes on without a turn in hand. *)
LEMMA UnmovedAccounted ==
    ASSUME Types, Types', Grown, Led, Accounted, NEW p \in Threads, Alone(p), ~Carries(p),
           UNCHANGED <<channel, hand>>, hist'.elder = hist.elder,
           hist.stranded \subseteq hist'.stranded, SameTurns, SameListed(session', session),
           pc'[p].at \notin CarryingSteps \cup RestoringSteps
    PROVE  Accounted'
<1>1. SameBurden(p)
  BY CarryingIs DEF SameBurden
<1>2. Closed(session', hist'.stranded)
  BY ClosedAlike DEF Accounted, Tidy, SameListed
<1>3. Closing(pc'[p], hist'.stranded)
  BY NotRestoring
<1>4. \A t \in Turns : session.entries[t] \subseteq session'.entries[t] \cup {}
  BY DEF SameListed
<1> QED BY <1>1, <1>2, <1>3, <1>4, SameTurnAccounted DEF SameListed, SameTurnsListed

LEMMA LightAccounted ==
    ASSUME Types, Types', Grown, Led, Accounted, NEW p \in Threads, Light(p), ~Carries(p),
           UNCHANGED <<channel, hand>>, hist'.elder = hist.elder,
           hist.stranded \subseteq hist'.stranded, SameTurns, SameListed(session', session)
    PROVE  Accounted'
BY UnmovedAccounted DEF Light

(* A thread saves what it has done, and no turn is new. *)
LEMMA SavingAccounted ==
    ASSUME Types, Types', Grown, Led, Accounted, NEW p \in Threads, ~Carries(p),
           UNCHANGED <<core, channel, hand>>, hist'.elder = hist.elder,
           hist.stranded \subseteq hist'.stranded,
           NEW x \in SavingSteps \ NewTurnSteps, NEW t \in MaybeTurn, NEW ids \in SUBSET Names,
           Save(p, x, t, ids),
           session'.pending = session.pending, session'.active = session.active,
           session'.dispatching = session.dispatching,
           session'.asking = session.asking, session'.askedFor = session.askedFor,
           \A u \in Turns : session.entries[u] \subseteq session'.entries[u],
           \A u \in Turns : session'.entries[u] \subseteq
                              session.entries[u] \cup (IF x = "save_entry" THEN ids ELSE {}),
           Closed(session', hist'.stranded)
    PROVE  Accounted'
<1>1. x \in Steps /\ session' \in SessionType
  BY AllSteps DEF SavingSteps, Types, SessionOK
<1>2. Alone(p) /\ pc'[p].at = x /\ pc'[p].ids = ids /\ pc'[p].image = session /\ pc'[p].left = session'
  BY <1>1, SaveEffect, Unpacked
<1>3. ~Carries(p)' /\ SameBurden(p) /\ SameTurns
  BY <1>2, CarryingIs, SameCore DEF SameBurden
<1>4. Closed(session, hist'.stranded)
  BY ClosedAlike DEF Accounted, Tidy, SameTurnsListed
<1>5. Closing(pc'[p], hist'.stranded)
  BY <1>2, <1>4 DEF Closing, Resembles, OwnEntry
<1>6. \A u \in Turns : session.entries[u] \subseteq session'.entries[u] \cup {}
  OBVIOUS
<1> QED BY <1>2, <1>3, <1>5, <1>6, SameTurnAccounted

(* A save that fails takes back what only it has done. *)
LEMMA PutBackAccounted ==
    ASSUME Types, Types', Grown, Led, Accounted, Calm', NEW p \in Threads,
           UNCHANGED <<core, channel, hand>>, pc[p].at \in SavingSteps \ NewTurnSteps,
           PutBack(p), End(p)
    PROVE  Accounted'
<1>1. session' = pc[p].image /\ session = pc[p].left /\ hist'.stranded = hist.stranded
  BY PutBackEffect, Unpacked DEF Steady, Calm
<1>2. SameTurn(session', session)
  BY <1>1 DEF Led, Fitting, RestoringSteps
<1>3. Closed(session', hist'.stranded) /\ Resembles(session', session, OwnEntry(pc[p]))
  BY <1>1 DEF Accounted, Tidy, Closing, RestoringSteps
<1>4. Light(p)
  BY EndLight
<1>5. Alone(p) /\ ~Carries(p)' /\ pc'[p].at \notin RestoringSteps
  BY <1>4, LightStep DEF Light
<1>6. ~Carries(p)
  BY CarryingIs
<1>7. SameBurden(p) /\ SameTurns
  BY <1>5, <1>6, SameCore DEF SameBurden
<1>8. Closing(pc'[p], hist'.stranded)
  BY <1>5, NotRestoring
<1>9. OwnEntry(pc[p]) = {} \/ OwnEntry(pc[p]) \subseteq SpareOf(p, pc[p])
  BY DEF OwnEntry, SpareOf
<1>10. hist'.elder = hist.elder
  BY ElderStays, Unpacked DEF PutBack
<1> QED BY <1>1, <1>2, <1>3, <1>5, <1>6, <1>7, <1>8, <1>9, <1>10, SameTurnAccounted
    DEF SameTurn, Resembles

LEMMA SameListedItself == SameListed(session, session)
BY DEF SameListed, SameTurnsListed

LEMMA SentAccounted ==
    ASSUME Types, Types', Grown, Led, Accounted, NEW p \in {"lane", "task"}, pc[p].at = "idle",
           NEW x \in {"start", "enqueue", "append"}, NEW c \in Names,
           Begin(p, x, c), hist' = [hist EXCEPT !.sent = @ \cup {c}],
           UNCHANGED <<session, core, channel, hand>>
    PROVE  Accounted'
<1>1. p \in Threads /\ ~Carries(p)
  BY ThreadsApart DEF Carries
<1>2. Light(p)
  BY <1>1, BeginLight
<1>3. hist'.elder = hist.elder /\ hist.stranded \subseteq hist'.stranded
  BY ElderStays, Unpacked
<1> QED BY <1>1, <1>2, <1>3, LightAccounted, SameCore, SameListedItself

LEMMA SubmitAccounted ==
    ASSUME Types, Types', Grown, Led, Accounted, NEW c \in Commands, Submit(c) \/ Supplement(c)
    PROVE  Accounted'
<1>1. pc["lane"].at = "idle" /\ c \in Names
  BY DEF Submit, Supplement, At, Names
<1>2. CASE Submit(c)
  <2> DEFINE x == IF Quiet(session) THEN "start" ELSE "enqueue"
  <2>1. x \in {"start", "enqueue", "append"} /\ Begin("lane", x, c)
    BY <1>2 DEF Submit
  <2> HIDE DEF x
  <2> QED BY <1>1, <1>2, <2>1, SentAccounted DEF Submit
<1>3. CASE Supplement(c)
  <2> DEFINE x == IF HasActive(session) THEN "append" ELSE "start"
  <2>1. x \in {"start", "enqueue", "append"} /\ Begin("lane", x, c)
    BY <1>3 DEF Supplement
  <2> HIDE DEF x
  <2> QED BY <1>1, <1>3, <2>1, SentAccounted DEF Supplement
<1> QED BY <1>2, <1>3

LEMMA FireAccounted ==
    ASSUME Types, Types', Grown, Led, Accounted, NEW f \in Fires, Fire(f)
    PROVE  Accounted'
<1>1. pc["task"].at = "idle" /\ f \in Names
  BY DEF Fire, At, Names
<1> DEFINE x == IF Quiet(session) THEN "start" ELSE "enqueue"
<1>2. x \in {"start", "enqueue", "append"} /\ Begin("task", x, f)
  BY DEF Fire
<1> HIDE DEF x
<1> QED BY <1>1, <1>2, SentAccounted DEF Fire

LEMMA SettledAccounted ==
    ASSUME Types, Types', Grown, Led, Accounted, Settled
    PROVE  Accounted'
<1>1. /\ pc["lane"].at = "settle" /\ UNCHANGED <<session, core, channel, hand, hist>>
      /\ "lane" \in Threads /\ ~Carries("lane")
  BY ThreadsApart DEF Settled, At, Carries
<1>2. pc["lane"].cmd \in Names
  BY <1>1, ThreadFields, Unpacked DEF Says
<1>3. Light("lane")
  BY <1>1, <1>2, BeginLight, EndLight DEF Settled
<1>4. hist'.elder = hist.elder /\ hist.stranded \subseteq hist'.stranded
  BY <1>1
<1> QED BY <1>1, <1>3, <1>4, LightAccounted, SameCore, SameListedItself

LEMMA SendNowAccounted ==
    ASSUME Types, Types', Grown, Led, Accounted, NEW item \in ToSet(session.queue), SendNow(item)
    PROVE  Accounted'
<1>1. /\ pc["lane"].at = "idle" /\ UNCHANGED <<session, core, channel, hand, hist>>
      /\ "lane" \in Threads /\ ~Carries("lane")
  BY ThreadsApart DEF SendNow, At, Carries
<1> DEFINE x == IF HasActive(session) THEN "append_now" ELSE "now"
<1>2. {item.id} \in SUBSET Names /\ NoTurn \in MaybeTurn
  BY FoundItem DEF Item, MaybeTurn
<1>3. x \in Steps /\ x \in {"append_now", "now"} /\ Carry("lane", x, NoTurn, {item.id})
  BY AllSteps DEF SendNow
<1> HIDE DEF x
<1>4. Alone("lane") /\ pc'["lane"].at = x
  BY <1>1, <1>2, <1>3, CarryEffect, Unpacked
<1>5. pc'["lane"].at \notin CarryingSteps \cup RestoringSteps
  BY <1>3, <1>4 DEF CarryingSteps, RestoringSteps, SavingSteps
<1>6. hist'.elder = hist.elder /\ hist.stranded \subseteq hist'.stranded
  BY <1>1
<1> QED BY <1>1, <1>4, <1>5, <1>6, UnmovedAccounted, SameCore, SameListedItself

LEMMA StopCoreAccounted ==
    ASSUME Types, Types', Grown, Led, Accounted, StopCore
    PROVE  Accounted'
<1>1. /\ pc["lane"].at = "stop" /\ UNCHANGED <<session, channel, hand, hist>> /\ "lane" \in Threads
      /\ End("lane") /\ ~Carries("lane")
  BY ThreadsApart DEF StopCore, At, Carries
<1>2. SameTurns
  BY StopCoreEffect, Unpacked DEF SameTurns
<1>3. hist'.elder = hist.elder /\ hist.stranded \subseteq hist'.stranded
  BY <1>1
<1> QED BY <1>1, <1>2, <1>3, EndLight, LightAccounted, SameListedItself

LEMMA EntrySavedAccounted ==
    ASSUME Types, Types', Grown, Led, Accounted, Calm', EntrySaved
    PROVE  Accounted'
<1>1. /\ pc["lane"].at = "save_entry" /\ UNCHANGED <<channel, hand>> /\ "lane" \in Threads /\ End("lane")
      /\ ~Carries("lane")
  BY ThreadsApart DEF EntrySaved, At, Carries
<1>2. CASE /\ core' = [core EXCEPT !.mail = @ \cup pc["lane"].ids, !.known = @ \cup pc["lane"].ids]
           /\ hist' = [hist EXCEPT !.accepted = @ \cup pc["lane"].ids]
           /\ UNCHANGED session
  <2>1. core'.queue = core.queue /\ core'.run = core.run
    BY <1>2, Unpacked DEF CoreOK, CoreType
  <2>2. hist'.elder = hist.elder /\ hist.stranded \subseteq hist'.stranded
    BY <1>2, ElderStays, Unpacked
  <2> QED BY <1>1, <1>2, <2>1, <2>2, EndLight, LightAccounted, SameCore, SameListedItself
<1>3. CASE PutBack("lane") /\ UNCHANGED core
  <2>1. pc["lane"].at \in SavingSteps \ NewTurnSteps
    BY <1>1 DEF SavingSteps, NewTurnSteps
  <2> QED BY <1>1, <1>3, <2>1, PutBackAccounted
<1> QED BY <1>2, <1>3 DEF EntrySaved

LEMMA NoteAccounted ==
    ASSUME Types, Types', Grown, Led, Accounted, Note
    PROVE  Accounted'
<1>1. /\ pc["lane"].at = "note" /\ UNCHANGED <<session, core, channel, hand, hist>>
      /\ "lane" \in Threads /\ ~Carries("lane")
  BY ThreadsApart DEF Note, At, Carries
<1>2. hist'.elder = hist.elder /\ hist.stranded \subseteq hist'.stranded
  BY <1>1
<1>3. CASE End("lane")
  BY <1>1, <1>2, <1>3, EndLight, LightAccounted, SameCore, SameListedItself
<1>4. CASE Save("lane", "save_note", NoTurn, {})
  <2>1. "save_note" \in SavingSteps \ NewTurnSteps /\ NoTurn \in MaybeTurn /\ {} \in SUBSET Names
    BY DEF SavingSteps, NewTurnSteps, MaybeTurn
  <2>2. Closed(session', hist'.stranded)
    BY <1>1, <1>2, ClosedAlike, SameListedItself DEF Accounted, Tidy, SameListed
  <2>3. \A u \in Turns : session.entries[u] \subseteq session'.entries[u]
    BY <1>1
  <2>4. \A u \in Turns : session'.entries[u] \subseteq session.entries[u] \cup
                           (IF "save_note" = "save_entry" THEN {} ELSE {})
    BY <1>1
  <2> QED BY <1>1, <1>2, <1>4, <2>1, <2>2, <2>3, <2>4, SavingAccounted
<1> QED BY <1>3, <1>4 DEF Note

LEMMA SavedAccounted ==
    ASSUME Types, Types', Grown, Led, Accounted, Calm',
           \/ NoteSaved \/ StopSaved \/ \E p \in Threads : QueueSaved(p)
    PROVE  Accounted'
<1>1. CASE NoteSaved
  <2>1. /\ pc["lane"].at = "save_note" /\ UNCHANGED <<core, channel, hand>> /\ "lane" \in Threads
        /\ End("lane") /\ ~Carries("lane") /\ "save_note" \in SavingSteps \ NewTurnSteps
    BY <1>1, ThreadsApart DEF NoteSaved, At, Carries, SavingSteps, NewTurnSteps
  <2>2. CASE UNCHANGED <<session, hist>>
    BY <2>1, <2>2, EndLight, LightAccounted, SameCore, SameListedItself
  <2>3. CASE PutBack("lane")
    BY <2>1, <2>3, PutBackAccounted
  <2> QED BY <1>1, <2>2, <2>3 DEF NoteSaved
<1>2. CASE StopSaved
  <2>1. /\ pc["lane"].at = "save_stop" /\ UNCHANGED <<core, channel, hand>> /\ "lane" \in Threads
        /\ ~Carries("lane") /\ "save_stop" \in SavingSteps \ NewTurnSteps /\ "stop" \in Steps
    BY <1>2, ThreadsApart, AllSteps DEF StopSaved, At, Carries, SavingSteps, NewTurnSteps
  <2>2. CASE Go("lane", "stop") /\ UNCHANGED <<session, hist>>
    <3>1. Alone("lane") /\ pc'["lane"].at = "stop"
      BY <2>1, <2>2, GoEffect, Unpacked
    <3>2. Light("lane")
      BY <3>1 DEF Light, CarryingSteps, RestoringSteps, SavingSteps
    <3> QED BY <2>1, <2>2, <3>2, LightAccounted, SameCore, SameListedItself
  <2>3. CASE PutBack("lane") /\ End("lane")
    BY <2>1, <2>3, PutBackAccounted
  <2> QED BY <1>2, <2>2, <2>3 DEF StopSaved
<1>3. ASSUME NEW p \in Threads, QueueSaved(p)
      PROVE  Accounted'
  <2>1. /\ pc[p].at = "save_queue" /\ UNCHANGED <<core, channel, hand>>
        /\ ~Carries(p) /\ "save_queue" \in SavingSteps \ NewTurnSteps /\ "dispatch" \in Steps
    BY <1>3, AllSteps DEF QueueSaved, At, Carries, SavingSteps, NewTurnSteps
  <2>2. CASE Go(p, "dispatch") /\ UNCHANGED <<session, hist>>
    <3>1. Alone(p) /\ pc'[p].at = "dispatch"
      BY <2>1, <2>2, GoEffect, Unpacked
    <3>2. Light(p)
      BY <3>1 DEF Light, CarryingSteps, RestoringSteps, SavingSteps
    <3> QED BY <2>1, <2>2, <3>2, LightAccounted, SameCore, SameListedItself
  <2>3. CASE PutBack(p) /\ End(p)
    BY <2>1, <2>3, PutBackAccounted
  <2> QED BY <1>3, <2>2, <2>3 DEF QueueSaved
<1> QED BY <1>1, <1>2, <1>3

LEMMA EnqueueAccounted ==
    ASSUME Types, Types', Grown, Led, Accounted, NEW p \in Threads, Enqueue(p)
    PROVE  Accounted'
<1>1. pc[p].at = "enqueue" /\ UNCHANGED <<core, channel, hand>> /\ p \in {"lane", "task"} /\ ~Carries(p)
  BY AtSteps, Unpacked DEF Enqueue, At, Carries
<1>2. hist'.elder = hist.elder /\ hist.stranded \subseteq hist'.stranded
  BY ElderStays, Unpacked DEF Enqueue
<1>3. CASE session' = session /\ End(p)
  BY <1>1, <1>2, <1>3, EndLight, LightAccounted, SameCore, SameListedItself
<1>4. CASE ~Quiet(session)
  <2>1. /\ Save(p, "save_queue", Fresh, {}) /\ Fresh \in Turns
        /\ session'.dispatching = session.dispatching /\ session'.cancelling = session.cancelling
        /\ session'.pending = session.pending /\ session'.active = session.active
        /\ session'.asking = session.asking /\ session'.askedFor = session.askedFor
        /\ session'.turns = session.turns /\ session'.entries = session.entries
    BY <1>1, <1>4, EnqueuedEffect
  <2>2. "save_queue" \in SavingSteps \ NewTurnSteps /\ Fresh \in MaybeTurn /\ {} \in SUBSET Names
    BY <2>1 DEF SavingSteps, NewTurnSteps, MaybeTurn
  <2>3. Closed(session', hist'.stranded)
    BY <1>2, <2>1, ClosedAlike DEF Accounted, Tidy, SameTurnsListed
  <2>4. \A u \in Turns : session.entries[u] \subseteq session'.entries[u]
    BY <2>1
  <2>5. \A u \in Turns : session'.entries[u] \subseteq session.entries[u] \cup
                           (IF "save_queue" = "save_entry" THEN {} ELSE {})
    BY <2>1
  <2> QED BY <1>1, <1>2, <2>1, <2>2, <2>3, <2>4, <2>5, SavingAccounted
<1> QED BY <1>3, <1>4 DEF Enqueue

(* An entry is added to the turn that is there. *)
LEMMA RecordedAccounted ==
    ASSUME Types, Types', Grown, Led, Accounted, "lane" \in Threads, ~Carries("lane"),
           UNCHANGED <<core, channel, hand, hist>>, NEW ids \in SUBSET Names,
           NEW s \in SessionType, SameListed(s, session), session' = Recorded(s, ids),
           Save("lane", "save_entry", NoTurn, ids)
    PROVE  Accounted'
<1>1. /\ session'.pending = s.pending /\ session'.active = s.active /\ session'.cancelling = s.cancelling
      /\ session'.asking = s.asking /\ session'.askedFor = s.askedFor /\ session'.turns = s.turns
      /\ session'.dispatching = s.dispatching
      /\ session'.entries = [s.entries EXCEPT ![Current(s)] = @ \cup ids]
  BY RecordedEffect DEF SameQueue
<1>2. \A u \in Turns : /\ s.entries[u] \subseteq session'.entries[u]
                       /\ session'.entries[u] \subseteq s.entries[u] \cup ids
  BY <1>1 DEF SessionType
<1>3. "save_entry" \in SavingSteps \ NewTurnSteps /\ NoTurn \in MaybeTurn
  BY DEF SavingSteps, NewTurnSteps, MaybeTurn
<1>4. Closed(session', hist'.stranded)
  BY <1>1, ClosedAlike DEF Accounted, Tidy, SameTurnsListed, SameListed
<1>5. \A u \in Turns : session.entries[u] \subseteq session'.entries[u]
  BY <1>2 DEF SameListed
<1>6. \A u \in Turns : session'.entries[u] \subseteq session.entries[u] \cup
                         (IF "save_entry" = "save_entry" THEN ids ELSE {})
  BY <1>2 DEF SameListed
<1>7. /\ session'.pending = session.pending /\ session'.active = session.active
      /\ session'.dispatching = session.dispatching
      /\ session'.asking = session.asking /\ session'.askedFor = session.askedFor
  BY <1>1 DEF SameListed, SameTurnsListed
<1>8. hist'.elder = hist.elder /\ hist.stranded \subseteq hist'.stranded
  OBVIOUS
<1> QED BY <1>3, <1>4, <1>5, <1>6, <1>7, <1>8, SavingAccounted

LEMMA AppendEntryAccounted ==
    ASSUME Types, Types', Grown, Led, Accounted, AppendEntry
    PROVE  Accounted'
<1>1. /\ pc["lane"].at = "append" /\ UNCHANGED <<core, channel, hand, hist>> /\ "lane" \in Threads
      /\ ~Carries("lane")
  BY ThreadsApart DEF AppendEntry, At, Carries
<1>2. pc["lane"].cmd \in Names /\ hist'.elder = hist.elder /\ hist.stranded \subseteq hist'.stranded
  BY <1>1, ThreadFields, Unpacked DEF Says
<1>3. CASE Become("lane", Resting("settle", pc["lane"].cmd)) /\ session' = session
  <2>1. Alone("lane") /\ pc'["lane"].at = "settle"
    BY <1>1, <1>2, <1>3, RestEffect, Unpacked
  <2>2. Light("lane")
    BY <2>1 DEF Light, CarryingSteps, RestoringSteps, SavingSteps
  <2> QED BY <1>1, <1>2, <1>3, <2>2, LightAccounted, SameCore, SameListedItself
<1>4. CASE End("lane") /\ session' = session
  BY <1>1, <1>2, <1>4, EndLight, LightAccounted, SameCore, SameListedItself
<1>5. CASE /\ session' = Recorded(session, {pc["lane"].cmd})
           /\ Save("lane", "save_entry", NoTurn, {pc["lane"].cmd})
  <2>1. {pc["lane"].cmd} \in SUBSET Names
    BY <1>2
  <2> QED BY <1>1, <1>5, <2>1, RecordedAccounted, SameListedItself, Unpacked
<1> QED BY <1>3, <1>4, <1>5 DEF AppendEntry

LEMMA SupplementNowAccounted ==
    ASSUME Types, Types', Grown, Led, Accounted, SupplementNow
    PROVE  Accounted'
<1>1. /\ pc["lane"].at = "append_now" /\ UNCHANGED <<core, channel, hand, hist>> /\ "lane" \in Threads
      /\ ~Carries("lane") /\ pc["lane"].ids \in SUBSET Names
  BY ThreadsApart, Unpacked DEF SupplementNow, At, Carries
<1>2. hist'.elder = hist.elder /\ hist.stranded \subseteq hist'.stranded
  BY <1>1
<1>3. CASE End("lane") /\ UNCHANGED session
  BY <1>1, <1>2, <1>3, EndLight, LightAccounted, SameCore, SameListedItself
<1>4. CASE /\ IsQueued(session, pc["lane"].ids)
           /\ session' = Recorded(Unqueued(session, pc["lane"].ids), pc["lane"].ids)
           /\ Save("lane", "save_entry", NoTurn, pc["lane"].ids)
  <2> DEFINE s == Unqueued(session, pc["lane"].ids)
  <2>1. s \in SessionType /\ SameListed(s, session)
    BY <1>1, <1>4, UnqueuedEffect, Unpacked DEF SameListed, SameTurnsListed
  <2>2. session' = Recorded(s, pc["lane"].ids)
    BY <1>4
  <2> HIDE DEF s
  <2> QED BY <1>1, <1>4, <2>1, <2>2, RecordedAccounted
<1> QED BY <1>3, <1>4 DEF SupplementNow

LEMMA ResubmitAccounted ==
    ASSUME Types, Types', Grown, Led, Accounted, NEW h \in Handlers, Resubmit(h)
    PROVE  Accounted'
<1> DEFINE x == IF session.unconsumed = {} THEN "dispatch" ELSE "handoff"
<1>1. /\ pc[h].at = "resubmit" /\ UNCHANGED <<core, channel, hand, hist>> /\ h \in Threads
      /\ session' = [session EXCEPT !.unconsumed = {}] /\ ~Carries(h)
      /\ Carry(h, x, NoTurn, session.unconsumed)
  BY ThreadsApart DEF Resubmit, At, Carries
<1>2. x \in Steps \ (CarryingSteps \cup RestoringSteps \cup {"append_now", "now"})
  BY AllSteps DEF CarryingSteps, RestoringSteps, SavingSteps, HandoffSteps
<1>3. NoTurn \in MaybeTurn /\ session.unconsumed \in SUBSET Names
  BY Unpacked DEF MaybeTurn, SessionType
<1> HIDE DEF x
<1>4. Alone(h) /\ pc'[h].at = x
  BY <1>1, <1>2, <1>3, CarryEffect, Unpacked
<1>5. Light(h)
  BY <1>2, <1>4 DEF Light
<1>6. SameListed(session', session)
  BY <1>1, Unpacked DEF SameListed, SameTurnsListed, SessionType
<1>7. hist'.elder = hist.elder /\ hist.stranded \subseteq hist'.stranded
  BY <1>1
<1> QED BY <1>1, <1>5, <1>6, <1>7, LightAccounted, SameCore

(* A Stop closes the turn that is there. *)
LEMMA CancelledClosed ==
    ASSUME Types, Sound(session), HasActive(session), session' = Cancelled(session),
           NEW S, Closed(session, S)
    PROVE  Closed(session', S)
<1> DEFINE s == session
           t == Current(session)
<1>1. /\ session'.pending = s.pending /\ session'.active = s.active /\ session'.cancelling = t
      /\ session'.dispatching = s.dispatching
      /\ session'.turns = [s.turns EXCEPT ![t] = "done"]
  BY CancelledEffect, Unpacked DEF SameQueue
<1>2. t \in Turns /\ t # NoTurn
  BY CurrentType, Unpacked DEF HasActive, MaybeTurn
<1>3. Current(session') = t
  BY <1>1 DEF Current
<1>4. s.pending # NoTurn => s.pending = t
  BY DEF Sound, OneThere, Current
<1> HIDE DEF t
<1>5. \A u \in Turns : session'.turns[u] = IF u = t THEN "done" ELSE s.turns[u]
  BY <1>1, Unpacked DEF SessionType
<1> QED BY <1>1, <1>2, <1>3, <1>4, <1>5 DEF Closed, OpenIn, t

(* A turn that the user is asked about is over at once. *)
LEMMA AbandonedClosed ==
    ASSUME Types, Sound(session), session.asking # NoTurn,
           session.pending # NoTurn, session.turns[session.pending] # "none",
           session' = Abandoned(session), NEW S, Closed(session, S)
    PROVE  Closed(session', S)
<1>1. /\ session'.pending = NoTurn /\ session'.active = NoTurn
      /\ session'.turns = [session.turns EXCEPT ![session.pending] = "done"]
  BY AbandonedEffect, Unpacked
<1>2. Current(session) = session.pending /\ session.pending \in Turns
  BY Unpacked DEF Sound, OneThere, Current, SessionType, MaybeTurn
<1>3. \A u \in Turns : session'.turns[u] = IF u = session.pending THEN "done" ELSE session.turns[u]
  BY <1>1, <1>2, Unpacked DEF SessionType
<1>4. Current(session') = NoTurn
  BY <1>1 DEF Current
<1> QED BY <1>1, <1>2, <1>3, <1>4 DEF Closed, OpenIn

LEMMA CancelAccounted ==
    ASSUME Types, Types', Grown, Led, Accounted, Cancel
    PROVE  Accounted'
<1>1. /\ pc["lane"].at = "idle" /\ UNCHANGED <<core, channel, hand>> /\ "lane" \in Threads
      /\ ~Carries("lane") /\ SameTurns
  BY ThreadsApart, SameCore DEF Cancel, At, Carries
<1>2. hist'.elder = hist.elder /\ hist.stranded \subseteq hist'.stranded
  <2> DEFINE last == IF session.asking # NoTurn THEN "stopped" ELSE hist.last
  <2>1. hist' = [hist EXCEPT !.stops = @ + 1, !.last = last]
    BY DEF Cancel
  <2> HIDE DEF last
  <2> QED BY <2>1, ElderStays, Unpacked
<1>3. Closed(session, hist'.stranded) /\ Closing(pc["lane"], hist'.stranded)
  BY <1>1, <1>2, ClosedAlike, ClosingMore, SameListedItself DEF Accounted, Tidy, SameListed
<1>4. CASE pc' = pc /\ session' = session
  <2>1. Alone("lane") /\ SameBurden("lane")
    BY <1>1, <1>4, StillAlone
  <2>2. \A t \in Turns : session.entries[t] \subseteq session'.entries[t] \cup {}
    BY <1>4
  <2> QED BY <1>1, <1>2, <1>3, <1>4, <2>1, <2>2, SameTurnAccounted
<1>5. CASE /\ session.asking # NoTurn /\ pc' = pc
           /\ session.pending # NoTurn /\ session.turns[session.pending] # "none"
           /\ session' = Abandoned(session)
  <2>1. Alone("lane")
    BY <1>1, <1>5, StillAlone
  <2>2. Closed(session', hist'.stranded)
    BY <1>3, <1>5, AbandonedClosed DEF Led
  <2>3. session'.asking = NoTurn
    BY <1>5, AbandonedSession, Unpacked DEF Led
  <2>4. CoreIdle /\ \A q \in Threads : ~Carries(q)
    BY <1>5 DEF Led, Token, AskedIsIdle, CarriedIsThere
  <2>5. ~Carries("lane")' /\ core'.queue = <<>> /\ core'.run = core.run
    BY <1>1, <1>5, <2>4 DEF Carries, CoreIdle
  <2> QED BY <1>1, <1>2, <1>3, <1>5, <2>1, <2>2, <2>3, <2>4, <2>5, FreshlyAccounted
<1>6. CASE /\ HasActive(session) /\ session' = Cancelled(session)
           /\ Save("lane", "save_stop", Current(session), {})
  <2>1. Closed(session', hist'.stranded)
    BY <1>3, <1>6, CancelledClosed DEF Led
  <2>2. /\ "save_stop" \in SavingSteps \ NewTurnSteps
        /\ Current(session) \in MaybeTurn /\ {} \in SUBSET Names
    BY CurrentType, Unpacked DEF SavingSteps, NewTurnSteps
  <2>3. /\ session'.dispatching = session.dispatching
        /\ session'.pending = session.pending /\ session'.active = session.active
        /\ session'.asking = session.asking /\ session'.askedFor = session.askedFor
        /\ session'.entries = session.entries
    BY <1>6, CancelledEffect, Unpacked DEF SameQueue
  <2>4. \A u \in Turns : session.entries[u] \subseteq session'.entries[u]
    BY <2>3
  <2>5. \A u \in Turns : session'.entries[u] \subseteq session.entries[u] \cup
                           (IF "save_stop" = "save_entry" THEN {} ELSE {})
    BY <2>3
  <2> QED BY <1>1, <1>2, <1>6, <2>1, <2>2, <2>3, <2>4, <2>5, SavingAccounted
<1>7. CASE session' = session /\ Carry("lane", "stop", Current(session), {})
  <2>1. "stop" \in Steps /\ Current(session) \in MaybeTurn /\ {} \in SUBSET Names
    BY CurrentType, AllSteps, Unpacked
  <2>2. Alone("lane") /\ pc'["lane"].at = "stop"
    BY <1>1, <1>7, <2>1, CarryEffect, Unpacked
  <2>3. Light("lane")
    BY <2>2 DEF Light, CarryingSteps, RestoringSteps, SavingSteps
  <2> QED BY <1>1, <1>2, <1>7, <2>3, LightAccounted, SameListedItself
<1> QED BY <1>4, <1>5, <1>6, <1>7 DEF Cancel

(* A thread takes up a turn while none is there. *)
LEMMA TakenUpAccounted ==
    ASSUME Types, Types', Led, Accounted, Current(session) = NoTurn, NEW p \in Threads, Alone(p),
           UNCHANGED <<core, channel, hand>>, hist.stranded \subseteq hist'.stranded,
           session'.asking = NoTurn, Knows(session', SentIds(pc'[p])),
           Closed(session', hist'.stranded), Closing(pc'[p], hist'.stranded)
    PROVE  Accounted'
<1>1. CoreIdle /\ \A q \in Threads : ~Carries(q)
  BY NothingIsThere DEF Led
<1>2. core'.queue = <<>> /\ core'.run = core.run
  BY <1>1 DEF CoreIdle
<1> QED BY <1>1, <1>2, FreshlyAccounted

LEMMA MadeClosed ==
    ASSUME Types, Grown, Sound(session), Current(session) = NoTurn, CanMake,
           NEW ids \in SUBSET Names, session' = NewTurn(session, Fresh, ids),
           NEW S, Closed(session, S)
    PROVE  Closed(session', S) /\ Knows(session', ids) /\ session'.asking = NoTurn
<1>1. Fresh \in Turns /\ Fresh # NoTurn
  BY FreshOK, Unpacked DEF Turns, NoTurn
<1> DEFINE s == session
           t == Fresh
<1>2. /\ session'.pending = t /\ session'.active = s.active
      /\ session'.dispatching = s.dispatching
      /\ session'.turns = [s.turns EXCEPT ![t] = "pending"]
      /\ session'.entries = [s.entries EXCEPT ![t] = ids]
  BY <1>1, NewTurnEffect, Unpacked DEF SameQueue
<1> HIDE DEF t
<1>3. s.active = NoTurn
  BY CurrentOfSound, Unpacked
<1>4. Current(session') = t
  BY <1>2, <1>3 DEF Current
<1>5. /\ \A u \in Turns : session'.turns[u] = IF u = t THEN "pending" ELSE s.turns[u]
      /\ t \in Turns /\ t # NoTurn /\ session'.entries[t] = ids
  BY <1>1, <1>2, Unpacked DEF SessionType, t
<1>10. \A u \in OpenIn(session) : u \in S
  BY DEF Closed, OpenIn, Turns, NoTurn
<1>6. Closed(session', S)
  BY <1>2, <1>4, <1>5, <1>10 DEF Closed, OpenIn
<1>7. Knows(session', ids)
  BY <1>2, <1>3, <1>5 DEF Knows
<1>8. session'.asking = NoTurn
  BY MadeSession
<1> QED BY <1>6, <1>7, <1>8

LEMMA StartAccounted ==
    ASSUME Types, Types', Grown, Led, Accounted, NEW p \in Threads, Start(p)
    PROVE  Accounted'
<1>1. /\ pc[p].at = "start" /\ UNCHANGED <<core, channel, hand>> /\ p \in {"lane", "task"}
      /\ Says(p, pc[p]) /\ ~Carries(p)
  BY AtSteps, Unpacked DEF Start, At, Says, Carries
<1>2. hist'.elder = hist.elder /\ hist.stranded \subseteq hist'.stranded
  BY ElderStays, Unpacked DEF Start
<1>3. CASE session' = session /\ Refused(p)
  BY <1>1, <1>2, <1>3, RefusedLight, LightAccounted, SameCore, SameListedItself
<1>4. CASE /\ Current(session) = NoTurn /\ CanMake
           /\ session' = NewTurn(session, Fresh, Ids(p))
           /\ Save(p, "save_turn", Fresh, Ids(p))
  <2>1. Ids(p) \in SUBSET Names
    BY <1>1, IdsOfThread
  <2>2. Fresh \in MaybeTurn /\ "save_turn" \in Steps /\ session' \in SessionType
    BY <1>4, FreshOK, AllSteps, Unpacked DEF MaybeTurn, Types, SessionOK
  <2>3. Closed(session, hist'.stranded)
    BY <1>2, ClosedAlike, SameListedItself DEF Accounted, Tidy, SameListed
  <2>4. Closed(session', hist'.stranded) /\ Knows(session', Ids(p)) /\ session'.asking = NoTurn
    BY <1>4, <2>1, <2>3, MadeClosed DEF Led
  <2>5. /\ Alone(p) /\ pc'[p].at = "save_turn" /\ pc'[p].ids = Ids(p) /\ pc'[p].image = session
    BY <1>4, <2>1, <2>2, SaveEffect, Unpacked
  <2>6. Closing(pc'[p], hist'.stranded) /\ SentIds(pc'[p]) = Ids(p)
    BY <2>3, <2>5 DEF Closing, NewTurnSteps, SentIds
  <2> QED BY <1>1, <1>2, <1>4, <2>4, <2>5, <2>6, TakenUpAccounted
<1> QED BY <1>3, <1>4 DEF Start

LEMMA HandoffAccounted ==
    ASSUME Types, Types', Grown, Led, Accounted, NEW h \in Handlers, Handoff(h)
    PROVE  Accounted'
<1>1. /\ pc[h].at = "handoff" /\ UNCHANGED <<core, channel, hand>> /\ h \in Threads
      /\ pc[h].ids \in SUBSET Names /\ ~Carries(h)
  BY ThreadsApart, Unpacked DEF Handoff, At, Carries
<1>2. hist'.elder = hist.elder /\ hist.stranded \subseteq hist'.stranded
  BY ElderStays, Unpacked DEF Handoff
<1>3. CASE session' = Retained(session, pc[h].ids) /\ Return(h)
  <2>1. SameListed(session', session)
    BY <1>1, <1>3, RetainedEffect, Unpacked DEF SameListed, SameTurnsListed
  <2> QED BY <1>1, <1>2, <1>3, <2>1, ReturnLight, LightAccounted, SameCore
<1>4. CASE /\ Current(session) = NoTurn /\ CanMake
           /\ session' = NewTurn(session, Fresh, pc[h].ids)
           /\ Save(h, "save_handoff", Fresh, pc[h].ids)
  <2>2. Fresh \in MaybeTurn /\ "save_handoff" \in Steps /\ session' \in SessionType
    BY <1>4, FreshOK, AllSteps, Unpacked DEF MaybeTurn, Types, SessionOK, HandoffSteps
  <2>3. Closed(session, hist'.stranded)
    BY <1>2, ClosedAlike, SameListedItself DEF Accounted, Tidy, SameListed
  <2>4. Closed(session', hist'.stranded) /\ Knows(session', pc[h].ids) /\ session'.asking = NoTurn
    BY <1>1, <1>4, <2>3, MadeClosed DEF Led
  <2>5. Alone(h) /\ pc'[h].at = "save_handoff" /\ pc'[h].image = session
    BY <1>1, <1>4, <2>2, SaveEffect, Unpacked
  <2>6. Closing(pc'[h], hist'.stranded) /\ SentIds(pc'[h]) = {}
    BY <2>3, <2>5 DEF Closing, NewTurnSteps, SentIds
  <2>7. Knows(session', {})
    BY <2>4 DEF Knows
  <2> QED BY <1>1, <1>2, <1>4, <2>4, <2>5, <2>6, <2>7, TakenUpAccounted
<1> QED BY <1>3, <1>4 DEF Handoff

(* A message is sent that was in the queue. *)
LEMMA SendingAccounted ==
    ASSUME Types, Types', Grown, Led, Accounted, NEW p \in Threads, Alone(p),
           UNCHANGED <<core, channel, hand>>, hist.stranded \subseteq hist'.stranded,
           Current(session) = NoTurn, NEW i \in DOMAIN session.queue,
           session'.queue = session.queue, session'.dispatching = session.queue[i].turn,
           session'.pending = session.queue[i].turn, session'.active = session.active,
           session'.asking = session.asking, session'.turns = session.turns,
           pc'[p].at \in SendingSteps
    PROVE  Accounted'
<1>1. session'.dispatching # NoTurn /\ session'.asking = NoTurn
  <2>1. session' \in SessionType
    BY DEF Types, SessionOK
  <2> QED BY <2>1, DispatchedSession, Unpacked DEF Led
<1>2. Knows(session', SentIds(pc'[p]))
  BY <1>1 DEF Knows
<1>3. session.turns[session.queue[i].turn] = "none"
  BY DEF Led, Sound, ItemsUnlisted
<1>4. Closed(session', hist'.stranded)
  <2>1. \A t \in OpenIn(session) : t \in hist.stranded
    BY DEF Accounted, Tidy, Closed, OpenIn, Turns, NoTurn
  <2>2. OpenIn(session') = OpenIn(session)
    BY DEF OpenIn
  <2> QED BY <1>1, <1>3, <2>1, <2>2 DEF Closed
<1>5. Closing(pc'[p], hist'.stranded)
  BY DEF Closing, SendingSteps, RestoringSteps, SavingSteps
<1> QED BY <1>1, <1>2, <1>4, <1>5, TakenUpAccounted

LEMMA DispatchNextAccounted ==
    ASSUME Types, Types', Grown, Led, Accounted, NEW p \in Threads, DispatchNext(p)
    PROVE  Accounted'
<1>1. /\ pc[p].at = "dispatch" /\ UNCHANGED <<core, channel, hand, hist>> /\ ~Carries(p)
      /\ hist'.elder = hist.elder /\ hist.stranded \subseteq hist'.stranded
  BY DEF DispatchNext, At, Carries
<1>2. CASE session' = session /\ Return(p)
  BY <1>1, <1>2, ReturnLight, LightAccounted, SameCore, SameListedItself
<1>3. CASE MayDispatch(session)
  <2> DEFINE item == Head(session.queue)
             s == Dispatching(session, item)
             next == IF item.afterStop THEN s.next ELSE "awaiting"
  <2>1. /\ item \in Item /\ 1 \in DOMAIN session.queue /\ item = session.queue[1]
    BY <1>3, ReadyItem, Unpacked
  <2>2. session' = [s EXCEPT !.next = next] /\ Carry(p, "send_queued", item.turn, {item.id})
    BY <1>3 DEF DispatchNext
  <2> HIDE DEF item
  <2>3. /\ s \in SessionType /\ s.queue = session.queue /\ s.dispatching = item.turn
        /\ s.pending = item.turn /\ s.active = session.active /\ s.asking = session.asking
        /\ s.turns = session.turns
    BY <2>1, DispatchingEffect, Unpacked
  <2> HIDE DEF s, next
  <2>4. /\ session'.queue = session.queue /\ session'.dispatching = item.turn
        /\ session'.pending = item.turn /\ session'.active = session.active
        /\ session'.asking = session.asking /\ session'.turns = session.turns
    BY <2>2, <2>3 DEF SessionType
  <2>5. "send_queued" \in Steps /\ item.turn \in MaybeTurn /\ {item.id} \in SUBSET Names
    BY <2>1, AllSteps DEF Item, MaybeTurn
  <2>6. Alone(p) /\ pc'[p].at = "send_queued"
    BY <2>2, <2>5, CarryEffect, Unpacked
  <2>7. pc'[p].at \in SendingSteps /\ Current(session) = NoTurn
    BY <1>3, <2>6 DEF SendingSteps, MayDispatch
  <2> QED BY <1>1, <2>1, <2>4, <2>6, <2>7, SendingAccounted
<1> QED BY <1>2, <1>3 DEF DispatchNext

LEMMA DispatchNowAccounted ==
    ASSUME Types, Types', Grown, Led, Accounted, Calm', DispatchNow
    PROVE  Accounted'
<1>1. /\ pc["lane"].at = "now" /\ UNCHANGED <<core, channel, hand>> /\ "lane" \in Threads
      /\ ~Carries("lane")
  BY ThreadsApart DEF DispatchNow, At, Carries
<1>2. CASE End("lane") /\ UNCHANGED <<session, hist>>
  BY <1>1, <1>2, EndLight, LightAccounted, SameCore, SameListedItself
<1>3. CASE ~(session.dispatching # NoTurn \/ ~IsQueued(session, pc["lane"].ids))
  <2> DEFINE item == Queued(session, pc["lane"].ids)
             k == Place(session, pc["lane"].ids)
             hurried == hist.hurried \/ Current(session) # NoTurn
  <2>1. /\ session' = Dispatching(session, item)
        /\ hist' = [hist EXCEPT !.hurried = hurried]
        /\ Carry("lane", "save_now", item.turn, pc["lane"].ids)
    BY <1>3 DEF DispatchNow
  <2>2. item \in Item /\ k \in DOMAIN session.queue /\ item = session.queue[k]
    BY <1>3, Unpacked, QueuedItem
  <2> HIDE DEF item, k
  <2>3. Current(session) = NoTurn /\ hist.stranded \subseteq hist'.stranded
    <3>1. hist'.hurried = hurried /\ hist'.stranded = hist.stranded
      BY <2>1, Unpacked DEF HistType
    <3> QED BY <3>1 DEF Steady, Calm
  <2>4. /\ session'.queue = session.queue /\ session'.dispatching = item.turn
        /\ session'.pending = item.turn /\ session'.active = session.active
        /\ session'.asking = session.asking /\ session'.turns = session.turns
    BY <2>1, <2>2, Unpacked, DispatchingEffect
  <2>5. "save_now" \in Steps /\ item.turn \in MaybeTurn /\ pc["lane"].ids \in SUBSET Names
    BY <1>1, <2>2, AllSteps, Unpacked DEF Item, MaybeTurn
  <2>6. Alone("lane") /\ pc'["lane"].at = "save_now"
    BY <1>1, <2>1, <2>5, CarryEffect, Unpacked
  <2>7. pc'["lane"].at \in SendingSteps
    BY <2>6 DEF SendingSteps
  <2> QED BY <1>1, <2>2, <2>3, <2>4, <2>6, <2>7, SendingAccounted
<1> QED BY <1>2, <1>3 DEF DispatchNow

(* The question and its answer. *)
LEMMA ResolveAccounted ==
    ASSUME Types, Types', Grown, Led, Accounted, NEW p \in Threads, Resolve(p)
    PROVE  Accounted'
<1>1. /\ pc[p].at = "idle" /\ UNCHANGED <<core, channel, hand, hist>> /\ session.asking # NoTurn
      /\ Carry(p, "resolve", session.asking, session.askedFor)
      /\ hist.stranded \subseteq hist'.stranded
  BY DEF Resolve, At
<1>2. "resolve" \in Steps /\ session.asking \in MaybeTurn /\ session.askedFor \in SUBSET Names
  BY AllSteps, Unpacked DEF SessionType
<1>3. Alone(p) /\ pc'[p].at = "resolve" /\ pc'[p].ids = session.askedFor
  BY <1>1, <1>2, CarryEffect, Unpacked
<1>4. CoreIdle /\ \A q \in Threads : ~Carries(q)
  BY <1>1 DEF Led, Token, AskedIsIdle, CarriedIsThere
<1>5. /\ session'.asking = NoTurn /\ SameTurnsListed(session', session)
      /\ session'.entries = session.entries
  BY Unpacked DEF Resolve, SessionType, SameTurnsListed
<1>6. Closed(session', hist'.stranded)
  BY <1>1, <1>5, ClosedAlike DEF Accounted, Tidy
<1>7. Closing(pc'[p], hist'.stranded) /\ SentIds(pc'[p]) = session.askedFor
  BY <1>3 DEF Closing, RestoringSteps, SavingSteps, SentIds
<1>8. Knows(session', session.askedFor)
  BY <1>1, <1>5 DEF Accounted, Ready, Knows, SameTurnsListed
<1>9. core'.queue = <<>> /\ core'.run = core.run
  BY <1>1, <1>4 DEF CoreIdle
<1> QED BY <1>1, <1>3, <1>4, <1>5, <1>6, <1>7, <1>8, <1>9, FreshlyAccounted

LEMMA AskAccounted ==
    ASSUME Types, Types', Grown, Led, Accounted, NEW p \in Threads, Ask(p)
    PROVE  Accounted'
<1>1. /\ pc[p].at = "ask" /\ UNCHANGED <<core, channel, hand, hist>> /\ End(p) /\ Carries(p)
      /\ hist.stranded \subseteq hist'.stranded
  BY DEF Ask, At, Carries
<1>2. CoreIdle /\ \A q \in Threads : q # p => ~Carries(q)
  BY <1>1, CarriedIs
<1>3. Light(p)
  BY <1>1, EndLight
<1>4. Alone(p) /\ ~Carries(p)' /\ Closing(pc'[p], hist'.stranded)
  BY <1>3, LightStep, NotRestoring DEF Light
<1>5. /\ session'.askedFor = pc[p].ids /\ SameTurnsListed(session', session)
      /\ session'.entries = session.entries
  BY Unpacked DEF Ask, SessionType, SameTurnsListed
<1>6. Closed(session', hist'.stranded)
  BY <1>1, <1>5, ClosedAlike DEF Accounted, Tidy
<1>7. SentIds(pc[p]) = pc[p].ids
  BY <1>1 DEF SentIds
<1>8. Knows(session', session'.askedFor)
  BY <1>1, <1>5, <1>7 DEF Accounted, Ready, Knows, SameTurnsListed
<1>9. core'.queue = <<>> /\ core'.run = core.run
  BY <1>1, <1>2 DEF CoreIdle
<1> QED BY <1>1, <1>2, <1>4, <1>6, <1>8, <1>9, FreshlyAccounted

(* A thread brings its turn on, lets it go, or submits it to Core. *)
LEMMA CarriedOnAccounted ==
    ASSUME Types, Types', Grown, Led, Accounted, NEW p \in Threads, Carries(p),
           UNCHANGED <<session, core, channel, hand, hist>>,
           NEW x \in CarryingSteps, x \in SendingSteps <=> pc[p].at \in SendingSteps,
           x \in RestoringSteps => pc[p].at = "save_handoff" /\ x = "send_handoff",
           pc[p].at \in {"save_handoff", "send_handoff"} => x = "send_handoff",
           Go(p, x)
    PROVE  Accounted'
<1>1. x \in Steps
  BY AllSteps
<1>2. /\ Alone(p) /\ pc'[p].at = x /\ pc'[p].turn = pc[p].turn
      /\ pc'[p].ids = pc[p].ids /\ pc'[p].image = pc[p].image
  BY <1>1, GoEffect, Unpacked
<1>3. SameBurden(p) /\ SameTurns
  BY <1>2, CarryingIs, SameCore DEF SameBurden
<1>4. SentIds(pc'[p]) \subseteq SentIds(pc[p])
  BY <1>2 DEF SentIds
<1>5. Closed(session', hist'.stranded) /\ Closing(pc[p], hist'.stranded)
  BY DEF Accounted, Tidy
<1>6. Closing(pc'[p], hist'.stranded)
  BY <1>2, <1>5 DEF Closing, RestoringSteps, SavingSteps, NewTurnSteps
<1>7. \A t \in Turns : session.entries[t] \subseteq session'.entries[t] \cup {}
  OBVIOUS
<1>8. hist'.elder = hist.elder /\ hist.stranded \subseteq hist'.stranded
  OBVIOUS
<1> QED BY <1>2, <1>3, <1>4, <1>5, <1>6, <1>7, <1>8, SameTurnAccounted

LEMMA LetGoAccounted ==
    ASSUME Types, Types', Led, Accounted, NEW p \in Threads, Carries(p), Light(p),
           UNCHANGED <<core, channel, hand>>, hist.stranded \subseteq hist'.stranded,
           session'.asking = NoTurn, Closed(session', hist'.stranded)
    PROVE  Accounted'
<1>1. CoreIdle /\ \A q \in Threads : q # p => ~Carries(q)
  BY CarriedIs
<1>2. Alone(p) /\ ~Carries(p)' /\ Closing(pc'[p], hist'.stranded)
  BY LightStep, NotRestoring DEF Light
<1>3. core'.queue = <<>> /\ core'.run = core.run
  BY <1>1 DEF CoreIdle
<1> QED BY <1>1, <1>2, <1>3, FreshlyAccounted

LEMMA StrandedAccounted ==
    ASSUME Types, Types', Led, Accounted, NEW p \in Threads, Carries(p), Light(p),
           UNCHANGED <<core, channel, hand>>, SameListed(session', session), Strand(pc[p].turn)
    PROVE  Accounted'
<1>1. hist.stranded \subseteq hist'.stranded
  BY ElderStays, Unpacked
<1>2. session'.asking = NoTurn
  BY CarriedIs DEF SameListed
<1>3. Closed(session', hist'.stranded)
  BY <1>1, ClosedAlike DEF Accounted, Tidy, SameListed
<1> QED BY <1>1, <1>2, <1>3, LetGoAccounted

LEMMA SubmittedAccounted ==
    ASSUME Types, Types', Grown, Led, Accounted, NEW p \in Threads, Carries(p), Light(p),
           UNCHANGED <<session, channel, hand>>, NEW named \in BOOLEAN,
           named <=> pc[p].at \notin {"save_handoff", "send_handoff"},
           SubmitToCore(pc[p].turn, pc[p].ids, named)
    PROVE  Accounted'
<1> DEFINE ids == IF named THEN pc[p].ids ELSE {}
           sub == Submission(pc[p].turn, ids)
<1>1. CoreIdle /\ session.asking = NoTurn /\ \A q \in Threads : q # p => ~Carries(q)
  BY CarriedIs
<1>2. /\ core'.queue = core.queue \/ core'.queue = Append(core.queue, sub)
      /\ core'.run = core.run
  BY Unpacked DEF SubmitToCore, CoreOK, CoreType
<1>3. sub.ids = SentIds(pc[p])
  BY DEF Submission, SentIds
<1> HIDE DEF sub
<1>4. core'.queue # <<>> => core'.queue[1] = sub
  BY <1>1, <1>2 DEF CoreIdle
<1>5. core'.queue # <<>> => Knows(session', core'.queue[1].ids)
  BY <1>3, <1>4 DEF Accounted, Ready
<1>6. hist.stranded \subseteq hist'.stranded
  BY ElderStays, Unpacked DEF SubmitToCore
<1>7. Closed(session', hist'.stranded)
  BY <1>6, ClosedAlike, SameListedItself DEF Accounted, Tidy, SameListed
<1>8. Alone(p) /\ ~Carries(p)' /\ Closing(pc'[p], hist'.stranded)
  BY LightStep, NotRestoring DEF Light
<1> QED BY <1>1, <1>2, <1>5, <1>6, <1>7, <1>8, FreshlyAccounted

LEMMA SendQueuedAccounted ==
    ASSUME Types, Types', Grown, Led, Accounted, NEW p \in Threads, SendQueued(p)
    PROVE  Accounted'
<1>1. pc[p].at = "send_queued" /\ Return(p) /\ UNCHANGED <<channel, hand>> /\ Carries(p)
  BY DEF SendQueued, At, Carries
<1>2. Light(p) /\ pc[p].at \in SendingSteps
  BY <1>1, ReturnLight DEF SendingSteps
<1>3. CASE SubmitToCore(pc[p].turn, pc[p].ids, TRUE) /\ UNCHANGED session
  BY <1>1, <1>2, <1>3, SubmittedAccounted
<1>4. CASE hist' = Failed(hist) /\ session' = DispatchRejected(session, pc[p].turn) /\ core' = core
  <2> DEFINE r == DispatchRejected(session, pc[p].turn)
             s == session
  <2>1. /\ r.active = s.active
        /\ r.dispatching = IF s.dispatching = pc[p].turn THEN NoTurn ELSE s.dispatching
        /\ r.pending = IF s.pending = pc[p].turn THEN NoTurn ELSE s.pending
        /\ r.asking = s.asking /\ r.turns = s.turns
    BY DispatchRejectedEffect, Unpacked
  <2>2. session' = r
    BY <1>4
  <2> HIDE DEF r
  <2>3. s.asking = NoTurn /\ pc[p].turn = Current(s) /\ s.dispatching # NoTurn
    BY <1>1, <1>2, CarriedIs
  <2>4. s.dispatching = pc[p].turn /\ s.pending = pc[p].turn /\ s.active = NoTurn
    BY <2>3, CurrentOfSound, Unpacked DEF Led, Sound, DispatchedThere
  <2>5. s.turns[s.dispatching] = "none"
    BY <2>3, LeavingIs, Unpacked DEF Led
  <2>6. \A t \in OpenIn(s) : t \in hist.stranded
    BY <2>3, <2>4, <2>5 DEF Accounted, Tidy, Closed, OpenIn
  <2>7. hist.stranded \subseteq hist'.stranded
    BY <1>4, ElderStays, Unpacked
  <2>8. /\ session'.pending = NoTurn /\ Current(session') = NoTurn /\ session'.turns = s.turns
        /\ session'.asking = NoTurn
    BY <2>1, <2>2, <2>3, <2>4 DEF Current
  <2>9. Closed(session', hist'.stranded)
    BY <2>6, <2>7, <2>8 DEF Closed, OpenIn
  <2> QED BY <1>1, <1>2, <1>4, <2>7, <2>8, <2>9, LetGoAccounted
<1> QED BY <1>1, <1>3, <1>4 DEF SendQueued

LEMMA RolledBackClosed ==
    ASSUME Types, Sound(session), Current(session) # NoTurn,
           session' = RolledBack(session, Current(session)), NEW S, Closed(session, S)
    PROVE  Closed(session', S)
<1> DEFINE s == session
           t == Current(session)
<1>1. /\ session'.pending = IF s.pending = t THEN NoTurn ELSE s.pending
      /\ session'.active = IF s.active = t THEN NoTurn ELSE s.active
      /\ session'.turns = [s.turns EXCEPT ![t] = "none"]
  BY RolledBackEffect, Unpacked, SMTT(30)
<1>2. s.pending = NoTurn \/ s.pending = t
  BY DEF Sound, OneThere, Current
<1>3. s.active = NoTurn \/ s.active = t
  BY DEF Current
<1>4. session'.pending = NoTurn /\ session'.active = NoTurn
  BY <1>1, <1>2, <1>3
<1> HIDE DEF t
<1>5. \A u \in Turns : session'.turns[u] = IF u = t THEN "none" ELSE s.turns[u]
  BY <1>1, Unpacked DEF SessionType
<1>6. \A u \in OpenIn(s) : u = t \/ u \in S
  BY DEF Closed, t
<1> QED BY <1>4, <1>5, <1>6 DEF Closed, OpenIn, Current

LEMMA SendAccounted ==
    ASSUME Types, Types', Grown, Led, Accounted, NEW p \in Threads, Send(p)
    PROVE  Accounted'
<1>1. pc[p].at = "send" /\ UNCHANGED <<channel, hand>> /\ Carries(p)
  BY DEF Send, At, Carries
<1>2. session.asking = NoTurn /\ pc[p].turn = Current(session) /\ Current(session) # NoTurn
  BY <1>1, CarriedIs
<1>3. CASE SubmitToCore(pc[p].turn, pc[p].ids, TRUE) /\ End(p) /\ UNCHANGED session
  BY <1>1, <1>3, EndLight, SubmittedAccounted
<1>4. CASE /\ hist' = Failed(hist) /\ session' = RolledBack(session, pc[p].turn)
           /\ Refused(p) /\ UNCHANGED core
  <2>1. hist.stranded \subseteq hist'.stranded
    BY <1>4, ElderStays, Unpacked
  <2>2. session'.asking = NoTurn
    BY <1>2, <1>4, RolledBackEffect, Unpacked, ZenonT(60)
  <2>3. Closed(session, hist'.stranded)
    BY <2>1, ClosedAlike, SameListedItself DEF Accounted, Tidy, SameListed
  <2>4. Closed(session', hist'.stranded)
    BY <1>2, <1>4, <2>3, RolledBackClosed DEF Led
  <2> QED BY <1>1, <1>4, <2>1, <2>2, <2>4, RefusedLight, LetGoAccounted
<1>5. CASE Strand(pc[p].turn) /\ UNCHANGED <<session, core>> /\ Refused(p)
  BY <1>1, <1>5, RefusedLight, StrandedAccounted, SameListedItself
<1> QED BY <1>3, <1>4, <1>5 DEF Send

LEMMA ResolveSendAccounted ==
    ASSUME Types, Types', Grown, Led, Accounted, NEW p \in Threads, ResolveSend(p)
    PROVE  Accounted'
<1>1. pc[p].at = "resolve" /\ UNCHANGED <<session, channel, hand>> /\ Carries(p)
  BY DEF ResolveSend, At, Carries
<1>2. CASE SubmitToCore(pc[p].turn, pc[p].ids, TRUE) /\ (IF p = "lane" THEN Go(p, "note") ELSE End(p))
  <2>1. /\ "note" \in Steps \ (CarryingSteps \cup RestoringSteps \cup {"append_now", "now"})
        /\ ~Speaking(p, "note")
    BY AllSteps DEF CarryingSteps, RestoringSteps, SavingSteps, Speaking
  <2>2. Light(p)
    BY <1>1, <1>2, <2>1, GoLight, EndLight
  <2> QED BY <1>1, <1>2, <2>2, SubmittedAccounted
<1>3. CASE Strand(pc[p].turn) /\ End(p) /\ UNCHANGED core
  BY <1>1, <1>3, EndLight, StrandedAccounted, SameListedItself
<1> QED BY <1>2, <1>3 DEF ResolveSend

LEMMA NowSavedAccounted ==
    ASSUME Types, Types', Grown, Led, Accounted, NowSaved
    PROVE  Accounted'
<1>1. /\ pc["lane"].at = "save_now" /\ UNCHANGED <<session, core, channel, hand>> /\ "lane" \in Threads
      /\ Carries("lane")
  BY ThreadsApart DEF NowSaved, At, Carries
<1>2. CASE Go("lane", "send_queued") /\ UNCHANGED hist
  <2>1. /\ "send_queued" \in CarryingSteps
        /\ "send_queued" \in SendingSteps <=> pc["lane"].at \in SendingSteps
        /\ "send_queued" \notin RestoringSteps
    BY <1>1 DEF CarryingSteps, SendingSteps, RestoringSteps, SavingSteps
  <2> QED BY <1>1, <1>2, <2>1, CarriedOnAccounted
<1>3. CASE Strand(pc["lane"].turn) /\ End("lane")
  BY <1>1, <1>3, EndLight, StrandedAccounted, SameListedItself
<1> QED BY <1>2, <1>3 DEF NowSaved

LEMMA TurnSavedAccounted ==
    ASSUME Types, Types', Grown, Led, Accounted, Calm', NEW p \in Threads, TurnSaved(p)
    PROVE  Accounted'
<1>1. pc[p].at = "save_turn" /\ UNCHANGED <<core, channel, hand>> /\ Carries(p)
  BY DEF TurnSaved, At, Carries
<1>2. ASSUME NEW x \in {"ask", "send"}, Go(p, x), UNCHANGED <<session, hist>>
      PROVE  Accounted'
  <2>1. /\ x \in CarryingSteps
        /\ x \in SendingSteps <=> pc[p].at \in SendingSteps
        /\ x \notin RestoringSteps
    BY <1>1 DEF CarryingSteps, SendingSteps, RestoringSteps, SavingSteps
  <2> QED BY <1>1, <1>2, <2>1, CarriedOnAccounted
<1>3. CASE PutBack(p) /\ Refused(p)
  <2>1. session' = pc[p].image /\ session = pc[p].left /\ hist'.stranded = hist.stranded
    BY <1>3, PutBackEffect, Unpacked DEF Steady, Calm
  <2>2. /\ Sound(session') /\ Current(session') = NoTurn
    BY <1>1, <2>1 DEF Led, Fitting, RestoringSteps, SavingSteps, NewTurnSteps
  <2>3. session'.asking = NoTurn
    <3>1. session' \in SessionType
      BY DEF Types, SessionOK
    <3> QED BY <2>2, <3>1 DEF Sound, AskedThere
  <2>4. Closed(session', hist'.stranded)
    BY <1>1, <2>1 DEF Accounted, Tidy, Closing, RestoringSteps, SavingSteps
  <2>5. hist.stranded \subseteq hist'.stranded
    BY <2>1
  <2> QED BY <1>1, <1>3, <2>3, <2>4, <2>5, RefusedLight, LetGoAccounted
<1> QED BY <1>2, <1>3 DEF TurnSaved

LEMMA HandoffFailsAccounted ==
    ASSUME Types, Types', Grown, Led, Accounted, Calm', NEW h \in Handlers, HandoffFails(h),
           UNCHANGED <<channel, hand>>, pc[h].at \in {"save_handoff", "send_handoff"}
    PROVE  Accounted'
<1>1. h \in Threads /\ Carries(h) /\ core' = core /\ Return(h)
  BY ThreadsApart DEF Carries, HandoffFails
<1>2. session' = Retained(pc[h].image, pc[h].ids) /\ session = pc[h].left
  BY HandoffFailsEffect DEF Steady, Calm
<1>3. /\ pc[h].image \in SessionType /\ pc[h].ids \in SUBSET Names
  BY <1>1, ThreadFields, Unpacked
<1>4. SameTurnsListed(session', pc[h].image)
  BY <1>2, <1>3, RetainedEffect DEF SameTurnsListed
<1>5. Alike(session', pc[h].image)
  BY <1>2, <1>3, RetainedAlike
<1>6. Sound(pc[h].image) /\ Current(pc[h].image) = NoTurn
  BY <1>1 DEF Led, Fitting, RestoringSteps, SavingSteps, NewTurnSteps
<1>7. session'.asking = NoTurn
  <2>1. Sound(session') /\ Current(session') = NoTurn
    BY <1>5, <1>6, AlikeSessions DEF SameTurn
  <2>2. session' \in SessionType
    BY DEF Types, SessionOK
  <2> QED BY <2>1, <2>2 DEF Sound, AskedThere
<1>8. hist'.elder = hist.elder /\ hist.stranded \subseteq hist'.stranded
  BY ElderStays, Unpacked DEF HandoffFails
<1>9. Closed(pc[h].image, hist.stranded)
  BY <1>1 DEF Accounted, Tidy, Closing, RestoringSteps, SavingSteps
<1>10. Closed(session', hist'.stranded)
  BY <1>4, <1>8, <1>9, ClosedAlike
<1> QED BY <1>1, <1>7, <1>8, <1>10, ReturnLight, LetGoAccounted

LEMMA SendHandoffAccounted ==
    ASSUME Types, Types', Grown, Led, Accounted, Calm', NEW h \in Handlers,
           HandoffSaved(h) \/ SendHandoff(h)
    PROVE  Accounted'
<1>1. /\ pc[h].at \in {"save_handoff", "send_handoff"} /\ UNCHANGED <<channel, hand>> /\ h \in Threads
      /\ pc[h].ids \in SUBSET Names /\ Carries(h)
  BY ThreadsApart, Unpacked DEF HandoffSaved, SendHandoff, At, Carries
<1>2. CASE pc[h].at = "save_handoff" /\ Go(h, "send_handoff") /\ UNCHANGED <<session, core, hist>>
  <2>1. /\ "send_handoff" \in CarryingSteps
        /\ "send_handoff" \in SendingSteps <=> pc[h].at \in SendingSteps
    BY <1>2 DEF CarryingSteps, SendingSteps
  <2> QED BY <1>1, <1>2, <2>1, CarriedOnAccounted
<1>3. CASE HandoffFails(h)
  BY <1>1, <1>3, HandoffFailsAccounted
<1>4. CASE SubmitToCore(pc[h].turn, pc[h].ids, FALSE) /\ Go(h, "dispatch") /\ UNCHANGED session
  <2>1. /\ "dispatch" \in Steps \ (CarryingSteps \cup RestoringSteps \cup {"append_now", "now"})
        /\ ~Speaking(h, "dispatch") /\ pc[h].at # "save_entry"
    BY <1>1, AllSteps DEF CarryingSteps, RestoringSteps, SavingSteps, Speaking
  <2>2. Light(h)
    BY <1>1, <1>4, <2>1, GoLight
  <2> QED BY <1>1, <1>4, <2>2, SubmittedAccounted
<1>5. CASE /\ Strand(pc[h].turn) /\ Return(h) /\ UNCHANGED core
           /\ session' = Retained(session, pc[h].ids)
  <2>1. SameListed(session', session)
    BY <1>1, <1>5, RetainedEffect, Unpacked DEF SameListed, SameTurnsListed
  <2> QED BY <1>1, <1>5, <2>1, ReturnLight, StrandedAccounted
<1> QED BY <1>2, <1>3, <1>4, <1>5 DEF HandoffSaved, SendHandoff, At

(* The steps of Core. *)
LEMMA SpokenAccounted ==
    ASSUME Accounted, UNCHANGED <<session, pc>>, hist'.stranded = hist.stranded,
           session.asking = NoTurn, \A p \in Threads : ~Carries(p), core'.queue = <<>>,
           \A e \in Underway' : e.kind = "started" => Knows(session, e.ids), Orderly'
    PROVE  Accounted'
<1>1. Tidy'
  BY DEF Accounted, Tidy
<1>2. Ready'
  BY DEF Ready, Carries
<1> QED BY <1>1, <1>2 DEF Accounted

LEMMA CoreTakeAccounted ==
    ASSUME Types, Types', Grown, Led, Accounted, CoreTake
    PROVE  Accounted'
<1>1. core'.queue = core.queue /\ core'.run = core.run
  BY CoreTakeEffect, Unpacked
<1>2. /\ UNCHANGED <<session, channel, hand, pc>>
      /\ hist'.elder = hist.elder /\ hist'.stranded = hist.stranded
  <2>1. hist' = [hist EXCEPT !.reached = @ \cup core.mail] /\ UNCHANGED <<session, channel, hand, pc>>
    BY DEF CoreTake
  <2> QED BY <2>1, Unpacked DEF HistType
<1>3. "lane" \in Threads /\ Alone("lane") /\ SameBurden("lane")
  <2>1. "lane" \in Threads
    BY ThreadsApart
  <2> QED BY <1>2, <2>1, StillAlone
<1>4. Closed(session', hist'.stranded) /\ Closing(pc'["lane"], hist'.stranded)
  BY <1>2, <1>3 DEF Accounted, Tidy
<1>5. \A t \in Turns : session.entries[t] \subseteq session'.entries[t] \cup {}
  BY <1>2
<1>6. SentIds(pc'["lane"]) \subseteq SentIds(pc["lane"])
  BY <1>2
<1> QED BY <1>1, <1>2, <1>3, <1>4, <1>5, <1>6, SameCore, SameTurnAccounted

LEMMA CoreStartAccounted ==
    ASSUME Types, Types', Grown, Led, Accounted, CoreStart
    PROVE  Accounted'
<1> DEFINE e == Event("started", core'.run.turn, core'.run.ids, "none")
<1>1. /\ core.run = NoRun /\ core.queue # <<>> /\ core.queue \in Seq(SubmissionType)
      /\ core'.queue = Tail(core.queue) /\ core'.run # NoRun
      /\ core'.run.turn = core.queue[1].turn /\ core'.run.ids = core.queue[1].ids
      /\ channel' = channel \o <<e>>
      /\ UNCHANGED <<session, hand, pc, hist>>
  BY CoreStartEffect, Unpacked DEF CoreStart, CoreOK, CoreType
<1>2. e.kind = "started" /\ e.turn = core'.run.turn /\ e.ids = core'.run.ids
  BY DEF Event
<1> HIDE DEF e
<1>3. /\ Len(core.queue) = 1 /\ channel = <<>> /\ NoneEnds /\ core.queue[1].turn = Current(session)
      /\ ~CoreIdle
  BY <1>1 DEF Led, Token, SubmittedIsThere, CoreIdle
<1>4. core'.queue = <<>>
  BY <1>1, <1>3, TailOfOne
<1>5. channel' = <<e>>
  BY <1>1, <1>3
<1>6. DOMAIN channel' = {1} /\ channel'[1] = e /\ ToSet(channel') = {e}
  BY <1>5 DEF ToSet
<1>7. Underway = {}
  BY <1>1, <1>3 DEF Accounted, Orderly, EventsAreLive, InCore
<1>8. \A h \in Handlers : hand'[h] = <<>>
  BY <1>1, <1>7, NoEvents
<1>9. Underway' = {e}
  BY <1>6, <1>8 DEF Underway, ToSet
<1>10. Orderly'
  <2>1. EventsAreLive' /\ StartIsHeard'
    BY <1>1, <1>2, <1>3, <1>9 DEF EventsAreLive, StartIsHeard, InCore
  <2>2. ElderHears'
    BY <1>8 DEF ElderHears
  <2>3. StartsComeFirst'
    BY <1>6, <1>8 DEF StartsComeFirst
  <2> QED BY <2>1, <2>2, <2>3 DEF Orderly
<1>11. Knows(session, e.ids)
  BY <1>1, <1>2 DEF Accounted, Ready
<1>12. session.asking = NoTurn /\ \A p \in Threads : ~Carries(p)
  BY <1>3, NobodyCarries DEF Led
<1> QED BY <1>1, <1>4, <1>9, <1>10, <1>11, <1>12, SpokenAccounted

LEMMA CoreTellsAccounted ==
    ASSUME Types, Types', Led, Accounted, UNCHANGED <<session, hand, pc, hist>>,
           core'.queue = core.queue, core.run # NoRun,
           NEW es \in Seq(EventType), es # <<>>, channel' = channel \o es,
           \A i \in DOMAIN es : es[i].turn = core.run.turn /\ es[i].kind # "started",
           \/ core'.run = core.run
           \/ ~NoneFinished(es)
    PROVE  Accounted'
<1>1. /\ core.run.turn = Current(session) /\ ~CoreIdle /\ core.queue = <<>>
      /\ channel \in Seq(EventType)
  BY Unpacked DEF Led, Token, RunningIsThere, SubmittedIsThere, CoreIdle, EventsOK
<1>2. session.asking = NoTurn /\ \A p \in Threads : ~Carries(p)
  BY <1>1, NobodyCarries DEF Led
<1>3. Underway' = Underway \cup ToSet(es)
  BY EmitUnderway, Unpacked
<1>4. \A e \in ToSet(es) : e.turn = Current(session) /\ e.kind # "started"
  BY <1>1 DEF ToSet
<1>5. /\ \A i \in DOMAIN channel' : channel'[i].kind = "started" => i \in DOMAIN channel /\ channel'[i] = channel[i]
      /\ \A i \in DOMAIN es : \E j \in DOMAIN channel' : channel'[j] = es[i]
  <2> DEFINE c == channel \o es
  <2>1. /\ \A i \in DOMAIN es : Len(channel) + i \in DOMAIN c /\ c[Len(channel) + i] = es[i]
        /\ \A i \in DOMAIN c : \/ i \in DOMAIN channel /\ c[i] = channel[i]
                               \/ i - Len(channel) \in DOMAIN es /\ c[i] = es[i - Len(channel)]
    BY <1>1, EventsAdded
  <2> HIDE DEF c
  <2>2. channel' = c
    BY DEF c
  <2> QED BY <2>1, <2>2
<1>6. InCore /\ InCore'
  <2>1. ~NoneFinished(es) => ~NoneFinished(channel')
    BY <1>5 DEF NoneFinished
  <2> QED BY <2>1 DEF InCore, NoneEnds
<1>7. EventsAreLive' /\ StartIsHeard'
  BY <1>3, <1>4, <1>6 DEF Accounted, Orderly, EventsAreLive, StartIsHeard
<1>8. ElderHears'
  BY DEF Accounted, Orderly, ElderHears
<1>9. StartsComeFirst'
  BY <1>5 DEF Accounted, Orderly, StartsComeFirst
<1>10. \A e \in Underway' : e.kind = "started" => Knows(session, e.ids)
  BY <1>3, <1>4 DEF Accounted, Ready
<1> QED BY <1>1, <1>2, <1>7, <1>8, <1>9, <1>10, SpokenAccounted DEF Orderly

LEMMA CoreCloseAccounted ==
    ASSUME Types, Types', Led, Accounted, NEW how \in Outcomes, CoreClose(how)
    PROVE  Accounted'
<1> DEFINE projected == Event("projected", core.run.turn, {}, how)
           unconsumed == Event("unconsumed", core.run.turn, core.mail, how)
           es == <<projected>> \o (IF core.mail = {} THEN <<>> ELSE <<unconsumed>>)
<1>1. /\ core'.queue = core.queue /\ core'.run = core.run /\ core.run # NoRun
      /\ projected \in EventType /\ unconsumed \in EventType
      /\ channel' = channel \o es /\ UNCHANGED <<session, hand, pc, hist>>
  BY CoreCloseEffect, Unpacked DEF CoreClose
<1>2. /\ projected.kind = "projected" /\ projected.turn = core.run.turn
      /\ unconsumed.kind = "unconsumed" /\ unconsumed.turn = core.run.turn
  BY DEF Event
<1> HIDE DEF projected, unconsumed
<1>3. /\ es \in Seq(EventType) /\ es # <<>>
      /\ \A i \in DOMAIN es : es[i] \in {projected, unconsumed}
  BY <1>1
<1> HIDE DEF es
<1>4. \A i \in DOMAIN es : es[i].turn = core.run.turn /\ es[i].kind # "started"
  BY <1>2, <1>3
<1> QED BY <1>1, <1>3, <1>4, CoreTellsAccounted

LEMMA CoreFinishAccounted ==
    ASSUME Types, Types', Led, Accounted, CoreFinish
    PROVE  Accounted'
<1> DEFINE e == Event("finished", core.run.turn, {}, core.closing)
           es == <<e>>
<1>1. /\ core'.queue = core.queue /\ core.run # NoRun /\ e \in EventType
      /\ channel' = channel \o es /\ UNCHANGED <<session, hand, pc, hist>>
  BY CoreFinishEffect, Unpacked DEF CoreFinish
<1>2. e.kind = "finished" /\ e.turn = core.run.turn
  BY DEF Event
<1> HIDE DEF e
<1>3. es \in Seq(EventType) /\ es # <<>> /\ DOMAIN es = {1} /\ es[1] = e
  BY <1>1
<1> HIDE DEF es
<1>4. /\ \A i \in DOMAIN es : es[i].turn = core.run.turn /\ es[i].kind # "started"
      /\ ~NoneFinished(es)
  BY <1>2, <1>3 DEF NoneFinished
<1> QED BY <1>1, <1>3, <1>4, CoreTellsAccounted

(* What a thread drains it hears after all that was drained before.         *)
LEMMA DrainAccounted ==
    ASSUME Types, Types', Led, Accounted, NEW h \in Handlers, Drain(h)
    PROVE  Accounted'
<1>1. /\ UNCHANGED <<session, core, pc>> /\ hand[h] = <<>> /\ channel # <<>> /\ channel' = <<>>
      /\ hand'[h] = channel /\ \A g \in Handlers : g # h => hand'[g] = hand[g]
  BY DrainEffect, Unpacked DEF Drain
<1>2. /\ hist'.stranded = hist.stranded
      /\ hist'.elder = IF \E g \in Handlers : hand[g] # <<>> THEN hist.elder ELSE h
  BY Unpacked DEF HistType, Drain
<1>3. /\ ~CoreIdle /\ session.asking = NoTurn /\ core.queue = <<>>
      /\ \A p \in Threads : ~Carries(p)
  BY <1>1, NobodyCarries DEF Led, Token, CoreIdle, SubmittedIsThere
<1>4. Underway' = Underway
  BY DrainUnderway, Unpacked
<1>5. \A g \in Handlers : NoneFinished(hand[g])
  <2>1. NoneFinished(hand[h])
    BY <1>1 DEF NoneFinished
  <2> QED BY <1>1, <2>1 DEF Led, Token, EndIsThere
<1>6. NoneEnds' <=> NoneEnds
  <2>1. NoneFinished(channel')
    BY <1>1 DEF NoneFinished
  <2>2. (NoneEnds' <=> NoneFinished(channel)) /\ (NoneEnds <=> NoneFinished(channel))
    BY <1>1, <1>5, <2>1 DEF NoneEnds
  <2> QED BY <2>2
<1>7. EventsAreLive' /\ StartIsHeard'
  BY <1>1, <1>4, <1>6 DEF Accounted, Orderly, EventsAreLive, StartIsHeard, InCore
<1>8. ElderHears'
  <2>1. CASE \E g \in Handlers : hand[g] # <<>>
    <3>1. hist'.elder = hist.elder /\ hand[hist.elder] # <<>> /\ hist.elder \in Handlers
      BY <1>2, <2>1 DEF Accounted, Orderly, ElderHears, Types, HistType
    <3>2. hist.elder # h
      BY <1>1, <3>1
    <3>3. hand'[hist.elder] = hand[hist.elder]
      BY <1>1, <3>1, <3>2
    <3> QED BY <1>5, <3>1, <3>3 DEF ElderHears
  <2>2. CASE \A g \in Handlers : hand[g] = <<>>
    BY <1>1, <1>2, <2>2 DEF ElderHears
  <2> QED BY <2>1, <2>2
<1>9. StartsComeFirst'
  <2>1. \A i \in DOMAIN channel : channel[i].kind = "started" => i = 1 /\ hist'.elder = h
    BY <1>2 DEF Accounted, Orderly, StartsComeFirst
  <2>2. \A g \in Handlers : hand[g] # <<>> => hist'.elder = hist.elder
    BY <1>2
  <2>3. ASSUME NEW g \in Handlers, NEW i \in DOMAIN hand'[g], hand'[g][i].kind = "started"
        PROVE  i = 1 /\ g = hist'.elder
    <3>1. CASE g = h
      BY <1>1, <2>1, <2>3, <3>1
    <3>2. CASE g # h
      <4>1. i \in DOMAIN hand[g] /\ hand[g][i].kind = "started"
        BY <1>1, <2>3, <3>2
      <4>2. hand[g] # <<>>
        BY <4>1
      <4> QED BY <2>2, <4>1, <4>2 DEF Accounted, Orderly, StartsComeFirst
    <3> QED BY <3>1, <3>2
  <2> QED BY <1>1, <2>3 DEF StartsComeFirst
<1>10. \A e \in Underway' : e.kind = "started" => Knows(session, e.ids)
  BY <1>4 DEF Accounted, Ready
<1> QED BY <1>1, <1>2, <1>3, <1>7, <1>8, <1>9, <1>10, SpokenAccounted DEF Orderly

(* What is handled was drained first, and no start is under way after it.   *)
LEMMA InOrder ==
    ASSUME Types, Accounted, NEW h \in Handlers, NEW kind, Handle(h, kind), ~hist'.overtaken
    PROVE  /\ hist.elder = h /\ Other(h) \in Handlers /\ Other(h) # h
           /\ \A g \in Handlers : g = h \/ g = Other(h)
           /\ Tail(hand[h]) = <<>> /\ hand[Other(h)] # <<>> => hist'.elder = Other(h)
           /\ Tail(hand[h]) # <<>> => hist'.elder = h
<1>1. Other(h) \in Handlers /\ Other(h) # h /\ \A g \in Handlers : g = h \/ g = Other(h)
  BY DEF Other, Handlers
<1>2. hand[h] # <<>>
  BY HandlingEffect
<1>3. hist.elder \in Handlers
  BY Unpacked DEF HistType
<1>4. /\ hist'.overtaken = (hist.overtaken \/ (hand[Other(h)] # <<>> /\ hist.elder = Other(h)))
      /\ hist'.elder = IF Tail(hand[h]) = <<>> /\ hand[Other(h)] # <<>> THEN Other(h) ELSE hist.elder
  BY Unpacked DEF Handle, HistType
<1>5. hist.elder # Other(h)
  BY <1>1, <1>2, <1>4 DEF Accounted, Orderly, ElderHears
<1> QED BY <1>1, <1>3, <1>4, <1>5

LEMMA HandlingOrder ==
    ASSUME Types, Accounted, NEW h \in Handlers, NEW kind, Handle(h, kind), ~hist'.overtaken
    PROVE  /\ ElderHears' /\ StartsComeFirst' /\ Underway = Underway' \cup {hand[h][1]}
           /\ \A e \in Underway' : e.kind # "started"
<1> DEFINE o == Other(h)
<1>1. /\ hand[h] # <<>> /\ hand[h] \in Seq(EventType)
      /\ channel' = channel /\ hand'[h] = Tail(hand[h])
      /\ \A g \in Handlers : g # h => hand'[g] = hand[g]
  BY HandlingEffect
<1>2. /\ hist.elder = h /\ o \in Handlers /\ o # h /\ \A g \in Handlers : g = h \/ g = o
      /\ Tail(hand[h]) = <<>> /\ hand[o] # <<>> => hist'.elder = o
      /\ Tail(hand[h]) # <<>> => hist'.elder = h
  BY InOrder
<1> HIDE DEF o
<1>3. Underway = Underway' \cup {hand[h][1]}
  BY HandleUnderway, HandlingEffect, Unpacked
<1>4. \A i \in DOMAIN Tail(hand[h]) : i \in Nat \ {0} /\ i + 1 \in DOMAIN hand[h]
                                      /\ Tail(hand[h])[i] = hand[h][i + 1]
  BY <1>1, EventsBehind
<1>5. ElderHears'
  <2>1. hand[o] # <<>> => NoneFinished(Tail(hand[h]))
    BY <1>2, <1>4 DEF Accounted, Orderly, ElderHears, NoneFinished
  <2>2. CASE Tail(hand[h]) = <<>>
    <3>1. \A g \in Handlers : hand'[g] # <<>> => g = hist'.elder
      BY <1>1, <1>2, <2>2
    <3> QED BY <3>1 DEF ElderHears
  <2>3. CASE Tail(hand[h]) # <<>>
    <3>1. hist'.elder = h /\ hand'[h] # <<>>
      BY <1>1, <1>2, <2>3
    <3>2. \A g \in Handlers : g # h /\ hand'[g] # <<>> => NoneFinished(hand'[h])
      BY <1>1, <1>2, <2>1
    <3> QED BY <3>1, <3>2 DEF ElderHears
  <2> QED BY <2>2, <2>3
<1>6. \A i \in DOMAIN channel' : channel'[i].kind # "started"
  BY <1>1 DEF Accounted, Orderly, StartsComeFirst
<1>7. ASSUME NEW g \in Handlers, NEW i \in DOMAIN hand'[g]
      PROVE  hand'[g][i].kind # "started"
  <2>1. CASE g = h
    <3>1. i \in Nat \ {0} /\ i + 1 \in DOMAIN hand[h] /\ hand'[g][i] = hand[h][i + 1]
      BY <1>1, <1>4, <1>7, <2>1
    <3>2. hand[h][i + 1].kind = "started" => i + 1 = 1
      BY <3>1 DEF Accounted, Orderly, StartsComeFirst
    <3> QED BY <3>1, <3>2
  <2>2. CASE g # h
    <3>1. i \in DOMAIN hand[g] /\ hand'[g][i] = hand[g][i]
      BY <1>1, <1>7, <2>2
    <3> QED BY <1>2, <2>2, <3>1 DEF Accounted, Orderly, StartsComeFirst
  <2> QED BY <2>1, <2>2
<1>8. StartsComeFirst'
  BY <1>6, <1>7 DEF StartsComeFirst
<1>9. \A e \in Underway' : e.kind # "started"
  BY <1>6, <1>7 DEF Underway, ToSet
<1> QED BY <1>3, <1>5, <1>8, <1>9

(* While a turn's events are under way no thread carries one. *)
LEMMA NoneCarryInCore ==
    ASSUME Led, InCore
    PROVE  /\ session.asking = NoTurn /\ core.queue = <<>>
           /\ \A p \in Threads : ~Carries(p)
<1>1. ~CoreIdle /\ core.queue = <<>>
  BY DEF InCore, CoreIdle, Led, Token, SubmittedIsThere
<1> QED BY <1>1, NobodyCarries DEF Led

LEMMA HandlingAccounted ==
    ASSUME Types, Types', Led, Accounted, NEW h \in Handlers, NEW kind, kind # "finished",
           Handle(h, kind), ~hist'.overtaken, Alone(h), ~Carries(h)',
           Current(session') = Current(session), session'.asking = session.asking,
           session'.active = Current(session') \/ (kind # "started" /\ session'.active = session.active),
           Closed(session', hist'.stranded), Closing(pc'[h], hist'.stranded)
    PROVE  Accounted'
<1>1. /\ ElderHears' /\ StartsComeFirst' /\ Underway = Underway' \cup {hand[h][1]}
      /\ \A e \in Underway' : e.kind # "started"
  BY HandlingOrder
<1>2. hand[h][1].kind = kind /\ core' = core /\ hist'.stranded = hist.stranded /\ h \in Threads
  BY HandlingEffect, ThreadsApart
<1>3. InCore
  BY <1>1 DEF Accounted, Orderly, EventsAreLive
<1>4. session.asking = NoTurn /\ core.queue = <<>> /\ \A p \in Threads : ~Carries(p)
  BY <1>3, NoneCarryInCore
<1>5. \A p \in Threads : ~Carries(p)'
  BY <1>4 DEF Alone, Carries
<1>6. NoneEnds' = NoneEnds
  <2>1. \A p \in Threads : (Carries(p)' <=> Carries(p)) /\ (Carries(p) => pc'[p].turn = pc[p].turn)
    BY <1>4, <1>5
  <2> QED BY <2>1, HandlingKeepsToken DEF Led
<1>7. InCore' <=> InCore
  BY <1>2, <1>6 DEF InCore
<1>8. EventsAreLive'
  BY <1>1, <1>3, <1>7 DEF Accounted, Orderly, EventsAreLive
<1>9. StartIsHeard'
  <2>1. kind # "started" => session.active = Current(session)
    BY <1>1, <1>2, <1>3 DEF Accounted, Orderly, StartIsHeard
  <2> QED BY <2>1 DEF StartIsHeard
<1>10. Tidy'
  BY <1>2, TidyAfter DEF Accounted
<1>11. Ready'
  BY <1>1, <1>2, <1>4, <1>5 DEF Ready
<1> QED BY <1>1, <1>8, <1>9, <1>10, <1>11 DEF Accounted, Orderly

LEMMA HandleProjectedAccounted ==
    ASSUME Types, Types', Led, Accounted, NEW h \in Handlers, HandleProjected(h), ~hist'.overtaken
    PROVE  Accounted'
<1>1. /\ Handle(h, "projected") /\ Go(h, "dispatch") /\ h \in Threads
      /\ pc[h].at \in {"idle", "settle"}
  BY ThreadsApart DEF HandleProjected, Handle, Handling, At
<1>2. SameTurnsListed(session', session) /\ session'.asking = session.asking
  BY Unpacked DEF HandleProjected, SessionType, SameTurnsListed
<1>3. /\ "dispatch" \in Steps \ (CarryingSteps \cup RestoringSteps \cup {"append_now", "now"})
      /\ ~Speaking(h, "dispatch")
  BY AllSteps DEF CarryingSteps, RestoringSteps, SavingSteps, Speaking
<1>4. Light(h)
  BY <1>1, <1>3, GoLight
<1>5. Alone(h) /\ ~Carries(h)' /\ Closing(pc'[h], hist'.stranded)
  BY <1>4, LightStep, NotRestoring DEF Light
<1>6. hist'.stranded = hist.stranded
  BY <1>1, HandlingEffect
<1>7. Closed(session', hist'.stranded)
  BY <1>2, <1>6, ClosedAlike DEF Accounted, Tidy
<1>8. Current(session') = Current(session) /\ session'.active = session.active
  BY <1>2 DEF SameTurnsListed, Current
<1>9. "projected" # "finished" /\ "projected" # "started"
  OBVIOUS
<1> QED BY <1>1, <1>2, <1>5, <1>7, <1>8, <1>9, HandlingAccounted

LEMMA HandleUnconsumedAccounted ==
    ASSUME Types, Types', Led, Accounted, NEW h \in Handlers, HandleUnconsumed(h), ~hist'.overtaken
    PROVE  Accounted'
<1>1. Handle(h, "unconsumed") /\ pc' = pc /\ h \in Threads
  BY ThreadsApart DEF HandleUnconsumed
<1>2. SameTurnsListed(session', session) /\ session'.asking = session.asking
  BY Unpacked DEF HandleUnconsumed, SessionType, SameTurnsListed
<1>3. hist'.stranded = hist.stranded
  BY <1>1, HandlingEffect
<1>4. Closed(session', hist'.stranded)
  BY <1>2, <1>3, ClosedAlike DEF Accounted, Tidy
<1>5. Alone(h) /\ ~Carries(h)' /\ Closing(pc'[h], hist'.stranded)
  <2>1. pc[h].at \in {"idle", "settle"}
    BY <1>1 DEF Handle, Handling, At
  <2>2. ~Carries(h)' /\ pc'[h].at \notin RestoringSteps
    BY <1>1, <2>1 DEF Carries, CarryingSteps, RestoringSteps, SavingSteps
  <2> QED BY <1>1, <2>2, NotRestoring DEF Alone
<1>6. Current(session') = Current(session) /\ session'.active = session.active
  BY <1>2 DEF SameTurnsListed, Current
<1>7. "unconsumed" # "finished" /\ "unconsumed" # "started"
  OBVIOUS
<1> QED BY <1>1, <1>2, <1>4, <1>5, <1>6, <1>7, HandlingAccounted

(* The start of the turn that is there is heard, and makes it active.       *)
LEMMA QueuedStarts ==
    ASSUME NEW s \in SessionType, Reserved(s), Sound(s), s.dispatching # NoTurn
    PROVE  /\ IsQueued(s, Leaving(s)) /\ StartedTurn(s, Leaving(s)) = s.dispatching
           /\ s.dispatching = Current(s) /\ Activated(s, Leaving(s)) # s
<1>1. IsQueued(s, Leaving(s)) /\ Queued(s, Leaving(s)).turn = s.dispatching
  BY QueuedLeaving
<1>2. Leaving(s) # {}
  BY <1>1 DEF IsQueued
<1>3. StartedTurn(s, Leaving(s)) = s.dispatching
  BY <1>1, <1>2 DEF StartedTurn
<1> QED BY <1>1, <1>3, ActivatesLeaving, CurrentOfSound

LEMMA PendingStarts ==
    ASSUME NEW s \in SessionType, NEW S, Closed(s, S), s.dispatching = NoTurn, s.active = NoTurn,
           s.pending # NoTurn, NEW ids, ids \subseteq s.entries[s.pending], ~IsQueued(s, ids)
    PROVE  /\ StartedTurn(s, ids) = s.pending /\ Current(s) = s.pending
           /\ Activated(s, ids) # s
<1>1. Current(s) = s.pending /\ s.turns[s.pending] # "none"
  BY DEF Closed, Current
<1>2. StartedTurn(s, ids) = s.pending
  <2>1. CASE ids = {}
    <3> DEFINE r == [s EXCEPT !.active = s.pending, !.pending = s.active]
    <3>1. r.active = s.pending
      BY DEF SessionType
    <3> HIDE DEF r
    <3>2. Current(r) = s.pending
      BY <3>1 DEF Current
    <3> QED BY <2>1, <3>2 DEF StartedTurn, r
  <2>2. CASE ids # {}
    BY <2>2 DEF StartedTurn, Closed
  <2> QED BY <2>1, <2>2
<1>3. Activated(s, ids).active = s.pending
  BY <1>1, <1>2 DEF Activated, SessionType
<1> QED BY <1>1, <1>2, <1>3

(* What is activated is closed as it was. *)
LEMMA ActivatedClosed ==
    ASSUME NEW s \in SessionType, NEW r \in SessionType, NEW S, Closed(s, S), NEW t \in Turns,
           Current(s) = t, Current(r) = t, s.active = NoTurn,
           r.pending = NoTurn, r.active = t,
           \/ r.turns = [s.turns EXCEPT ![t] = "working"]
           \/ s.turns[t] # "none" /\ r.turns = [s.turns EXCEPT ![t] = IF @ = "done" THEN @ ELSE "working"]
    PROVE  Closed(r, S)
<1>1. r.turns[t] # "none" /\ \A u \in Turns : u # t => r.turns[u] = s.turns[u]
  BY DEF SessionType
<1> QED BY <1>1 DEF Closed, OpenIn

LEMMA HandleStartedAccounted ==
    ASSUME Types, Types', Grown, Led, Accounted, NEW h \in Handlers, HandleStarted(h), ~hist'.overtaken
    PROVE  Accounted'
<1> DEFINE ids == hand[h][1].ids
<1>1. /\ Handle(h, "started") /\ pc' = pc /\ h \in Threads
      /\ session' = Activated(session, Head(hand[h]).ids)
  BY ThreadsApart DEF HandleStarted
<1>2. /\ hand[h] # <<>> /\ hand[h] \in Seq(EventType) /\ hand[h][1] \in EventType
      /\ Head(hand[h]) = hand[h][1] /\ hist'.stranded = hist.stranded
      /\ hand[h][1].kind = "started" /\ 1 \in DOMAIN hand[h]
  BY <1>1, HandlingEffect
<1>3. /\ ids \in SUBSET Names /\ session' = Activated(session, ids) /\ Sound(session)
      /\ session \in SessionType /\ Reserved(session)
  BY <1>1, <1>2, Unpacked DEF EventType, Led
<1>4. hand[h][1] \in Underway
  <2>1. hand[h][1] \in ToSet(hand[h])
    BY <1>2, ElementsOfTail
  <2> QED BY <2>1 DEF Underway
<1>5. /\ ids \subseteq core.known /\ InCore /\ Knows(session, ids)
      /\ hand[h][1].turn = Current(session)
  BY <1>2, <1>4 DEF Grown, Accounted, Ready, Orderly, EventsAreLive
<1>6. Current(session) \in Turns
  BY <1>2, <1>5 DEF EventType
<1>7. session.dispatching # NoTurn => ids = Leaving(session)
  <2> SUFFICES ASSUME session.dispatching # NoTurn PROVE ids = Leaving(session)
    OBVIOUS
  <2>1. Announced
    BY <1>5 DEF Led, Sending, InCore
  <2>2. \A i \in DOMAIN channel : channel[i].kind # "started"
    BY <1>2 DEF Accounted, Orderly, StartsComeFirst
  <2>3. PICK i \in DOMAIN hand["bridge"] :
          hand["bridge"][i].kind = "started" /\ hand["bridge"][i].ids = Leaving(session)
    BY <2>1, <2>2 DEF Announced
  <2>4. i = 1 /\ hist.elder = "bridge"
    BY <2>3 DEF Accounted, Orderly, StartsComeFirst, Handlers
  <2>5. hist.elder = h
    BY <1>1, InOrder
  <2> QED BY <2>3, <2>4, <2>5
<1>8. session.dispatching = NoTurn => ~IsQueued(session, ids)
  <2> SUFFICES ASSUME session.dispatching = NoTurn, NEW i \in DOMAIN session.queue,
                      session.queue[i].id \in ids
               PROVE  FALSE
    BY DEF IsQueued
  <2>1. session.queue[i].turn \in Turns /\ session.queue[i].id \in Names
    BY QueueOf, Unpacked
  <2>2. session.queue[i].id \in Waiting(session)
    BY <2>1 DEF Waiting, Turns, NoTurn
  <2> QED BY <1>5, <2>2 DEF Led, Apart, WaitingApart
<1>9. Closed(session, hist.stranded)
  BY DEF Accounted, Tidy
<1> HIDE DEF ids
<1>10. /\ StartedTurn(session, ids) = Current(session) /\ session' # session
       /\ session.active = NoTurn /\ session.pending = Current(session)
  <2>1. CASE session.dispatching # NoTurn
    <3>1. StartedTurn(session, ids) = Current(session) /\ session' # session
      BY <1>3, <1>7, <2>1, QueuedStarts
    <3> QED BY <1>3, <2>1, <3>1, CurrentOfSound DEF Current
  <2>2. CASE session.dispatching = NoTurn
    <3>1. session.active = NoTurn /\ session.pending # NoTurn /\ ids \subseteq session.entries[session.pending]
      BY <1>5, <2>2 DEF Knows
    <3>2. ~IsQueued(session, ids)
      BY <1>8, <2>2
    <3> QED BY <1>3, <1>9, <2>2, <3>1, <3>2, PendingStarts
  <2> QED BY <2>1, <2>2
<1>11. PICK t \in Turns :
          /\ t = StartedTurn(session, ids) /\ session' \in SessionType /\ session'.active = t
          /\ session'.pending = (IF session.pending = t THEN NoTurn ELSE session.pending)
          /\ session'.asking = session.asking /\ session'.askedFor = session.askedFor
          /\ \/ ~IsQueued(session, ids) /\ ActivatesTurn(session', session, t)
             \/ ActivatesQueued(session', session, t, ids)
  BY <1>3, <1>10, ActivatedEffect
<1>12. /\ t = Current(session) /\ session'.pending = NoTurn /\ Current(session') = t
       /\ session' \in SessionType
  BY <1>10, <1>11 DEF Current, Turns, NoTurn
<1>13. \/ session'.turns = [session.turns EXCEPT ![t] = "working"]
       \/ /\ session.turns[t] # "none"
          /\ session'.turns = [session.turns EXCEPT ![t] = IF @ = "done" THEN @ ELSE "working"]
  BY <1>11 DEF ActivatesTurn, ActivatesQueued
<1>14. Closed(session', hist'.stranded)
  BY <1>2, <1>3, <1>9, <1>10, <1>11, <1>12, <1>13, ActivatedClosed
<1>15. Alone(h) /\ ~Carries(h)' /\ Closing(pc'[h], hist'.stranded)
  <2>1. pc[h].at \in {"idle", "settle"}
    BY <1>1 DEF Handle, Handling, At
  <2>2. ~Carries(h)' /\ pc'[h].at \notin RestoringSteps
    BY <1>1, <2>1 DEF Carries, CarryingSteps, RestoringSteps, SavingSteps
  <2> QED BY <1>1, <2>2, NotRestoring DEF Alone
<1>16. "started" # "finished"
  OBVIOUS
<1> QED BY <1>1, <1>11, <1>12, <1>14, <1>15, <1>16, HandlingAccounted

(* The end of the turn that is there is heard last. *)
LEMMA HandleFinishedAccounted ==
    ASSUME Types, Types', Led, Accounted, NEW h \in Handlers, HandleFinished(h), ~hist'.overtaken
    PROVE  Accounted'
<1> DEFINE x == Then(Head(hand[h]).how)
<1>1. /\ Handle(h, "finished") /\ h \in Threads /\ pc[h].at \in {"idle", "settle"}
      /\ session' = Finished(session) /\ Go(h, x)
  BY ThreadsApart DEF HandleFinished, Handle, Handling, At
<1>2. x \in {"resubmit", "dispatch"}
  BY DEF Then
<1> HIDE DEF x
<1>3. /\ hand[h] # <<>> /\ hand[h][1].kind = "finished" /\ hand[h] \in Seq(EventType)
      /\ channel' = channel /\ core' = core /\ hand'[h] = Tail(hand[h])
      /\ \A g \in Handlers : g # h => hand'[g] = hand[g]
      /\ hist'.stranded = hist.stranded /\ 1 \in DOMAIN hand[h]
  BY <1>1, HandlingEffect
<1>4. ~NoneFinished(hand[h]) /\ FinishedLast(hand[h]) /\ channel = <<>>
  BY <1>3 DEF NoneFinished, Led, Token, EndIsThere
<1>5. hand'[h] = <<>>
  BY <1>3, <1>4, FinishedBehind
<1>6. InCore /\ core.run = NoRun
  <2>1. ~NoneEnds
    BY <1>4 DEF NoneEnds
  <2> QED BY <2>1 DEF InCore, Led, Token, RunningIsThere
<1>7. session.asking = NoTurn /\ core.queue = <<>> /\ \A p \in Threads : ~Carries(p)
  BY <1>6, NoneCarryInCore
<1>8. \A g \in Handlers : hand'[g] = <<>>
  <2> SUFFICES ASSUME NEW g \in Handlers, g # h PROVE hand[g] = <<>>
    BY <1>3, <1>5
  <2>1. hist.elder = h
    BY <1>1, InOrder
  <2> QED BY <1>4, <2>1 DEF Accounted, Orderly, ElderHears
<1>9. Underway' = {}
  <2>1. channel' = <<>>
    BY <1>3, <1>4
  <2> QED BY <1>8, <2>1 DEF Underway, ToSet
<1>10. session.active = Current(session)
  <2>1. Underway = Underway' \cup {hand[h][1]}
    BY <1>1, HandlingOrder
  <2>2. \A e \in Underway : e.kind # "started"
    BY <1>3, <1>9, <2>1
  <2> QED BY <1>6, <2>2 DEF Accounted, Orderly, StartIsHeard
<1>11. Orderly'
  <2>1. NoneEnds' /\ channel' = <<>>
    BY <1>3, <1>4, <1>8 DEF NoneEnds, NoneFinished
  <2>2. ~InCore'
    BY <1>3, <1>6, <2>1 DEF InCore
  <2>3. hist'.elder \in Handlers
    BY DEF Types, HistType
  <2> QED BY <1>8, <2>1, <2>2, <2>3, NoEventsNoOrder
<1> DEFINE s == Finished(session)
<1>12. /\ s \in SessionType /\ s.pending = NoTurn /\ s.active = NoTurn /\ s.asking = session.asking
       /\ s.turns = (IF session.active = NoTurn THEN session.turns
                     ELSE [session.turns EXCEPT ![session.active] = "done"])
  BY FinishedEffect, Unpacked
<1>13. session' = s
  BY <1>1
<1> HIDE DEF s
<1>14. Closed(session', hist'.stranded)
  <2> SUFFICES ASSUME NEW t \in OpenIn(session') PROVE t \in hist.stranded
    BY <1>3, <1>12, <1>13 DEF Closed, Current
  <2>1. t \in Turns /\ session'.turns[t] \in {"pending", "working"}
    BY DEF OpenIn
  <2>2. t # session.active /\ session'.turns[t] = session.turns[t]
    <3>1. DOMAIN session.turns = Turns
      BY Unpacked DEF SessionType
    <3>2. CASE session.active = NoTurn
      BY <1>12, <1>13, <2>1, <3>2 DEF Turns, NoTurn
    <3>3. CASE session.active # NoTurn
      <4>1. session'.turns = [session.turns EXCEPT ![session.active] = "done"]
        BY <1>12, <1>13, <3>3
      <4>2. t # session.active
        BY <2>1, <3>1, <4>1
      <4> QED BY <2>1, <3>1, <4>1, <4>2
    <3> QED BY <3>2, <3>3
  <2>3. t \in OpenIn(session)
    BY <2>1, <2>2 DEF OpenIn
  <2> QED BY <1>10, <2>2, <2>3 DEF Accounted, Tidy, Closed
<1>15. /\ x \in Steps \ (CarryingSteps \cup RestoringSteps \cup {"append_now", "now"})
       /\ ~Speaking(h, x)
  <2>1. "dispatch" \in Steps /\ "resubmit" \in Steps
    BY AllSteps DEF HandoffSteps
  <2>2. x \in Steps
    BY <1>2, <2>1
  <2> QED BY <1>2, <2>2 DEF CarryingSteps, RestoringSteps, SavingSteps, Speaking
<1>16. Light(h)
  BY <1>1, <1>15, GoLight
<1>17. Alone(h) /\ ~Carries(h)' /\ Closing(pc'[h], hist'.stranded)
  BY <1>16, LightStep, NotRestoring DEF Light
<1>18. Tidy'
  BY <1>1, <1>3, <1>14, <1>17, TidyAfter DEF Accounted
<1>19. \A p \in Threads : ~Carries(p)'
  BY <1>7, <1>17 DEF Alone, Carries
<1>20. Ready'
  BY <1>3, <1>7, <1>9, <1>12, <1>13, <1>19 DEF Ready
<1> QED BY <1>11, <1>18, <1>20 DEF Accounted

LEMMA AccountedInit == Init => Accounted
<1> SUFFICES ASSUME Init PROVE Accounted
  OBVIOUS
<1>1. PICK ask \in BOOLEAN : session = NewSession(ask)
  BY DEF Init
<1>2. /\ pc = [p \in Threads |-> Resting("idle", NoCommand)]
      /\ core.queue = <<>> /\ core.run = NoRun
      /\ channel = <<>> /\ hand = [h \in Handlers |-> <<>>]
  BY DEF Init
<1>3. /\ session.active = NoTurn /\ session.pending = NoTurn /\ session.asking = NoTurn
      /\ \A t \in Turns : session.turns[t] = "none"
  BY <1>1 DEF NewSession
<1>4. \A p \in Threads : pc[p].at = "idle"
  BY <1>2 DEF Resting
<1>5. Tidy
  <2>1. Closed(session, hist.stranded)
    BY <1>3 DEF Closed, OpenIn, Current
  <2>2. \A p \in Threads : pc[p].at \notin RestoringSteps
    BY <1>4 DEF RestoringSteps, SavingSteps
  <2> QED BY <2>1, <2>2, NotRestoring DEF Tidy
<1>6. \A h \in Handlers : hand[h] = <<>>
  BY <1>2
<1>7. Underway = {}
  BY <1>2, <1>6 DEF Underway, ToSet
<1>8. Ready
  <2>1. \A p \in Threads : ~Carries(p)
    BY <1>4 DEF Carries
  <2> QED BY <1>2, <1>3, <1>7, <2>1 DEF Ready
<1>9. Orderly
  <2>1. NoneEnds
    BY <1>2, <1>6 DEF NoneEnds, NoneFinished
  <2>2. EventsAreLive /\ StartIsHeard
    BY <1>2, <1>7, <2>1 DEF EventsAreLive, StartIsHeard, InCore
  <2>3. ElderHears /\ StartsComeFirst
    BY <1>2, <1>6 DEF ElderHears, StartsComeFirst
  <2> QED BY <2>2, <2>3 DEF Orderly
<1> QED BY <1>5, <1>8, <1>9 DEF Accounted

LEMMA StandingStillAccounted ==
    ASSUME Accounted, UNCHANGED <<session, core, channel, hand, pc, hist>>
    PROVE  Accounted'
<1>1. Tidy'
  BY DEF Accounted, Tidy
<1>2. Underway' = Underway /\ (InCore' <=> InCore)
  BY DEF Underway, InCore, NoneEnds
<1>3. Ready'
  BY <1>2 DEF Accounted, Ready, Carries
<1>4. EventsAreLive' /\ StartIsHeard'
  BY <1>2 DEF Accounted, Orderly, EventsAreLive, StartIsHeard
<1>5. ElderHears' /\ StartsComeFirst'
  BY DEF Accounted, Orderly, ElderHears, StartsComeFirst
<1> QED BY <1>1, <1>3, <1>4, <1>5 DEF Accounted, Orderly

LEMMA AccountedStep == Types /\ Types' /\ Grown /\ Led /\ Accounted /\ Calm' /\ [Next]_vars => Accounted'
<1> SUFFICES ASSUME Types, Types', Grown, Led, Accounted, Calm', [Next]_vars PROVE Accounted'
  OBVIOUS
<1>1. CASE UNCHANGED vars
  BY <1>1, StandingStillAccounted DEF vars
<1>2. ASSUME NEW h \in Handlers,
             \/ Drain(h) \/ HandleStarted(h) \/ HandleProjected(h) \/ HandleUnconsumed(h)
             \/ HandleFinished(h) \/ Resubmit(h) \/ Handoff(h) \/ HandoffSaved(h) \/ SendHandoff(h)
      PROVE  Accounted'
  <2>1. ~hist'.overtaken
    BY DEF Calm
  <2> QED BY <1>2, <2>1, DrainAccounted, HandleStartedAccounted, HandleProjectedAccounted,
          HandleUnconsumedAccounted, HandleFinishedAccounted, ResubmitAccounted, HandoffAccounted,
          SendHandoffAccounted
<1>3. ASSUME NEW p \in Threads,
             \/ DispatchNext(p) \/ SendQueued(p) \/ Start(p) \/ TurnSaved(p) \/ Ask(p) \/ Send(p)
             \/ Resolve(p) \/ ResolveSend(p) \/ Enqueue(p) \/ QueueSaved(p)
      PROVE  Accounted'
  BY <1>3, DispatchNextAccounted, SendQueuedAccounted, StartAccounted, TurnSavedAccounted,
     AskAccounted, SendAccounted, ResolveAccounted, ResolveSendAccounted, EnqueueAccounted,
     SavedAccounted
<1>4. CASE \/ \E c \in Commands : Submit(c) \/ Supplement(c)
           \/ \E f \in Fires : Fire(f)
           \/ Note \/ NoteSaved \/ AppendEntry \/ EntrySaved \/ Settled
           \/ \E item \in ToSet(session.queue) : SendNow(item)
           \/ DispatchNow \/ NowSaved \/ SupplementNow
           \/ Cancel \/ StopSaved \/ StopCore
           \/ CoreStart \/ CoreTake \/ CoreFinish \/ \E how \in Outcomes : CoreClose(how)
  BY <1>4, SubmitAccounted, FireAccounted, NoteAccounted, SavedAccounted, AppendEntryAccounted,
     EntrySavedAccounted, SettledAccounted, SendNowAccounted, DispatchNowAccounted, NowSavedAccounted,
     SupplementNowAccounted, CancelAccounted, StopCoreAccounted, CoreStartAccounted,
     CoreTakeAccounted, CoreFinishAccounted, CoreCloseAccounted, Zenon
<1>5. CASE Next
  BY <1>2, <1>3, <1>4, <1>5, Zenon DEF Next
<1> QED BY <1>1, <1>5

(* A turn in the Session's list that is neither over nor current was left  *)
(* behind by an error path, as long as no save that failed has put back an *)
(* older session, no message was sent over another turn, and no two        *)
(* threads have handled events out of their order.                          *)
THEOREM NoTurnIsLeftOpen == Spec => []NoTurnLeftOpen
<1>1. Init => Accounted
  BY AccountedInit
<1>2. /\ Types /\ Grown /\ (Steady => Led) /\ Types' /\ (Calm => Accounted) /\ [Next]_vars
      => (Calm' => Accounted')
  <2> SUFFICES ASSUME Types, Grown, Steady => Led, Types', Calm => Accounted, [Next]_vars, Calm'
               PROVE  Accounted'
    OBVIOUS
  <2>1. Calm
    BY HistoryStep DEF Remembers, Calm
  <2> QED BY <2>1, AccountedStep DEF Calm
<1>3. (Calm => Accounted) => NoTurnLeftOpen
  <2> SUFFICES ASSUME Accounted, NEW t \in Turns, session.turns[t] \in {"pending", "working"}
               PROVE  t = Current(session) \/ t \in hist.stranded
    BY DEF NoTurnLeftOpen, Disturbed, Calm, Steady
  <2> QED BY DEF Accounted, Tidy, Closed, OpenIn
<1> QED BY <1>1, <1>2, <1>3, SessionLed, PTL DEF Spec
=============================================================================
