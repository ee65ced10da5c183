------------------------- MODULE HostCommandsProofs -------------------------
(***************************************************************************)
(* One lane per scope, exclusion, the epoch check and one run per command, *)
(* for any number of connections, commands and scopes.                     *)
(***************************************************************************)
EXTENDS HostCommands, SequenceTheorems, FiniteSetTheorems, WellFoundedInduction, TLAPS

(* Every nonempty set of naturals has a least element. *)
LEMMA LeastNat ==
    ASSUME NEW K \in SUBSET Nat, K # {}
    PROVE  \E m \in K : \A n \in K : m <= n
<1> DEFINE R == OpToRel(<, Nat)
<1>1. R = {ss \in Nat \X Nat : ss[1] < ss[2]}
  BY Zenon DEF OpToRel
<1>2. IsWellFoundedOn(R, Nat)
  BY NatLessThanWellFounded, Zenon
<1> HIDE DEF R
<1>3. PICK m \in K : \A n \in K : <<n, m>> \notin R
  BY <1>2, WFMin, Zenon
<1>4. \A n \in K : ~(n < m)
  BY <1>1, <1>3
<1> QED BY <1>3, <1>4

(* The minimum of a nonempty set of naturals is its least element.         *)
LEMMA MinOfNats ==
    ASSUME NEW K \in SUBSET Nat, K # {}
    PROVE  Min(K) \in K /\ \A n \in K : Min(K) <= n
<1>1. \E m \in K : \A n \in K : m <= n
  BY LeastNat
<1> QED BY <1>1, Zenon DEF Min

-----------------------------------------------------------------------------
(* What the operators of CommandLane do to the tickets of a lane that are  *)
(* out: those issued, not passed over and not cancelled.                   *)

(* Where skip_cancelled_tickets stops, and what it forgets.                *)
LEMMA SkipCancelledProperties ==
    ASSUME NEW l \in LaneType, l.serving <= l.next, \A t \in l.skipped : t < l.next,
           NEW r, r = SkipCancelled(l)
    PROVE  /\ r \in LaneType
           /\ r.next = l.next /\ r.active = l.active
           /\ l.serving <= r.serving /\ r.serving <= l.next
           /\ r.serving \notin l.skipped
           /\ \A t \in Nat : l.serving <= t /\ t < r.serving => t \in l.skipped
           /\ \A t : t \in r.skipped <=>
                  t \in l.skipped /\ ~(l.serving <= t /\ t <= r.serving)
<1> DEFINE open == {t \in l.serving .. l.next : t \notin l.skipped}
           first == Min(open)
<1>0. l.serving \in Nat /\ l.next \in Nat /\ l.skipped \subseteq Nat
  BY DEF LaneType
<1>1. l.next \in open /\ open \in SUBSET Nat
  BY <1>0
<1>2. first \in open /\ \A t \in open : first <= t
  BY <1>1, MinOfNats
<1>3. r = [l EXCEPT !.serving = first, !.skipped = @ \ (l.serving .. first)]
  BY DEF SkipCancelled
<1>4. first \in Nat /\ l.serving <= first /\ first <= l.next /\ first \notin l.skipped
  BY <1>0, <1>2
<1>5. \A t \in Nat : l.serving <= t /\ t < first => t \in l.skipped
  BY <1>0, <1>2, <1>4
<1> HIDE DEF open, first
<1>6. /\ r \in LaneType
      /\ r.next = l.next /\ r.active = l.active
      /\ r.serving = first
      /\ r.skipped = l.skipped \ (l.serving .. first)
  BY <1>0, <1>3, <1>4 DEF LaneType
<1>7. \A t : t \in r.skipped <=>
              t \in l.skipped /\ ~(l.serving <= t /\ t <= r.serving)
  BY <1>0, <1>4, <1>6
<1> QED BY <1>4, <1>5, <1>6, <1>7

(* The tickets that are out.                                               *)
TicketsOut(l) == {t \in Nat : l.serving <= t /\ t < l.next /\ t \notin l.skipped}

(* A lane between two critical sections: cancelled tickets are still to    *)
(* come, and whoever is inside has a ticket.                               *)
WellKept(l) ==
    /\ l \in LaneType
    /\ l.serving <= l.next
    /\ \A t \in l.skipped : l.serving < t /\ t < l.next
    /\ l.active => l.serving < l.next

LEMMA NewLaneIsEmpty == WellKept(NewLane) /\ TicketsOut(NewLane) = {}
BY DEF NewLane, WellKept, TicketsOut, LaneType

(* In a lane with tickets out the one that is served is out.               *)
LEMMA ServedIsOut ==
    ASSUME NEW l, WellKept(l), l.serving # l.next
    PROVE  l.serving \in TicketsOut(l)
BY DEF WellKept, TicketsOut, LaneType

LEMMA IssueTakesOne ==
    ASSUME NEW l, WellKept(l)
    PROVE  /\ WellKept(Issue(l))
           /\ Issue(l).serving = l.serving /\ Issue(l).active = l.active
           /\ TicketsOut(Issue(l)) = TicketsOut(l) \cup {l.next}
           /\ l.next \notin TicketsOut(l)
<1>1. /\ l.serving \in Nat /\ l.next \in Nat /\ l.skipped \subseteq Nat /\ l \in LaneType
  BY DEF WellKept, LaneType
<1>2. /\ Issue(l) \in LaneType /\ Issue(l).next = l.next + 1 /\ Issue(l).serving = l.serving
      /\ Issue(l).skipped = l.skipped /\ Issue(l).active = l.active
  BY <1>1 DEF Issue, LaneType
<1> QED BY <1>1, <1>2 DEF WellKept, TicketsOut, LaneType

LEMMA EnterKeepsTickets ==
    ASSUME NEW l, WellKept(l), l.serving \in TicketsOut(l)
    PROVE  /\ WellKept(Enter(l)) /\ TicketsOut(Enter(l)) = TicketsOut(l)
           /\ Enter(l).serving = l.serving /\ Enter(l).active = TRUE
<1>1. /\ l.serving \in Nat /\ l.next \in Nat /\ l.skipped \subseteq Nat /\ l \in LaneType
  BY DEF WellKept, LaneType
<1>2. /\ Enter(l) \in LaneType /\ Enter(l).next = l.next /\ Enter(l).serving = l.serving
      /\ Enter(l).skipped = l.skipped /\ Enter(l).active = TRUE
  BY <1>1 DEF Enter, LaneType
<1>3. WellKept(Enter(l))
  BY <1>1, <1>2 DEF WellKept, TicketsOut, LaneType
<1>4. TicketsOut(Enter(l)) = TicketsOut(l)
  BY <1>1, <1>2 DEF TicketsOut
<1> QED BY <1>2, <1>3, <1>4

(* Passing over cancelled tickets in an inactive lane.                     *)
LEMMA SkipCancelledKeepsTickets ==
    ASSUME NEW l \in LaneType, l.serving <= l.next, ~l.active,
           \A t \in l.skipped : l.serving <= t /\ t < l.next
    PROVE  WellKept(SkipCancelled(l)) /\ TicketsOut(SkipCancelled(l)) = TicketsOut(l)
<1> DEFINE r == SkipCancelled(l)
<1>1. /\ r \in LaneType
      /\ r.next = l.next /\ r.active = l.active
      /\ l.serving <= r.serving /\ r.serving <= l.next
      /\ r.serving \notin l.skipped
      /\ \A t \in Nat : l.serving <= t /\ t < r.serving => t \in l.skipped
      /\ \A t : t \in r.skipped <=>
             t \in l.skipped /\ ~(l.serving <= t /\ t <= r.serving)
  BY SkipCancelledProperties
<1> HIDE DEF r
<1>2. r.serving \in Nat /\ l.serving \in Nat /\ l.next \in Nat /\ l.skipped \subseteq Nat
  BY <1>1 DEF LaneType
<1>3. \A t \in r.skipped : r.serving < t /\ t < r.next
  BY <1>1, <1>2
<1>4. WellKept(r)
  BY <1>1, <1>3 DEF WellKept
<1>5. ASSUME NEW t \in Nat
      PROVE  t \in TicketsOut(r) <=> t \in TicketsOut(l)
  BY <1>1, <1>2 DEF TicketsOut
<1>6. TicketsOut(r) = TicketsOut(l)
  BY <1>5 DEF TicketsOut
<1> QED BY <1>4, <1>6 DEF r

(* A ticket that is issued and cancelled at once changes nothing.          *)
LEMMA CancelledAtOnce ==
    ASSUME NEW l, WellKept(l)
    PROVE  /\ WellKept(Skip(Issue(l), l.next))
           /\ TicketsOut(Skip(Issue(l), l.next)) = TicketsOut(l)
           /\ l.active => /\ Skip(Issue(l), l.next).active
                          /\ Skip(Issue(l), l.next).serving = l.serving
<1> DEFINE marked == [Issue(l) EXCEPT !.skipped = @ \cup {l.next}]
<1>1. /\ l.serving \in Nat /\ l.next \in Nat /\ l.skipped \subseteq Nat /\ l \in LaneType
  BY DEF WellKept, LaneType
<1>2. /\ marked \in LaneType /\ marked.next = l.next + 1 /\ marked.serving = l.serving
      /\ marked.skipped = l.skipped \cup {l.next} /\ marked.active = l.active
  <2>1. /\ Issue(l) \in LaneType /\ Issue(l).next = l.next + 1 /\ Issue(l).serving = l.serving
        /\ Issue(l).skipped = l.skipped /\ Issue(l).active = l.active
    BY <1>1 DEF Issue, LaneType
  <2> QED BY <2>1, <1>1 DEF LaneType
<1>3. Skip(Issue(l), l.next) = IF l.active THEN marked ELSE SkipCancelled(marked)
  <2>1. Issue(l).active = l.active
    BY <1>1 DEF Issue
  <2> QED BY <2>1, Zenon DEF Skip
<1> HIDE DEF marked
<1>4. /\ marked \in LaneType /\ marked.serving <= marked.next
      /\ \A t \in marked.skipped : marked.serving <= t /\ t < marked.next
  <2>2. l.serving <= l.next /\ \A t \in l.skipped : t \in Nat /\ l.serving < t /\ t < l.next
    BY <1>1 DEF WellKept
  <2> QED BY <2>2, <1>1, <1>2
<1>5. TicketsOut(marked) = TicketsOut(l)
  BY <1>1, <1>2 DEF TicketsOut
<1>6. CASE l.active
  <2>1. WellKept(marked)
    BY <1>1, <1>2, <1>4, <1>6 DEF WellKept
  <2> QED BY <2>1, <1>2, <1>3, <1>5, <1>6
<1>7. CASE ~l.active
  <2>1. WellKept(SkipCancelled(marked)) /\ TicketsOut(SkipCancelled(marked)) = TicketsOut(marked)
    BY <1>2, <1>4, <1>7, SkipCancelledKeepsTickets
  <2> QED BY <2>1, <1>3, <1>5, <1>7
<1> QED BY <1>6, <1>7

(* Who leaves takes its ticket along.                                      *)
LEMMA AdvanceReturnsOne ==
    ASSUME NEW l, WellKept(l), l.serving \in TicketsOut(l)
    PROVE  WellKept(Advance(l)) /\ TicketsOut(Advance(l)) = TicketsOut(l) \ {l.serving}
<1> DEFINE left == [l EXCEPT !.active = FALSE]
           next == [left EXCEPT !.serving = l.serving + 1]
<1>1. /\ l.serving \in Nat /\ l.next \in Nat /\ l.skipped \subseteq Nat /\ l \in LaneType
  BY DEF WellKept, LaneType
<1>2. /\ next \in LaneType /\ next.next = l.next /\ next.serving = l.serving + 1
      /\ next.skipped = l.skipped /\ next.active = FALSE
  <2>1. /\ left \in LaneType /\ left.next = l.next /\ left.serving = l.serving
        /\ left.skipped = l.skipped /\ left.active = FALSE
    BY <1>1 DEF LaneType
  <2> HIDE DEF left
  <2> QED BY <2>1, <1>1 DEF LaneType
<1>3. Advance(l) = SkipCancelled(next)
  BY Zenon DEF Advance
<1> HIDE DEF next, left
<1>4. /\ next \in LaneType /\ next.serving <= next.next /\ ~next.active
      /\ \A t \in next.skipped : next.serving <= t /\ t < next.next
  <2>2. l.serving < l.next
    BY DEF TicketsOut
  <2>3. \A t \in l.skipped : t \in Nat /\ l.serving < t /\ t < l.next
    BY <1>1 DEF WellKept
  <2> QED BY <2>2, <2>3, <1>1, <1>2
<1>5. TicketsOut(next) = TicketsOut(l) \ {l.serving}
  BY <1>1, <1>2 DEF TicketsOut
<1> QED BY <1>3, <1>4, <1>5, SkipCancelledKeepsTickets

-----------------------------------------------------------------------------

(* What a connection has, in order: what its worker executes (0), what is  *)
(* queued, and what its task accepts.                                      *)
Places(c) == 0 .. Len(pipe[c]) + 1
JobAt(c, i) ==
    IF i = 0 THEN worker[c].job ELSE IF i <= Len(pipe[c]) THEN pipe[c][i] ELSE accepting[c]

(* A command has a lane if it has a scope; what takes the barrier and a    *)
(* lane has one; only a global command calls for write().                  *)
Scoped(job) == job # NoJob => (job.lane = NoLane <=> ScopeOf[job.cmd] = NoScope)
WorkerFits(c) ==
    /\ worker[c].pc \in {"barrier", "queued", "lane", "drop", "release"} => worker[c].job.lane # NoLane
    /\ At(c, "queued") => Cmd(c) \in Global
ScopesFit ==
    \A c \in Conns : WorkerFits(c) /\ \A i \in Places(c) : Scoped(JobAt(c, i))

Shape == TypeOK /\ ScopesFit

(* Whoever is past the barrier has it, as a writer or as a reader.         *)
Holds(c) == worker[c].pc \in {"lane", "epoch", "run", "finish", "leave"} /\ worker[c].job.lane # NoLane
BarrierInv ==
    /\ \A c \in Conns : Holds(c) => IF Cmd(c) \in Global THEN writer = c ELSE c \in readers
    /\ writer # Nobody => readers = {}
    /\ maint = "scanning" => writer = "maintenance"

(* The tickets out of a lane are those of the commands in it, each of      *)
(* which has its own; who is inside has the one that is served.            *)
InLane(c, i) ==
    /\ i \in 0 .. Len(pipe[c])
    /\ JobAt(c, i).lane # NoLane
    /\ i = 0 => worker[c].pc \notin {"drop", "release"}
Inside(c) == worker[c].pc \in {"epoch", "run", "finish", "leave"} /\ worker[c].job.lane # NoLane
LanesInv ==
    /\ \A o \in LaneObjects : WellKept(lanes[o])
    /\ \A c \in Conns : \A i \in Places(c) :
         InLane(c, i) => JobAt(c, i).ticket \in TicketsOut(lanes[JobAt(c, i).lane])
    /\ \A o \in LaneObjects : \A t \in TicketsOut(lanes[o]) :
         \E c \in Conns : \E i \in Places(c) : InLane(c, i) /\ JobAt(c, i).lane = o /\ JobAt(c, i).ticket = t
    /\ \A c, d \in Conns : \A i \in Places(c), j \in Places(d) :
         (/\ InLane(c, i) /\ InLane(d, j)
          /\ JobAt(c, i).lane = JobAt(d, j).lane /\ JobAt(c, i).ticket = JobAt(d, j).ticket)
            => c = d /\ i = j
    /\ \A c \in Conns : Inside(c) =>
         LET lane == lanes[worker[c].job.lane] IN lane.active /\ lane.serving = worker[c].job.ticket

(* OneLanePerScope, by places.                                             *)
ScopesInv ==
    \A c \in Conns : \A i \in Places(c) :
        JobAt(c, i).lane # NoLane /\ (i = 0 => worker[c].pc \notin {"drop", "release"})
          => mapped[ScopeOf[JobAt(c, i).cmd]] = JobAt(c, i).lane

(* What has the current epoch was accepted in the MEM that is open, unless *)
(* a switch is half done; what runs has the current epoch, and does not    *)
(* run beside a switch.                                                    *)
EpochsInv ==
    /\ mem.epoch <= epoch + 1
    /\ \A c \in Conns : \A i \in Places(c) : JobAt(c, i) # NoJob =>
         /\ JobAt(c, i).epoch <= epoch
         /\ JobAt(c, i).mem.opened <= mem.opened
         /\ (JobAt(c, i).epoch = epoch /\ ~HalfSwitched) => JobAt(c, i).mem = mem
    /\ \A c \in Conns : At(c, "run") /\ Cmd(c) \notin Switches => worker[c].job.epoch = epoch
    /\ SwitchRunning => EpochReaders = {}

(* A command whose handler is still to come, and that counts.              *)
ToHandle(c, i, m) ==
    /\ JobAt(c, i).cmd = m /\ JobAt(c, i).mem = mem
    /\ i = 0 => worker[c].pc \in {"barrier", "queued", "lane", "epoch", "run"}
OnceInv ==
    \A m \in Commands \ (Core \cup Sensitive) :
        /\ handled[m] <= 1
        /\ dedup[m] = "absent" => handled[m] = 0
        /\ \A c \in Conns : \A i \in Places(c) : ToHandle(c, i, m) => handled[m] = 0 /\ dedup[m] # "absent"
        /\ \A c, d \in Conns : \A i \in Places(c), j \in Places(d) :
             ToHandle(c, i, m) /\ ToHandle(d, j, m) => c = d /\ i = j

IInv == Shape /\ BarrierInv /\ LanesInv /\ ScopesInv /\ EpochsInv /\ OnceInv

-----------------------------------------------------------------------------
(* The steps that move the worker of c from one stage to the next and      *)
(* touch no command of anybody.                                            *)
Moves(c) ==
    \/ CallWrite(c) \/ TakeWrite(c) \/ TakeRead(c) \/ EnterLane(c) \/ CheckEpoch(c)
    \/ Handle(c) \/ HandleSwitch(c) \/ Finish(c) \/ DropLane(c)
    \/ (Leave(c) /\ worker[c].job.lane # NoLane)

(* The steps with which the worker of c is done with its command.          *)
Ends(c) == ReleaseLane(c) \/ (Leave(c) /\ worker[c].job.lane = NoLane)

(* The steps of nobody's worker or task.                                   *)
Aside ==
    \/ \E c \in Conns : \E m \in Commands : Accept(c, m) /\ ~TakenIn(m)
    \/ \E m \in Commands : CoreAccepts(m)
    \/ MaintenanceStep
    \/ UNCHANGED vars

LEMMA StepsSorted ==
    ASSUME [Next]_vars
    PROVE  \/ \E c \in Conns : \E m \in Commands : Accept(c, m) /\ TakenIn(m)
           \/ \E c \in Conns : Enqueue(c) \/ Refuse(c) \/ Dequeue(c) \/ Moves(c) \/ Ends(c)
           \/ Aside
BY Zenon DEF Next, Queue, Execute, Moves, Ends, Aside

LEMMA TypeFacts ==
    ASSUME TypeOK, NEW c \in Conns
    PROVE  /\ worker[c] \in WorkerType /\ worker[c].job \in JobType
           /\ accepting[c] \in JobType
           /\ pipe[c] \in Seq(JobType \ {NoJob}) /\ Len(pipe[c]) \in Nat
           /\ \A i \in 1 .. Len(pipe[c]) : pipe[c][i] \in JobType /\ pipe[c][i] # NoJob
<1>1. pipe[c] \in Seq(JobType \ {NoJob})
  BY DEF TypeOK
<1>2. Len(pipe[c]) \in Nat /\ \A i \in 1 .. Len(pipe[c]) : pipe[c][i] \in JobType \ {NoJob}
  BY <1>1
<1> QED BY <1>1, <1>2 DEF TypeOK, WorkerType

LEMMA JobFacts ==
    ASSUME NEW job \in JobType, job # NoJob
    PROVE  /\ job.cmd \in Commands /\ job.epoch \in Nat /\ job.mem \in MemType
           /\ job.lane \in LaneObjects \cup {NoLane} /\ job.ticket \in Nat
BY DEF JobType

LEMMA PlacesTyped ==
    ASSUME TypeOK, NEW c \in Conns, NEW i \in Places(c)
    PROVE  JobAt(c, i) \in JobType /\ i \in Nat
BY TypeFacts DEF Places, JobAt

(* What each kind of step does to the commands.                            *)
LEMMA JobsKept ==
    ASSUME pipe' = pipe, accepting' = accepting, NEW d, worker'[d].job = worker[d].job
    PROVE  Places(d)' = Places(d) /\ \A i : JobAt(d, i)' = JobAt(d, i)
BY DEF Places, JobAt

LEMMA MoveEffect ==
    ASSUME Shape, NEW c \in Conns, Moves(c)
    PROVE  /\ pipe' = pipe /\ accepting' = accepting
           /\ worker'[c].job = worker[c].job
           /\ \A d \in Conns \ {c} : worker'[d] = worker[d]
           /\ worker' \in [Conns -> WorkerType]
           /\ ~At(c, "idle") /\ ~At(c, "idle")'
<1>1. worker \in [Conns -> WorkerType] /\ worker[c] \in WorkerType
  BY DEF Shape, TypeOK
<1>2. CASE CallWrite(c)
  BY <1>1, <1>2 DEF CallWrite, Goto, At, WorkerType
<1>3. CASE TakeWrite(c)
  BY <1>1, <1>3 DEF TakeWrite, Goto, At, WorkerType
<1>4. CASE TakeRead(c)
  BY <1>1, <1>4 DEF TakeRead, Goto, At, WorkerType
<1>5. CASE EnterLane(c)
  BY <1>1, <1>5 DEF EnterLane, Goto, At, WorkerType
<1>6. CASE CheckEpoch(c)
  BY <1>1, <1>6 DEF CheckEpoch, At, WorkerType
<1>7. CASE Handle(c)
  BY <1>1, <1>7 DEF Handle, At, WorkerType
<1>8. CASE HandleSwitch(c)
  BY <1>1, <1>8 DEF HandleSwitch, At, WorkerType
<1>9. CASE Finish(c)
  BY <1>1, <1>9 DEF Finish, Goto, At, WorkerType
<1>10. CASE DropLane(c)
  BY <1>1, <1>10 DEF DropLane, Goto, At, WorkerType
<1>11. CASE Leave(c) /\ worker[c].job.lane # NoLane
  BY <1>1, <1>11 DEF Leave, Goto, At, WorkerType
<1> QED BY <1>2, <1>3, <1>4, <1>5, <1>6, <1>7, <1>8, <1>9, <1>10, <1>11 DEF Moves

LEMMA EndEffect ==
    ASSUME Shape, NEW c \in Conns, Ends(c)
    PROVE  /\ pipe' = pipe /\ accepting' = accepting
           /\ worker' = [worker EXCEPT ![c] = Idle]
           /\ UNCHANGED <<sent, lanes, mapped, writer, readers, epoch, mem, dedup, core, handled, maint>>
BY DEF Ends, ReleaseLane, Leave, barrierVars

(* The record that Accept makes of command m.                              *)
Stamped(m, lane) == [cmd |-> m, epoch |-> epoch, mem |-> mem, lane |-> lane, ticket |-> 0]

LEMMA AcceptEffect ==
    ASSUME Shape, NEW c \in Conns, NEW m \in Commands, Accept(c, m), TakenIn(m)
    PROVE  /\ pipe' = pipe /\ worker' = worker
           /\ UNCHANGED <<writer, readers, epoch, mem, core, handled, maint>>
           /\ accepting[c] = NoJob /\ ~SwitchRunning
           /\ dedup' = [dedup EXCEPT ![m] = "accepted"]
           /\ \E lane \in LaneObjects \cup {NoLane} :
                /\ accepting' = [accepting EXCEPT ![c] = Stamped(m, lane)]
                /\ lane = NoLane <=> ScopeOf[m] = NoScope
                /\ \/ UNCHANGED <<lanes, mapped>> /\ (lane # NoLane => mapped[ScopeOf[m]] = lane)
                   \/ /\ lane # NoLane /\ StrongCount(lane) = 0
                      /\ mapped[ScopeOf[m]] = NoLane
                      /\ lanes' = [lanes EXCEPT ![lane] = NewLane]
                      /\ mapped' = [mapped EXCEPT ![ScopeOf[m]] = lane]
<1> DEFINE scope == ScopeOf[m]
           found == IF scope = NoScope THEN NoLane ELSE mapped[scope]
           fresh == CHOOSE o \in LaneObjects : StrongCount(o) = 0
           create == scope # NoScope /\ found = NoLane
           lane == IF create THEN fresh ELSE found
<1>1. /\ pipe' = pipe /\ worker' = worker
      /\ UNCHANGED <<writer, readers, epoch, mem, core, handled, maint>>
      /\ accepting[c] = NoJob /\ ~SwitchRunning
      /\ create => \E o \in LaneObjects : StrongCount(o) = 0
      /\ dedup' = [dedup EXCEPT ![m] = "accepted"]
      /\ accepting' = [accepting EXCEPT ![c] = Stamped(m, lane)]
      /\ IF create
         THEN /\ lanes' = [lanes EXCEPT ![lane] = NewLane]
              /\ mapped' = [mapped EXCEPT ![scope] = lane]
         ELSE UNCHANGED <<lanes, mapped>>
  BY Zenon DEF Accept, Stamped
<1>2. create => fresh \in LaneObjects /\ StrongCount(fresh) = 0
  BY <1>1, Zenon
<1>3. scope \in Scopes \cup {NoScope} /\ NoScope \notin Scopes /\ NoLane \notin LaneObjects
  BY CommandsAssumption DEF NoLane
<1>4. scope # NoScope => mapped[scope] \in LaneObjects \cup {NoLane}
  BY <1>3 DEF Shape, TypeOK
<1> HIDE DEF fresh
<1>5. lane \in LaneObjects \cup {NoLane} /\ (lane = NoLane <=> scope = NoScope)
  BY <1>2, <1>3, <1>4
<1>6. CASE create
  <2>1. lane = fresh /\ lane # NoLane /\ mapped[scope] = NoLane
    BY <1>2, <1>3, <1>6
  <2> HIDE DEF lane, scope, create
  <2> QED BY <2>1, <1>1, <1>2, <1>5, <1>6 DEF scope
<1>7. CASE ~create
  <2>1. lane # NoLane => mapped[scope] = lane
    BY <1>7
  <2> HIDE DEF lane, create
  <2> QED BY <2>1, <1>1, <1>5, <1>7
<1> QED BY <1>6, <1>7

(* Accepting fills the last place of c.                                    *)
LEMMA AcceptPlaces ==
    ASSUME TypeOK, NEW c \in Conns, NEW job, accepting[c] = NoJob,
           pipe' = pipe, worker' = worker, accepting' = [accepting EXCEPT ![c] = job]
    PROVE  /\ \A d \in Conns : Places(d)' = Places(d)
           /\ JobAt(c, Len(pipe[c]) + 1) = NoJob
           /\ JobAt(c, Len(pipe[c]) + 1)' = job
           /\ \A d \in Conns : \A i \in Places(d) :
                d # c \/ i # Len(pipe[c]) + 1 => JobAt(d, i)' = JobAt(d, i)
<1>1. \A d \in Conns : Len(pipe[d]) \in Nat
  BY TypeFacts
<1>2. accepting' [c] = job /\ \A d \in Conns \ {c} : accepting'[d] = accepting[d]
  BY DEF TypeOK
<1> QED BY <1>1, <1>2 DEF Places, JobAt

(* Queueing leaves every command in its place; c's last one has a ticket.  *)
LEMMA EnqueuePlaces ==
    ASSUME TypeOK, NEW c \in Conns, Enqueue(c)
    PROVE  /\ Len(pipe[c])' = Len(pipe[c]) + 1
           /\ \A d \in Conns \ {c} : Places(d)' = Places(d)
           /\ JobAt(c, Len(pipe[c]) + 1) = accepting[c] /\ accepting[c] # NoJob
           /\ JobAt(c, Len(pipe[c]) + 1)' = NoJob
           /\ JobAt(c, Len(pipe[c]))' = Ticketed(accepting[c])
           /\ \A d \in Conns : \A i \in Places(d) :
                d # c \/ i # Len(pipe[c]) + 1 => JobAt(d, i)' = JobAt(d, i)
<1>1. \A d \in Conns : Len(pipe[d]) \in Nat /\ pipe[d] \in Seq(JobType \ {NoJob})
  BY TypeFacts
<1>2. /\ accepting'[c] = NoJob /\ \A d \in Conns \ {c} : accepting'[d] = accepting[d]
      /\ pipe'[c] = Append(pipe[c], Ticketed(accepting[c]))
      /\ \A d \in Conns \ {c} : pipe'[d] = pipe[d]
      /\ worker' = worker /\ accepting[c] # NoJob
  BY DEF TypeOK, Enqueue
<1> DEFINE job == Ticketed(accepting[c])
<1> HIDE DEF job
<1>3. /\ Len(Append(pipe[c], job)) = Len(pipe[c]) + 1
      /\ \A i \in 1 .. Len(pipe[c]) : Append(pipe[c], job)[i] = pipe[c][i]
      /\ Append(pipe[c], job)[Len(pipe[c]) + 1] = job
  BY <1>1, AppendProperties
<1>4. /\ Len(pipe'[c]) = Len(pipe[c]) + 1
      /\ \A i \in 1 .. Len(pipe[c]) : pipe'[c][i] = pipe[c][i]
      /\ pipe'[c][Len(pipe[c]) + 1] = job
  BY <1>2, <1>3 DEF job
<1>5. \A d \in Conns \ {c} : \A i \in Places(d) : JobAt(d, i)' = JobAt(d, i)
  BY <1>2 DEF Places, JobAt
<1>6. \A i \in 0 .. Len(pipe[c]) : JobAt(c, i)' = JobAt(c, i)
  BY <1>1, <1>2, <1>4 DEF Places, JobAt
<1>7. JobAt(c, Len(pipe[c]))' = job
  BY <1>1, <1>4 DEF JobAt
<1>8. JobAt(c, Len(pipe[c]) + 1)' = NoJob
  BY <1>1, <1>2, <1>4 DEF JobAt
<1>9. JobAt(c, Len(pipe[c]) + 1) = accepting[c]
  BY <1>1 DEF JobAt
<1> QED BY <1>1, <1>2, <1>4, <1>5, <1>6, <1>7, <1>8, <1>9, SMTT(30) DEF Places, job

LEMMA RefusePlaces ==
    ASSUME TypeOK, NEW c \in Conns, Refuse(c)
    PROVE  /\ pipe' = pipe /\ worker' = worker
           /\ \A d \in Conns : Places(d)' = Places(d)
           /\ JobAt(c, Len(pipe[c]) + 1) = accepting[c] /\ accepting[c] # NoJob
           /\ JobAt(c, Len(pipe[c]) + 1)' = NoJob
           /\ \A d \in Conns : \A i \in Places(d) :
                d # c \/ i # Len(pipe[c]) + 1 => JobAt(d, i)' = JobAt(d, i)
<1>1. \A d \in Conns : Len(pipe[d]) \in Nat
  BY TypeFacts
<1>2. /\ accepting'[c] = NoJob /\ \A d \in Conns \ {c} : accepting'[d] = accepting[d]
      /\ pipe' = pipe /\ worker' = worker /\ accepting[c] # NoJob
  BY DEF TypeOK, Refuse
<1> QED BY <1>1, <1>2 DEF Places, JobAt

(* The worker takes the first command of the queue: all move up.           *)
LEMMA DequeuePlaces ==
    ASSUME TypeOK, NEW c \in Conns, Dequeue(c)
    PROVE  /\ Len(pipe[c]) > 0 /\ Len(pipe[c])' = Len(pipe[c]) - 1
           /\ JobAt(c, 0) = NoJob
           /\ \A d \in Conns \ {c} :
                worker'[d] = worker[d] /\ Places(d)' = Places(d)
                    /\ \A i \in Places(d) : JobAt(d, i)' = JobAt(d, i)
           /\ Places(c)' = 0 .. Len(pipe[c])
           /\ \A i \in 0 .. Len(pipe[c]) : JobAt(c, i)' = JobAt(c, i + 1)
           /\ worker'[c] = [pc |-> IF Head(pipe[c]).lane = NoLane THEN "epoch" ELSE "barrier",
                            job |-> Head(pipe[c]), outcome |-> "none"]
           /\ Head(pipe[c]) = JobAt(c, 1)
<1>1. \A d \in Conns : Len(pipe[d]) \in Nat /\ pipe[d] \in Seq(JobType \ {NoJob})
  BY TypeFacts
<1>2. /\ accepting' = accepting /\ pipe[c] # <<>> /\ At(c, "idle")
      /\ pipe'[c] = Tail(pipe[c]) /\ \A d \in Conns \ {c} : pipe'[d] = pipe[d]
      /\ worker'[c] = [pc |-> IF Head(pipe[c]).lane = NoLane THEN "epoch" ELSE "barrier",
                       job |-> Head(pipe[c]), outcome |-> "none"]
      /\ \A d \in Conns \ {c} : worker'[d] = worker[d]
  BY DEF TypeOK, Dequeue
<1>3. /\ Len(pipe[c]) > 0 /\ Len(Tail(pipe[c])) = Len(pipe[c]) - 1
      /\ \A i \in 1 .. Len(pipe[c]) - 1 : Tail(pipe[c])[i] = pipe[c][i + 1]
      /\ Head(pipe[c]) = pipe[c][1]
  BY <1>1, <1>2, HeadTailProperties, EmptySeq
<1>4. JobAt(c, 0) = NoJob
  BY <1>2 DEF JobAt, TypeOK
<1>5. \A d \in Conns \ {c} : Places(d)' = Places(d) /\ \A i \in Places(d) : JobAt(d, i)' = JobAt(d, i)
  BY <1>2 DEF Places, JobAt
<1>6. Len(pipe[c])' = Len(pipe[c]) - 1 /\ Places(c)' = 0 .. Len(pipe[c])
  BY <1>1, <1>2, <1>3 DEF Places
<1>7. ASSUME NEW i \in 0 .. Len(pipe[c])
      PROVE  JobAt(c, i)' = JobAt(c, i + 1)
  <2>1. CASE i = 0
    BY <2>1, <1>1, <1>2, <1>3 DEF JobAt
  <2>2. CASE i \in 1 .. Len(pipe[c]) - 1
    BY <2>2, <1>1, <1>2, <1>3, <1>6 DEF JobAt
  <2>3. CASE i = Len(pipe[c])
    BY <2>3, <1>1, <1>2, <1>3, <1>6 DEF JobAt
  <2> QED BY <2>1, <2>2, <2>3, <1>1
<1>8. Head(pipe[c]) = JobAt(c, 1)
  BY <1>1, <1>3 DEF JobAt
<1> QED BY <1>2, <1>3, <1>4, <1>5, <1>6, <1>7, <1>8

LEMMA EndPlaces ==
    ASSUME Shape, NEW c \in Conns, Ends(c)
    PROVE  /\ \A d \in Conns : Places(d)' = Places(d)
           /\ \A d \in Conns \ {c} : worker'[d] = worker[d]
           /\ worker'[c] = Idle /\ JobAt(c, 0)' = NoJob
           /\ \A d \in Conns : \A i \in Places(d) : d # c \/ i # 0 => JobAt(d, i)' = JobAt(d, i)
<1>1. /\ pipe' = pipe /\ accepting' = accepting
      /\ worker'[c] = Idle /\ \A d \in Conns \ {c} : worker'[d] = worker[d]
  BY EndEffect DEF Shape, TypeOK
<1> QED BY <1>1 DEF Places, JobAt, Idle

-----------------------------------------------------------------------------
(* A command is where it was or, when its connection's worker took one     *)
(* from the queue, one place nearer; only accepting brings a new one.      *)
Shift(d) == IF Len(pipe'[d]) < Len(pipe[d]) THEN 1 ELSE 0
SameButTicket(job, old) ==
    /\ job.cmd = old.cmd /\ job.epoch = old.epoch /\ job.mem = old.mem /\ job.lane = old.lane
Arrives(d, i) ==
    \E m \in Commands : \E lane \in LaneObjects \cup {NoLane} :
        /\ Accept(d, m) /\ TakenIn(m)
        /\ i = Len(pipe[d]) + 1 /\ Shift(d) = 0
        /\ JobAt(d, i)' = Stamped(m, lane)
        /\ lane = NoLane <=> ScopeOf[m] = NoScope

LEMMA TicketedIsSame ==
    ASSUME NEW job \in JobType, job # NoJob,
           job.lane # NoLane => lanes[job.lane] \in LaneType
    PROVE  /\ SameButTicket(Ticketed(job), job)
           /\ Ticketed(job) \in JobType /\ Ticketed(job) # NoJob
<1>1. /\ job \in [cmd : Commands, epoch : Nat, mem : MemType,
                   lane : LaneObjects \cup {NoLane}, ticket : Nat]
      /\ job.cmd \in Commands /\ "none" \notin Commands
  BY CommandsAssumption DEF JobType
<1>2. CASE job.lane = NoLane
  BY <1>2 DEF Ticketed, SameButTicket
<1>3. CASE job.lane # NoLane
  <2>1. lanes[job.lane].next \in Nat
    BY <1>3 DEF LaneType
  <2> DEFINE r == [job EXCEPT !.ticket = lanes[job.lane].next]
  <2>2. /\ r \in [cmd : Commands, epoch : Nat, mem : MemType,
                  lane : LaneObjects \cup {NoLane}, ticket : Nat]
        /\ r.cmd = job.cmd /\ r.epoch = job.epoch /\ r.mem = job.mem /\ r.lane = job.lane
    BY <1>1, <2>1
  <2>3. Ticketed(job) = r
    BY <1>3 DEF Ticketed
  <2>4. NoJob.cmd = "none"
    BY DEF NoJob
  <2> HIDE DEF r
  <2> QED BY <1>1, <2>2, <2>3, <2>4 DEF JobType, SameButTicket
<1> QED BY <1>2, <1>3

LEMMA JobsComeFrom ==
    ASSUME Shape, [Next]_vars, NEW d \in Conns, NEW i, i \in Places(d)', JobAt(d, i)' # NoJob
    PROVE  \/ /\ i + Shift(d) \in Places(d) /\ JobAt(d, i + Shift(d)) # NoJob
              /\ SameButTicket(JobAt(d, i)', JobAt(d, i + Shift(d)))
           \/ Arrives(d, i)
<1> DEFINE Goal == \/ /\ i + Shift(d) \in Places(d) /\ JobAt(d, i + Shift(d)) # NoJob
                      /\ SameButTicket(JobAt(d, i)', JobAt(d, i + Shift(d)))
                   \/ Arrives(d, i)
<1>1. TypeOK /\ Len(pipe[d]) \in Nat
  BY TypeFacts DEF Shape
<1>2. ASSUME pipe'[d] = pipe[d], i \in Places(d), JobAt(d, i)' = JobAt(d, i)
      PROVE  Goal
  <2>1. Shift(d) = 0 /\ i + 0 = i
    BY <1>1, <1>2 DEF Shift, Places
  <2> QED BY <2>1, <1>2 DEF SameButTicket
<1>3. ASSUME NEW c \in Conns, NEW m \in Commands, Accept(c, m), TakenIn(m)
      PROVE  Goal
  <2>1. PICK lane \in LaneObjects \cup {NoLane} :
            /\ accepting' = [accepting EXCEPT ![c] = Stamped(m, lane)]
            /\ lane = NoLane <=> ScopeOf[m] = NoScope
            /\ accepting[c] = NoJob /\ pipe' = pipe /\ worker' = worker
    BY <1>3, AcceptEffect
  <2>2. /\ Places(d)' = Places(d)
        /\ JobAt(c, Len(pipe[c]) + 1)' = Stamped(m, lane)
        /\ d # c \/ i # Len(pipe[c]) + 1 => JobAt(d, i)' = JobAt(d, i)
    BY <1>1, <2>1, AcceptPlaces
  <2>3. CASE d # c \/ i # Len(pipe[c]) + 1
    BY <2>1, <2>2, <2>3, <1>2
  <2>4. CASE d = c /\ i = Len(pipe[c]) + 1
    <3>1. Shift(d) = 0 /\ pipe' = pipe
      BY <1>1, <2>1 DEF Shift
    <3>2. JobAt(d, i)' = Stamped(m, lane)
      BY <2>2, <2>4, <3>1
    <3> QED BY <3>1, <3>2, <2>1, <2>4, <1>3 DEF Arrives
  <2> QED BY <2>3, <2>4
<1>4. ASSUME NEW c \in Conns, Enqueue(c)
      PROVE  Goal
  <2>1. /\ Len(pipe[c])' = Len(pipe[c]) + 1 /\ Len(pipe[c]) \in Nat
        /\ \A e \in Conns \ {c} : Places(e)' = Places(e)
        /\ JobAt(c, Len(pipe[c]) + 1) = accepting[c] /\ accepting[c] # NoJob
        /\ JobAt(c, Len(pipe[c]) + 1)' = NoJob
        /\ JobAt(c, Len(pipe[c]))' = Ticketed(accepting[c])
        /\ \A e \in Conns : \A j \in Places(e) :
             e # c \/ j # Len(pipe[c]) + 1 => JobAt(e, j)' = JobAt(e, j)
    BY <1>1, <1>4, EnqueuePlaces, TypeFacts
  <2>2. pipe'[d] = pipe[d] \/ d = c
    BY <1>1, <1>4 DEF Enqueue, TypeOK
  <2>3. CASE d # c
    BY <2>1, <2>2, <2>3, <1>2
  <2>4. CASE d = c
    <3>1. Shift(d) = 0 /\ i \in 0 .. Len(pipe[c]) + 2
      BY <2>1, <2>4 DEF Shift, Places
    <3>2. i # Len(pipe[c]) + 2
      BY <2>1, <2>4
    <3>3. CASE i \in 0 .. Len(pipe[c])
      <4>1. i \in Places(d) /\ i # Len(pipe[c]) + 1
        BY <2>1, <2>4, <3>3 DEF Places
      <4>2. JobAt(d, i)' = JobAt(d, i)
        BY <4>1, <2>1, <2>4
      <4> QED BY <4>1, <4>2, <3>1, <2>1 DEF SameButTicket
    <3>4. CASE i = Len(pipe[c]) + 1
      <4>1. JobAt(d, i)' = Ticketed(accepting[c]) /\ JobAt(d, i + 0) = accepting[c]
        BY <2>1, <2>4, <3>4
      <4>2. SameButTicket(Ticketed(accepting[c]), accepting[c])
        <5>1. accepting[c] \in JobType
          BY <1>1 DEF TypeOK
        <5>2. accepting[c].lane # NoLane => lanes[accepting[c].lane] \in LaneType
          BY <1>1, <2>1, <5>1, JobFacts DEF TypeOK
        <5> QED BY <5>1, <5>2, <2>1, TicketedIsSame
      <4>3. i + 0 \in Places(d)
        BY <2>1, <2>4, <3>4 DEF Places
      <4> QED BY <4>1, <4>2, <4>3, <3>1, <2>1
    <3> QED BY <2>1, <3>1, <3>2, <3>3, <3>4
  <2> QED BY <2>3, <2>4
<1>5. ASSUME NEW c \in Conns, Refuse(c)
      PROVE  Goal
  <2>1. /\ pipe' = pipe /\ Places(d)' = Places(d)
        /\ JobAt(c, Len(pipe[c]) + 1)' = NoJob
        /\ d # c \/ i # Len(pipe[c]) + 1 => JobAt(d, i)' = JobAt(d, i)
    BY <1>1, <1>5, RefusePlaces
  <2>2. d # c \/ i # Len(pipe[c]) + 1
    BY <2>1
  <2> QED BY <2>1, <2>2, <1>2
<1>6. ASSUME NEW c \in Conns, Dequeue(c)
      PROVE  Goal
  <2>1. /\ Len(pipe[c]) > 0 /\ Len(pipe[c])' = Len(pipe[c]) - 1 /\ Len(pipe[c]) \in Nat
        /\ d # c => Places(d)' = Places(d) /\ \A j \in Places(d) : JobAt(d, j)' = JobAt(d, j)
        /\ Places(c)' = 0 .. Len(pipe[c])
        /\ \A j \in 0 .. Len(pipe[c]) : JobAt(c, j)' = JobAt(c, j + 1)
    BY <1>1, <1>6, DequeuePlaces, TypeFacts
  <2>2. pipe'[d] = pipe[d] \/ d = c
    BY <1>1, <1>6 DEF Dequeue, TypeOK
  <2>3. CASE d # c
    BY <2>1, <2>2, <2>3, <1>2
  <2>4. CASE d = c
    <3>1. Shift(d) = 1 /\ i \in 0 .. Len(pipe[c]) /\ JobAt(d, i)' = JobAt(d, i + 1)
      BY <2>1, <2>4 DEF Shift
    <3>2. i + 1 \in Places(d)
      BY <2>1, <2>4, <3>1 DEF Places
    <3> QED BY <3>1, <3>2 DEF SameButTicket
  <2> QED BY <2>3, <2>4
<1>7. ASSUME NEW c \in Conns, Moves(c)
      PROVE  Goal
  <2>1. pipe' = pipe /\ accepting' = accepting /\ worker'[d].job = worker[d].job
    BY <1>7, MoveEffect
  <2>2. Places(d)' = Places(d) /\ JobAt(d, i)' = JobAt(d, i)
    BY <2>1, JobsKept
  <2> QED BY <2>1, <2>2, <1>2
<1>8. ASSUME NEW c \in Conns, Ends(c)
      PROVE  Goal
  <2>1. /\ pipe' = pipe /\ Places(d)' = Places(d) /\ JobAt(c, 0)' = NoJob
        /\ d # c \/ i # 0 => JobAt(d, i)' = JobAt(d, i)
    BY <1>8, EndPlaces, EndEffect
  <2>2. d # c \/ i # 0
    BY <2>1
  <2> QED BY <2>1, <2>2, <1>2
<1>9. ASSUME Aside
      PROVE  Goal
  <2>1. pipe' = pipe /\ accepting' = accepting /\ worker' = worker
    BY <1>9 DEF Aside, Accept, CoreAccepts, MaintenanceStep, vars
  <2>2. Places(d)' = Places(d) /\ JobAt(d, i)' = JobAt(d, i)
    BY <2>1, JobsKept
  <2> QED BY <2>1, <2>2, <1>2
<1> QED BY <1>3, <1>4, <1>5, <1>6, <1>7, <1>8, <1>9, StepsSorted

(* What happens to the worker of a connection.                             *)
LEMMA WorkerChanges ==
    ASSUME Shape, [Next]_vars, NEW d \in Conns
    PROVE  worker'[d] = worker[d] \/ Moves(d) \/ Ends(d) \/ Dequeue(d)
<1>1. ASSUME NEW c \in Conns, Moves(c)
      PROVE  d = c \/ worker'[d] = worker[d]
  BY <1>1, MoveEffect
<1>2. ASSUME NEW c \in Conns, Ends(c)
      PROVE  d = c \/ worker'[d] = worker[d]
  BY <1>2, EndPlaces
<1>3. ASSUME NEW c \in Conns, Dequeue(c)
      PROVE  d = c \/ worker'[d] = worker[d]
  BY <1>3, DequeuePlaces DEF Shape
<1>4. ASSUME NEW c \in Conns, (\E m \in Commands : Accept(c, m)) \/ Enqueue(c) \/ Refuse(c)
      PROVE  worker' = worker
  BY <1>4 DEF Accept, Enqueue, Refuse
<1>5. ASSUME Aside
      PROVE  worker' = worker
  BY <1>5 DEF Aside, Accept, CoreAccepts, MaintenanceStep, vars
<1> QED BY <1>1, <1>2, <1>3, <1>4, <1>5, StepsSorted

-----------------------------------------------------------------------------
LEMMA NoJobTyped ==
    NoJob \in JobType /\ NoJob.lane = NoLane /\ FirstMem \in MemType /\ Idle \in WorkerType
BY DEF NoJob, JobType, FirstMem, MemType, Idle, WorkerType

LEMMA InitShape == Init => Shape
<1> SUFFICES ASSUME Init
             PROVE  Shape
  OBVIOUS
<1>1. \A c \in Conns : pipe[c] = <<>> /\ worker[c] = Idle /\ accepting[c] = NoJob
  BY DEF Init
<1>2. TypeOK
  <2>1. /\ accepting \in [Conns -> JobType] /\ worker \in [Conns -> WorkerType]
        /\ \A c \in Conns : At(c, "idle") <=> worker[c].job = NoJob
    BY NoJobTyped DEF Init, At, Idle
  <2>2. /\ pipe \in [Conns -> Seq(JobType \ {NoJob})]
        /\ \A c \in Conns : Len(pipe[c]) <= QueueCapacity
    BY CommandsAssumption, EmptySeq DEF Init
  <2>3. NewLane \in LaneType
    BY DEF NewLane, LaneType
  <2> QED BY <2>1, <2>2, <2>3, NoJobTyped, CommandsAssumption DEF Init, TypeOK
<1>3. \A c \in Conns : \A i \in Places(c) : JobAt(c, i) = NoJob
  BY <1>1, EmptySeq DEF Places, JobAt, Idle
<1>4. ScopesFit
  BY <1>1, <1>3 DEF ScopesFit, Scoped, WorkerFits, At, Idle
<1> QED BY <1>2, <1>4 DEF Shape

-----------------------------------------------------------------------------
(* References to a lane object can be counted.                             *)
LEMMA HoldersFinite ==
    ASSUME TypeOK, NEW o
    PROVE  IsFiniteSet(Holders(o))
<1> DEFINE N == 1 .. QueueCapacity
           S == Conns \X N
           T == {<<"queued", x[1], x[2]>> : x \in S}
           f == [x \in S |-> <<"queued", x[1], x[2]>>]
           A == {<<"accepting", c>> : c \in {c \in Conns : accepting[c].lane = o}}
           Q == UNION {{<<"queued", c, i>> : i \in {i \in DOMAIN pipe[c] : pipe[c][i].lane = o}} :
                       c \in Conns}
           E == {<<"executing", c>> : c \in {c \in Conns : worker[c].job.lane = o}}
           M == {<<"mapped", k>> : k \in {k \in Scopes : mapped[k] = o}}
<1>1. IsFiniteSet(Conns) /\ IsFiniteSet(Scopes) /\ QueueCapacity \in Nat
  BY CommandsAssumption
<1>2. IsFiniteSet({"accepting"}) /\ IsFiniteSet({"executing"}) /\ IsFiniteSet({"mapped"})
  BY FS_Singleton
<1>3. IsFiniteSet(A)
  <2>1. A \subseteq {"accepting"} \X Conns
    OBVIOUS
  <2> HIDE DEF A
  <2> QED BY <2>1, <1>1, <1>2, FS_Product, FS_Subset
<1>4. IsFiniteSet(E)
  <2>1. E \subseteq {"executing"} \X Conns
    OBVIOUS
  <2> HIDE DEF E
  <2> QED BY <2>1, <1>1, <1>2, FS_Product, FS_Subset
<1>5. IsFiniteSet(M)
  <2>1. M \subseteq {"mapped"} \X Scopes
    OBVIOUS
  <2> HIDE DEF M
  <2> QED BY <2>1, <1>1, <1>2, FS_Product, FS_Subset
<1>6. IsFiniteSet(T)
  <2>1. IsFiniteSet(S)
    <3>1. IsFiniteSet(N)
      BY <1>1, FS_Interval
    <3> HIDE DEF N
    <3> QED BY <3>1, <1>1, FS_Product
  <2>2. f \in Surjection(S, T)
    BY DEF Surjection
  <2> HIDE DEF f, S, T
  <2> QED BY <2>1, <2>2, FS_Surjection
<1>7. Q \subseteq T
  <2> SUFFICES ASSUME NEW c \in Conns, NEW i \in DOMAIN pipe[c]
               PROVE  <<"queued", c, i>> \in T
    OBVIOUS
  <2>1. Len(pipe[c]) <= QueueCapacity /\ pipe[c] \in Seq(JobType \ {NoJob})
    BY DEF TypeOK
  <2>2. DOMAIN pipe[c] = 1 .. Len(pipe[c]) /\ Len(pipe[c]) \in Nat
    BY <2>1, LenProperties
  <2>3. i \in N
    BY <2>1, <2>2, <1>1
  <2>4. <<c, i>> \in S /\ <<c, i>>[1] = c /\ <<c, i>>[2] = i
    BY <2>3
  <2> HIDE DEF S
  <2> QED BY <2>4
<1>8. IsFiniteSet(Q)
  <2> HIDE DEF Q, T
  <2> QED BY <1>6, <1>7, FS_Subset
<1>9. Holders(o) = A \cup Q \cup E \cup M
  BY DEF Holders
<1> HIDE DEF A, Q, E, M
<1> QED BY <1>3, <1>4, <1>5, <1>8, <1>9, FS_Union

(* Whatever is at a place holds its lane.                                  *)
LEMMA PlaceHolds ==
    ASSUME TypeOK, NEW c \in Conns, NEW i \in Places(c)
    PROVE  \E h \in Holders(JobAt(c, i).lane) :
             h = IF i = 0 THEN <<"executing", c>>
                 ELSE IF i <= Len(pipe[c]) THEN <<"queued", c, i>> ELSE <<"accepting", c>>
<1>1. Len(pipe[c]) \in Nat /\ DOMAIN pipe[c] = 1 .. Len(pipe[c])
  BY TypeFacts, LenProperties DEF TypeOK
<1>2. CASE i = 0
  <2>1. JobAt(c, i) = worker[c].job
    BY <1>2 DEF JobAt
  <2>2. <<"executing", c>> \in Holders(worker[c].job.lane)
    BY DEF Holders
  <2> QED BY <2>1, <2>2, <1>2
<1>3. CASE i # 0 /\ i <= Len(pipe[c])
  <2>1. i \in DOMAIN pipe[c] /\ JobAt(c, i) = pipe[c][i]
    BY <1>1, <1>3 DEF JobAt, Places
  <2> DEFINE o == pipe[c][i].lane
             Q(e) == {<<"queued", e, l>> : l \in {l \in DOMAIN pipe[e] : pipe[e][l].lane = o}}
  <2>2. <<"queued", c, i>> \in Q(c)
    BY <2>1
  <2> HIDE DEF Q
  <2>3. <<"queued", c, i>> \in UNION {Q(e) : e \in Conns}
    BY <2>2
  <2>4. <<"queued", c, i>> \in Holders(o)
    BY <2>3 DEF Holders, Q
  <2> QED BY <2>1, <2>4, <1>3
<1>4. CASE ~(i <= Len(pipe[c]))
  <2>1. i # 0 /\ JobAt(c, i) = accepting[c]
    BY <1>1, <1>4 DEF JobAt, Places
  <2> QED BY <2>1, <1>4 DEF Holders
<1> QED BY <1>1, <1>2, <1>3, <1>4 DEF Places

(* A lane object that nobody refers to is no command's lane.               *)
LEMMA UncountedIsUnused ==
    ASSUME TypeOK, NEW o, StrongCount(o) = 0
    PROVE  /\ \A c \in Conns : \A i \in Places(c) : JobAt(c, i).lane # o
           /\ \A k \in Scopes : mapped[k] # o
<1>1. Holders(o) = {}
  BY HoldersFinite, FS_EmptySet DEF StrongCount
<1>2. \A c \in Conns : \A i \in Places(c) : JobAt(c, i).lane # o
  BY <1>1, PlaceHolds
<1>3. \A k \in Scopes : mapped[k] # o
  BY <1>1 DEF Holders
<1> QED BY <1>2, <1>3

(* Of three elements of a set two are one if it has two.                   *)
LEMMA TwoOnly ==
    ASSUME NEW S, IsFiniteSet(S), Cardinality(S) = 2, NEW a \in S, NEW b \in S, a # b, NEW x \in S
    PROVE  x = a \/ x = b
<1>1. IsFiniteSet(S \ {a}) /\ Cardinality(S \ {a}) = 1
  BY FS_RemoveElement
<1>2. PICK y : S \ {a} = {y}
  BY <1>1, FS_Singleton
<1> QED BY <1>2

(* A lane that a command at place i of c reclaims is no other command's.   *)
LEMMA ReclaimedIsUnused ==
    ASSUME TypeOK, NEW c \in Conns, NEW i \in Places(c), NEW ls,
           i = 0 \/ i = Len(pipe[c]) + 1,
           JobAt(c, i) # NoJob, JobAt(c, i).lane # NoLane, Scoped(JobAt(c, i)),
           Reclaimable(JobAt(c, i), ls),
           NEW d \in Conns, NEW j \in Places(d), JobAt(d, j).lane = JobAt(c, i).lane
    PROVE  d = c /\ j = i
<1> DEFINE job == JobAt(c, i)
           o == job.lane
           k == ScopeOf[job.cmd]
           hold(e, l) == IF l = 0 THEN <<"executing", e>>
                         ELSE IF l <= Len(pipe[e]) THEN <<"queued", e, l>> ELSE <<"accepting", e>>
<1>1. job \in JobType /\ i \in Nat /\ j \in Nat /\ Len(pipe[c]) \in Nat /\ Len(pipe[d]) \in Nat
  BY PlacesTyped, TypeFacts
<1>2. k \in Scopes /\ mapped[k] = o /\ Cardinality(Holders(o)) = 2
  <2>1. job.cmd \in Commands
    BY <1>1, JobFacts
  <2>2. k # NoScope
    BY DEF Scoped
  <2> QED BY <2>1, <2>2, CommandsAssumption DEF Reclaimable, StrongCount
<1>3. <<"mapped", k>> \in Holders(o)
  BY <1>2 DEF Holders
<1>4. hold(c, i) \in Holders(o) /\ hold(d, j) \in Holders(o)
  BY PlaceHolds
<1>5. hold(c, i) # <<"mapped", k>> /\ hold(d, j) # <<"mapped", k>>
  OBVIOUS
<1> HIDE DEF hold, o, k
<1>6. hold(d, j) = hold(c, i)
  BY <1>2, <1>3, <1>4, <1>5, HoldersFinite, TwoOnly
<1>7. hold(c, i) \in {<<"executing", c>>, <<"accepting", c>>}
  BY <1>1 DEF hold
<1>8. CASE i = 0
  <2>1. hold(c, i) = <<"executing", c>>
    BY <1>8 DEF hold
  <2> QED BY <2>1, <1>6, <1>8 DEF hold
<1>9. CASE i = Len(pipe[c]) + 1
  <2>1. hold(c, i) = <<"accepting", c>>
    BY <1>1, <1>9 DEF hold
  <2>2. d = c /\ j # 0 /\ ~(j <= Len(pipe[d]))
    BY <2>1, <1>6 DEF hold
  <2> QED BY <2>2, <1>1, <1>9 DEF Places
<1> QED BY <1>8, <1>9

-----------------------------------------------------------------------------
(* The commands in lanes are the same before and after a step.             *)
InPlace(d) ==
    /\ \A i \in Places(d)' : InLane(d, i)' =>
         /\ i + Shift(d) \in Places(d) /\ InLane(d, i + Shift(d))
         /\ JobAt(d, i)'.lane = JobAt(d, i + Shift(d)).lane
         /\ JobAt(d, i)'.ticket = JobAt(d, i + Shift(d)).ticket
    /\ \A k \in Places(d) : InLane(d, k) =>
         \E i \in Places(d)' :
             /\ k = i + Shift(d) /\ InLane(d, i)'
             /\ JobAt(d, i)'.lane = JobAt(d, k).lane
             /\ JobAt(d, i)'.ticket = JobAt(d, k).ticket

LEMMA LaneOfPlace ==
    ASSUME TypeOK, NEW c \in Conns, NEW i \in Places(c), JobAt(c, i).lane # NoLane
    PROVE  /\ JobAt(c, i) # NoJob /\ JobAt(c, i).lane \in LaneObjects
           /\ JobAt(c, i).ticket \in Nat /\ JobAt(c, i).cmd \in Commands
BY PlacesTyped, JobFacts, NoJobTyped

(* If the commands in lanes are the same, and so is what is out of each    *)
(* lane, the accounts stay right.                                          *)
LEMMA SameCommandsInLanes ==
    ASSUME TypeOK, LanesInv,
           \A d \in Conns : InPlace(d),
           \A o \in LaneObjects : WellKept(lanes'[o]) /\ TicketsOut(lanes'[o]) = TicketsOut(lanes[o]),
           \A d \in Conns : Inside(d)' =>
               /\ lanes'[worker'[d].job.lane].active
               /\ lanes'[worker'[d].job.lane].serving = worker'[d].job.ticket
    PROVE  LanesInv'
<1>1. \A d \in Conns : Shift(d) \in {0, 1} /\ \A i \in Places(d)' : i \in Nat
  BY DEF Shift, Places
<1>2. ASSUME NEW c \in Conns, NEW i \in Places(c)', InLane(c, i)'
      PROVE  JobAt(c, i)'.ticket \in TicketsOut(lanes'[JobAt(c, i)'.lane])
  <2>1. /\ i + Shift(c) \in Places(c) /\ InLane(c, i + Shift(c))
        /\ JobAt(c, i)'.lane = JobAt(c, i + Shift(c)).lane
        /\ JobAt(c, i)'.ticket = JobAt(c, i + Shift(c)).ticket
    BY <1>2 DEF InPlace
  <2>2. JobAt(c, i + Shift(c)).lane \in LaneObjects
    BY <2>1, LaneOfPlace DEF InLane
  <2> QED BY <2>1, <2>2 DEF LanesInv
<1>3. ASSUME NEW o \in LaneObjects, NEW t \in TicketsOut(lanes'[o])
      PROVE  \E c \in Conns : \E i \in Places(c)' :
                 InLane(c, i)' /\ JobAt(c, i)'.lane = o /\ JobAt(c, i)'.ticket = t
  <2>1. t \in TicketsOut(lanes[o])
    OBVIOUS
  <2>2. PICK c \in Conns : \E k \in Places(c) :
            InLane(c, k) /\ JobAt(c, k).lane = o /\ JobAt(c, k).ticket = t
    BY <2>1 DEF LanesInv
  <2> QED BY <2>2 DEF InPlace
<1>4. ASSUME NEW c \in Conns, NEW d \in Conns, NEW i \in Places(c)', NEW j \in Places(d)',
             InLane(c, i)', InLane(d, j)',
             JobAt(c, i)'.lane = JobAt(d, j)'.lane, JobAt(c, i)'.ticket = JobAt(d, j)'.ticket
      PROVE  c = d /\ i = j
  <2>1. /\ i + Shift(c) \in Places(c) /\ InLane(c, i + Shift(c))
        /\ JobAt(c, i)'.lane = JobAt(c, i + Shift(c)).lane
        /\ JobAt(c, i)'.ticket = JobAt(c, i + Shift(c)).ticket
    BY <1>4 DEF InPlace
  <2>2. /\ j + Shift(d) \in Places(d) /\ InLane(d, j + Shift(d))
        /\ JobAt(d, j)'.lane = JobAt(d, j + Shift(d)).lane
        /\ JobAt(d, j)'.ticket = JobAt(d, j + Shift(d)).ticket
    BY <1>4 DEF InPlace
  <2>3. c = d /\ i + Shift(c) = j + Shift(d)
    BY <2>1, <2>2, <1>4 DEF LanesInv
  <2> QED BY <2>3, <1>1
<1> QED BY <1>2, <1>3, <1>4 DEF LanesInv

(* Steps after which every connection has its commands where they were.    *)
LEMMA InPlaceIfKept ==
    ASSUME TypeOK, NEW d \in Conns, Shift(d) = 0, Places(d)' = Places(d),
           Len(pipe[d])' = Len(pipe[d]),
           \A i \in Places(d) :
               JobAt(d, i)' = JobAt(d, i) \/ (~InLane(d, i) /\ ~InLane(d, i)'),
           worker[d].pc \in {"drop", "release"} <=> worker'[d].pc \in {"drop", "release"}
    PROVE  InPlace(d)
<1>1. \A i \in Places(d) : i + 0 = i
  BY DEF Places
<1>2. \A i \in Places(d) : JobAt(d, i)' = JobAt(d, i) => (InLane(d, i)' <=> InLane(d, i))
  BY DEF InLane
<1> QED BY <1>1, <1>2 DEF InPlace

LEMMA InitLanes == Init => LanesInv
<1> SUFFICES ASSUME Init
             PROVE  LanesInv
  OBVIOUS
<1>1. \A c \in Conns : pipe[c] = <<>> /\ worker[c] = Idle /\ accepting[c] = NoJob
  BY DEF Init
<1>2. \A c \in Conns : \A i \in Places(c) : JobAt(c, i) = NoJob
  BY <1>1, EmptySeq DEF Places, JobAt, Idle
<1>3. \A c \in Conns : \A i \in Places(c) : ~InLane(c, i)
  BY <1>2, NoJobTyped DEF InLane
<1>4. \A c \in Conns : ~Inside(c)
  BY <1>1 DEF Inside, Idle
<1>5. \A o \in LaneObjects : WellKept(lanes[o]) /\ TicketsOut(lanes[o]) = {}
  BY NewLaneIsEmpty DEF Init
<1> QED BY <1>3, <1>4, <1>5 DEF LanesInv

LEMMA AcceptKeepsLanes ==
    ASSUME Shape, LanesInv, NEW c \in Conns, NEW m \in Commands, Accept(c, m), TakenIn(m)
    PROVE  LanesInv'
<1>1. TypeOK /\ pipe' = pipe /\ worker' = worker
  BY AcceptEffect DEF Shape
<1>2. PICK lane \in LaneObjects \cup {NoLane} :
          /\ accepting' = [accepting EXCEPT ![c] = Stamped(m, lane)] /\ accepting[c] = NoJob
          /\ \/ lanes' = lanes
             \/ lane # NoLane /\ StrongCount(lane) = 0 /\ lanes' = [lanes EXCEPT ![lane] = NewLane]
  BY AcceptEffect
<1>3. \A d \in Conns : InPlace(d)
  <2> SUFFICES ASSUME NEW d \in Conns
               PROVE  InPlace(d)
    OBVIOUS
  <2>1. /\ Places(d)' = Places(d) /\ Len(pipe[d]) \in Nat
        /\ \A i \in Places(d) : d # c \/ i # Len(pipe[c]) + 1 => JobAt(d, i)' = JobAt(d, i)
    BY <1>1, <1>2, AcceptPlaces, TypeFacts
  <2>2. \A i \in Places(d) : i = Len(pipe[d]) + 1 => ~InLane(d, i) /\ ~InLane(d, i)'
    BY <2>1, <1>1 DEF InLane
  <2>3. Shift(d) = 0 /\ Len(pipe[d])' = Len(pipe[d])
    BY <1>1, <2>1 DEF Shift
  <2>4. \A i \in Places(d) : JobAt(d, i)' = JobAt(d, i) \/ (~InLane(d, i) /\ ~InLane(d, i)')
    BY <2>1, <2>2
  <2> QED BY <1>1, <2>1, <2>3, <2>4, InPlaceIfKept
<1>4. ASSUME lane \in LaneObjects, StrongCount(lane) = 0
      PROVE  /\ TicketsOut(lanes[lane]) = {}
             /\ \A d \in Conns : worker[d].job.lane # lane
  <2>1. \A d \in Conns : \A i \in Places(d) : JobAt(d, i).lane # lane
    BY <1>1, <1>4, UncountedIsUnused
  <2>2. TicketsOut(lanes[lane]) = {}
    BY <2>1, <1>4 DEF LanesInv
  <2>3. \A d \in Conns : 0 \in Places(d) /\ JobAt(d, 0) = worker[d].job
    BY <1>1, TypeFacts DEF Places, JobAt
  <2> QED BY <2>1, <2>2, <2>3
<1>5. \A o \in LaneObjects : WellKept(lanes'[o]) /\ TicketsOut(lanes'[o]) = TicketsOut(lanes[o])
  <2> SUFFICES ASSUME NEW o \in LaneObjects
               PROVE  WellKept(lanes'[o]) /\ TicketsOut(lanes'[o]) = TicketsOut(lanes[o])
    OBVIOUS
  <2>1. WellKept(lanes[o]) /\ lanes \in [LaneObjects -> LaneType]
    BY <1>1 DEF LanesInv, TypeOK
  <2>2. CASE lanes'[o] = lanes[o]
    BY <2>1, <2>2
  <2>3. CASE lanes'[o] # lanes[o]
    <3>1. o = lane /\ StrongCount(lane) = 0 /\ lanes'[o] = NewLane
      BY <2>1, <2>3, <1>2
    <3> QED BY <3>1, <1>4, NewLaneIsEmpty
  <2> QED BY <2>2, <2>3
<1>6. ASSUME NEW d \in Conns, Inside(d)'
      PROVE  /\ lanes'[worker'[d].job.lane].active
             /\ lanes'[worker'[d].job.lane].serving = worker'[d].job.ticket
  <2>1. Inside(d)
    BY <1>1, <1>6 DEF Inside
  <2>2. worker[d].job.lane \in LaneObjects
    BY <2>1, <1>1, TypeFacts, JobFacts, NoJobTyped DEF Inside
  <2>3. lanes'[worker[d].job.lane] = lanes[worker[d].job.lane]
    BY <2>2, <1>1, <1>2, <1>4 DEF TypeOK
  <2> QED BY <2>1, <2>3, <1>1 DEF LanesInv
<1> QED BY <1>1, <1>3, <1>5, <1>6, SameCommandsInLanes

LEMMA RefuseKeepsLanes ==
    ASSUME Shape, LanesInv, NEW c \in Conns, Refuse(c)
    PROVE  LanesInv'
<1> DEFINE job == accepting[c]
<1>1. /\ TypeOK /\ pipe' = pipe /\ worker' = worker /\ job # NoJob /\ job \in JobType
      /\ lanes' = IF job.lane = NoLane THEN lanes ELSE [lanes EXCEPT ![job.lane] = RefusedLane(job)]
  BY Zenon DEF Refuse, Shape, TypeOK
<1>2. \A d \in Conns : InPlace(d)
  <2> SUFFICES ASSUME NEW d \in Conns
               PROVE  InPlace(d)
    OBVIOUS
  <2>1. /\ Places(d)' = Places(d) /\ Len(pipe[d]) \in Nat
        /\ \A i \in Places(d) : d # c \/ i # Len(pipe[c]) + 1 => JobAt(d, i)' = JobAt(d, i)
    BY <1>1, RefusePlaces, TypeFacts
  <2>2. \A i \in Places(d) : i = Len(pipe[d]) + 1 => ~InLane(d, i) /\ ~InLane(d, i)'
    BY <2>1, <1>1 DEF InLane
  <2>3. Shift(d) = 0 /\ Len(pipe[d])' = Len(pipe[d])
    BY <1>1, <2>1 DEF Shift
  <2>4. \A i \in Places(d) : JobAt(d, i)' = JobAt(d, i) \/ (~InLane(d, i) /\ ~InLane(d, i)')
    BY <2>1, <2>2
  <2> QED BY <1>1, <2>1, <2>3, <2>4, InPlaceIfKept
<1>3. ASSUME NEW o \in LaneObjects
      PROVE  /\ WellKept(lanes'[o]) /\ TicketsOut(lanes'[o]) = TicketsOut(lanes[o])
             /\ lanes[o].active => lanes'[o].active /\ lanes'[o].serving = lanes[o].serving
  <2>1. WellKept(lanes[o]) /\ lanes \in [LaneObjects -> LaneType]
    BY <1>1 DEF LanesInv, TypeOK
  <2>2. CASE lanes'[o] = lanes[o]
    BY <2>1, <2>2
  <2>3. CASE job.lane # NoLane /\ o = job.lane
    <3>1. lanes'[o] = Skip(Issue(lanes[o]), lanes[o].next)
      BY <1>1, <2>1, <2>3 DEF RefusedLane
    <3> QED BY <3>1, <2>1, CancelledAtOnce
  <2> QED BY <1>1, <2>1, <2>2, <2>3
<1>4. ASSUME NEW d \in Conns, Inside(d)'
      PROVE  /\ lanes'[worker'[d].job.lane].active
             /\ lanes'[worker'[d].job.lane].serving = worker'[d].job.ticket
  <2>1. Inside(d)
    BY <1>1, <1>4 DEF Inside
  <2>2. worker[d].job.lane \in LaneObjects
    BY <2>1, <1>1, TypeFacts, JobFacts, NoJobTyped DEF Inside
  <2> QED BY <2>1, <2>2, <1>1, <1>3 DEF LanesInv
<1> QED BY <1>1, <1>2, <1>3, <1>4, SameCommandsInLanes

LEMMA DequeueKeepsLanes ==
    ASSUME Shape, LanesInv, NEW c \in Conns, Dequeue(c)
    PROVE  LanesInv'
<1>1. /\ TypeOK /\ lanes' = lanes
      /\ Len(pipe[c]) \in Nat /\ Len(pipe[c]) > 0 /\ Len(pipe[c])' = Len(pipe[c]) - 1
      /\ JobAt(c, 0) = NoJob
      /\ \A d \in Conns \ {c} :
           /\ worker'[d] = worker[d] /\ Places(d)' = Places(d) /\ pipe'[d] = pipe[d]
           /\ \A i \in Places(d) : JobAt(d, i)' = JobAt(d, i)
      /\ Places(c)' = 0 .. Len(pipe[c])
      /\ \A i \in 0 .. Len(pipe[c]) : JobAt(c, i)' = JobAt(c, i + 1)
      /\ worker'[c].pc \in {"epoch", "barrier"} /\ worker'[c].job = JobAt(c, 1)
      /\ worker'[c].pc = "epoch" => JobAt(c, 1).lane = NoLane
  <2>1. TypeOK /\ lanes' = lanes
    BY DEF Shape, Dequeue
  <2>2. \A d \in Conns \ {c} : pipe'[d] = pipe[d]
    BY <2>1 DEF Dequeue, TypeOK
  <2>3. Len(pipe[c]) \in Nat
    BY <2>1, TypeFacts
  <2>4. /\ Len(pipe[c]) > 0 /\ Len(pipe[c])' = Len(pipe[c]) - 1
        /\ JobAt(c, 0) = NoJob
        /\ \A d \in Conns \ {c} :
             worker'[d] = worker[d] /\ Places(d)' = Places(d)
                 /\ \A i \in Places(d) : JobAt(d, i)' = JobAt(d, i)
        /\ Places(c)' = 0 .. Len(pipe[c])
        /\ \A i \in 0 .. Len(pipe[c]) : JobAt(c, i)' = JobAt(c, i + 1)
    BY <2>1, DequeuePlaces
  <2>5. /\ worker'[c] = [pc |-> IF JobAt(c, 1).lane = NoLane THEN "epoch" ELSE "barrier",
                         job |-> JobAt(c, 1), outcome |-> "none"]
    <3>1. Head(pipe[c]) = JobAt(c, 1)
      BY <2>1, DequeuePlaces
    <3> QED BY <2>1, <3>1, DequeuePlaces
  <2>6. /\ worker'[c].pc \in {"epoch", "barrier"} /\ worker'[c].job = JobAt(c, 1)
        /\ worker'[c].pc = "epoch" => JobAt(c, 1).lane = NoLane
    BY <2>5
  <2> QED BY <2>1, <2>2, <2>3, <2>4, <2>6, Zenon
<1>2. InPlace(c)
  <2>1. Len(pipe'[c]) = Len(pipe[c]) - 1
    BY <1>1
  <2>2. Shift(c) = 1
    BY <1>1, <2>1 DEF Shift
  <2>3. ASSUME NEW i \in Places(c)', InLane(c, i)'
        PROVE  /\ i + 1 \in Places(c) /\ InLane(c, i + 1)
               /\ JobAt(c, i)' = JobAt(c, i + 1)
    <3>1. i \in 0 .. Len(pipe[c]) - 1 /\ JobAt(c, i)'.lane # NoLane
      BY <2>3, <2>1 DEF InLane
    <3>2. JobAt(c, i)' = JobAt(c, i + 1) /\ i + 1 \in 1 .. Len(pipe[c])
      BY <3>1, <1>1
    <3>3. InLane(c, i + 1)
      BY <3>1, <3>2, <1>1 DEF InLane
    <3> QED BY <3>2, <3>3, <1>1 DEF Places
  <2>4. ASSUME NEW k \in Places(c), InLane(c, k)
        PROVE  /\ k - 1 \in Places(c)' /\ k = (k - 1) + 1 /\ InLane(c, k - 1)'
               /\ JobAt(c, k - 1)' = JobAt(c, k)
    <3>1. k # 0
      BY <2>4, <1>1, NoJobTyped DEF InLane
    <3>2. k \in 1 .. Len(pipe[c])
      BY <2>4, <3>1, <1>1 DEF InLane
    <3>3. k - 1 \in 0 .. Len(pipe[c]) /\ (k - 1) + 1 = k /\ k - 1 \in 0 .. Len(pipe'[c])
      BY <3>2, <1>1, <2>1
    <3>4. JobAt(c, k - 1)' = JobAt(c, k)
      BY <3>3, <1>1
    <3>5. JobAt(c, k).lane # NoLane
      BY <2>4 DEF InLane
    <3>6. InLane(c, k - 1)'
      BY <3>3, <3>4, <3>5, <1>1 DEF InLane
    <3> QED BY <3>3, <3>4, <3>6, <1>1
  <2> QED BY <2>2, <2>3, <2>4 DEF InPlace
<1>3. ASSUME NEW d \in Conns \ {c}
      PROVE  InPlace(d)
  <2>1. Len(pipe[d]) \in Nat /\ Len(pipe[d])' = Len(pipe[d])
    BY <1>1, TypeFacts
  <2>2. Shift(d) = 0
    BY <1>1, <2>1 DEF Shift
  <2> QED BY <1>1, <2>1, <2>2, InPlaceIfKept
<1>4. ASSUME NEW d \in Conns, Inside(d)'
      PROVE  Inside(d) /\ worker'[d] = worker[d]
  BY <1>1, <1>4 DEF Inside
<1>5. ASSUME NEW d \in Conns, Inside(d)'
      PROVE  /\ lanes'[worker'[d].job.lane].active
             /\ lanes'[worker'[d].job.lane].serving = worker'[d].job.ticket
  BY <1>1, <1>4, <1>5 DEF LanesInv
<1>6. \A o \in LaneObjects : WellKept(lanes'[o]) /\ TicketsOut(lanes'[o]) = TicketsOut(lanes[o])
  BY <1>1 DEF LanesInv
<1> QED BY <1>1, <1>2, <1>3, <1>5, <1>6, SameCommandsInLanes

LEMMA EndsKeepLanes ==
    ASSUME Shape, LanesInv, NEW c \in Conns, Ends(c)
    PROVE  LanesInv'
<1>1. /\ TypeOK /\ pipe' = pipe /\ lanes' = lanes /\ accepting' = accepting
      /\ worker'[c] = Idle /\ \A d \in Conns \ {c} : worker'[d] = worker[d]
      /\ JobAt(c, 0)' = NoJob
      /\ \A d \in Conns : Places(d)' = Places(d) /\ Len(pipe[d]) \in Nat
      /\ \A d \in Conns : \A i \in Places(d) : d # c \/ i # 0 => JobAt(d, i)' = JobAt(d, i)
  BY EndPlaces, EndEffect, TypeFacts DEF Shape
<1>2. ~InLane(c, 0) /\ ~InLane(c, 0)'
  <2>1. worker[c].pc = "release" \/ worker[c].job.lane = NoLane
    BY DEF Ends, ReleaseLane, At
  <2> QED BY <2>1, <1>1, NoJobTyped DEF InLane, JobAt
<1>3. ASSUME NEW d \in Conns
      PROVE  InPlace(d)
  <2>1. Shift(d) = 0 /\ Len(pipe[d])' = Len(pipe[d])
    BY <1>1 DEF Shift
  <2>2. CASE d # c
    BY <1>1, <2>1, <2>2, InPlaceIfKept
  <2>3. CASE d = c
    <3>1. ASSUME NEW i \in Places(c), i # 0
          PROVE  JobAt(c, i)' = JobAt(c, i) /\ (InLane(c, i)' <=> InLane(c, i)) /\ i + 0 = i
      BY <1>1, <3>1 DEF InLane, Places
    <3> QED BY <1>1, <1>2, <2>1, <2>3, <3>1 DEF InPlace
  <2> QED BY <2>2, <2>3
<1>4. ASSUME NEW d \in Conns, Inside(d)'
      PROVE  Inside(d) /\ worker'[d] = worker[d]
  BY <1>1, <1>4, NoJobTyped DEF Inside, Idle
<1>5. ASSUME NEW d \in Conns, Inside(d)'
      PROVE  /\ lanes'[worker'[d].job.lane].active
             /\ lanes'[worker'[d].job.lane].serving = worker'[d].job.ticket
  BY <1>1, <1>4, <1>5 DEF LanesInv
<1>6. \A o \in LaneObjects : WellKept(lanes'[o]) /\ TicketsOut(lanes'[o]) = TicketsOut(lanes[o])
  BY <1>1 DEF LanesInv
<1> QED BY <1>1, <1>3, <1>5, <1>6, SameCommandsInLanes

LEMMA AsideKeepsLanes ==
    ASSUME LanesInv, pipe' = pipe, accepting' = accepting, worker' = worker, lanes' = lanes
    PROVE  LanesInv'
BY DEF LanesInv, InLane, Inside, JobAt, Places

(* The moves that neither enter nor leave a lane.                          *)
LEMMA MovesKeepLanes ==
    ASSUME Shape, LanesInv, NEW c \in Conns, Moves(c), ~EnterLane(c), ~Leave(c)
    PROVE  LanesInv'
<1>1. /\ TypeOK /\ pipe' = pipe /\ accepting' = accepting
      /\ worker'[c].job = worker[c].job /\ \A d \in Conns \ {c} : worker'[d] = worker[d]
      /\ \A d \in Conns : Len(pipe[d]) \in Nat /\ worker'[d].job = worker[d].job
  BY MoveEffect, TypeFacts DEF Shape
<1>2. lanes' = lanes
  BY DEF Moves, CallWrite, TakeWrite, TakeRead, CheckEpoch, Handle, HandleSwitch, Finish, DropLane, Leave
<1>3. /\ worker[c].pc = "drop" \/ (Inside(c)' => Inside(c))
      /\ worker[c].pc \in {"drop", "release"} <=> worker'[c].pc \in {"drop", "release"}
  <2>1. worker[c] \in WorkerType /\ worker \in [Conns -> WorkerType]
    BY <1>1 DEF TypeOK
  <2>2. CASE CallWrite(c) \/ TakeWrite(c) \/ TakeRead(c)
    BY <2>1, <2>2 DEF CallWrite, TakeWrite, TakeRead, Goto, At, Inside, WorkerType
  <2>3. CASE CheckEpoch(c)
    BY <2>1, <2>3 DEF CheckEpoch, At, Inside, WorkerType
  <2>4. CASE Handle(c) \/ HandleSwitch(c)
    BY <2>1, <2>4 DEF Handle, HandleSwitch, At, Inside, WorkerType
  <2>5. CASE Finish(c) \/ DropLane(c)
    BY <2>1, <2>5 DEF Finish, DropLane, Goto, At, Inside, WorkerType
  <2> QED BY <2>2, <2>3, <2>4, <2>5 DEF Moves
<1>4. ASSUME NEW d \in Conns
      PROVE  InPlace(d)
  <2>1. Shift(d) = 0 /\ Len(pipe[d])' = Len(pipe[d])
    BY <1>1 DEF Shift
  <2>2. Places(d)' = Places(d) /\ \A i : JobAt(d, i)' = JobAt(d, i)
    BY <1>1, JobsKept
  <2> QED BY <1>1, <1>3, <2>1, <2>2, InPlaceIfKept
<1>5. ASSUME NEW d \in Conns, Inside(d)'
      PROVE  Inside(d)
  BY <1>1, <1>3, <1>5 DEF Inside
<1>6. ASSUME NEW d \in Conns, Inside(d)'
      PROVE  /\ lanes'[worker'[d].job.lane].active
             /\ lanes'[worker'[d].job.lane].serving = worker'[d].job.ticket
  BY <1>1, <1>2, <1>5, <1>6 DEF LanesInv
<1>7. \A o \in LaneObjects : WellKept(lanes'[o]) /\ TicketsOut(lanes'[o]) = TicketsOut(lanes[o])
  BY <1>2 DEF LanesInv
<1> QED BY <1>1, <1>4, <1>6, <1>7, SameCommandsInLanes

LEMMA EnterLaneKeepsLanes ==
    ASSUME Shape, LanesInv, NEW c \in Conns, EnterLane(c)
    PROVE  LanesInv'
<1> DEFINE job == worker[c].job
<1>1. /\ TypeOK /\ pipe' = pipe /\ accepting' = accepting
      /\ worker'[c].job = job /\ \A d \in Conns \ {c} : worker'[d] = worker[d]
      /\ \A d \in Conns : Len(pipe[d]) \in Nat /\ worker'[d].job = worker[d].job
  BY MoveEffect, TypeFacts DEF Shape, Moves
<1>2. /\ worker[c].pc = "lane" /\ job.lane # NoLane /\ lanes[job.lane].serving = job.ticket
      /\ lanes' = [lanes EXCEPT ![job.lane] = Enter(@)]
      /\ worker'[c].pc = "epoch"
  BY <1>1 DEF EnterLane, Goto, At, CanEnter, Shape, ScopesFit, WorkerFits, TypeOK
<1>3. 0 \in Places(c) /\ InLane(c, 0) /\ JobAt(c, 0) = job
  BY <1>1, <1>2 DEF Places, InLane, JobAt
<1>4. job.lane \in LaneObjects /\ job.ticket \in TicketsOut(lanes[job.lane])
  BY <1>1, <1>2, <1>3, LaneOfPlace DEF LanesInv
<1>5. ASSUME NEW o \in LaneObjects
      PROVE  /\ WellKept(lanes'[o]) /\ TicketsOut(lanes'[o]) = TicketsOut(lanes[o])
             /\ lanes'[o].serving = lanes[o].serving
             /\ (lanes[o].active \/ o = job.lane) => lanes'[o].active
  <2>1. WellKept(lanes[o])
    BY DEF LanesInv
  <2>2. CASE o = job.lane
    <3>1. lanes'[o] = Enter(lanes[o])
      BY <1>1, <1>2, <1>4, <2>2 DEF TypeOK
    <3>2. lanes[o].serving \in TicketsOut(lanes[o])
      BY <1>2, <1>4, <2>2
    <3> QED BY <3>1, <3>2, <2>1, EnterKeepsTickets
  <2>3. CASE o # job.lane
    BY <1>1, <1>2, <2>1, <2>3 DEF TypeOK
  <2> QED BY <2>2, <2>3
<1>6. ASSUME NEW d \in Conns
      PROVE  InPlace(d)
  <2>1. Shift(d) = 0 /\ Len(pipe[d])' = Len(pipe[d])
    BY <1>1 DEF Shift
  <2>2. Places(d)' = Places(d) /\ \A i : JobAt(d, i)' = JobAt(d, i)
    BY <1>1, JobsKept
  <2> QED BY <1>1, <1>2, <2>1, <2>2, InPlaceIfKept
<1>7. ASSUME NEW d \in Conns, Inside(d)'
      PROVE  /\ lanes'[worker'[d].job.lane].active
             /\ lanes'[worker'[d].job.lane].serving = worker'[d].job.ticket
  <2>1. CASE d = c
    BY <1>1, <1>2, <1>4, <1>5, <2>1
  <2>2. CASE d # c
    <3>1. Inside(d) /\ worker'[d] = worker[d]
      BY <1>1, <1>7, <2>2 DEF Inside
    <3>2. worker[d].job.lane \in LaneObjects
      BY <3>1, <1>1, TypeFacts, JobFacts, NoJobTyped DEF Inside
    <3> QED BY <3>1, <3>2, <1>5 DEF LanesInv
  <2> QED BY <2>1, <2>2
<1> QED BY <1>1, <1>5, <1>6, <1>7, SameCommandsInLanes

(* Leaving gives back the ticket that is served, the worker's own.         *)
LEMMA LeaveKeepsLanes ==
    ASSUME Shape, LanesInv, NEW c \in Conns, Leave(c), worker[c].job.lane # NoLane
    PROVE  LanesInv'
<1> DEFINE job == worker[c].job
           left == job.lane
<1>1. /\ TypeOK /\ pipe' = pipe /\ accepting' = accepting
      /\ worker'[c].job = job /\ \A d \in Conns \ {c} : worker'[d] = worker[d]
      /\ \A d \in Conns : Len(pipe[d]) \in Nat /\ worker'[d].job = worker[d].job
  BY MoveEffect, TypeFacts DEF Shape, Moves
<1>2. /\ worker[c].pc = "leave" /\ lanes' = [lanes EXCEPT ![left] = Advance(@)]
      /\ worker'[c].pc = "drop"
  <2>1. worker[c].pc = "leave" /\ lanes' = [lanes EXCEPT ![left] = Advance(@)] /\ Goto(c, "drop")
    BY Zenon DEF Leave, At
  <2>2. worker'[c].pc = "drop"
    BY <1>1, <2>1 DEF Goto, TypeOK, WorkerType
  <2> QED BY <2>1, <2>2
<1>3. 0 \in Places(c) /\ InLane(c, 0) /\ JobAt(c, 0) = job
  BY <1>1, <1>2 DEF Places, InLane, JobAt
<1>4. /\ left \in LaneObjects /\ job.ticket \in TicketsOut(lanes[left])
      /\ lanes[left].serving = job.ticket
  <2>1. Inside(c)
    BY <1>2 DEF Inside
  <2> QED BY <2>1, <1>1, <1>3, LaneOfPlace DEF LanesInv
<1>5. /\ WellKept(lanes'[left])
      /\ TicketsOut(lanes'[left]) = TicketsOut(lanes[left]) \ {job.ticket}
      /\ \A o \in LaneObjects \ {left} : lanes'[o] = lanes[o]
  <2>1. lanes'[left] = Advance(lanes[left]) /\ \A o \in LaneObjects \ {left} : lanes'[o] = lanes[o]
    BY <1>1, <1>2, <1>4 DEF TypeOK
  <2> QED BY <2>1, <1>4, AdvanceReturnsOne DEF LanesInv
<1>6. /\ \A d \in Conns : Places(d)' = Places(d) /\ \A i : JobAt(d, i)' = JobAt(d, i)
      /\ ~InLane(c, 0)'
  BY <1>1, <1>2, JobsKept DEF InLane
<1>7. ASSUME NEW d \in Conns, NEW i \in Places(d)
      PROVE  InLane(d, i)' <=> InLane(d, i) /\ ~(d = c /\ i = 0)
  <2>1. CASE d = c /\ i = 0
    BY <2>1, <1>6
  <2>2. CASE d # c \/ i # 0
    BY <2>2, <1>1, <1>6 DEF InLane
  <2> QED BY <2>1, <2>2
(* Nobody else in this lane has the worker's ticket.                       *)
<1>8. ASSUME NEW d \in Conns, NEW i \in Places(d), InLane(d, i)',
             JobAt(d, i).lane = left
      PROVE  JobAt(d, i).ticket # job.ticket
  BY <1>3, <1>7, <1>8 DEF LanesInv
<1>9. \A o \in LaneObjects : WellKept(lanes'[o])
  BY <1>5 DEF LanesInv
<1>10. ASSUME NEW d \in Conns, NEW i \in Places(d), InLane(d, i)'
       PROVE  JobAt(d, i).ticket \in TicketsOut(lanes'[JobAt(d, i).lane])
  <2>1. InLane(d, i) /\ JobAt(d, i).ticket \in TicketsOut(lanes[JobAt(d, i).lane])
    BY <1>7, <1>10 DEF LanesInv
  <2>2. JobAt(d, i).lane \in LaneObjects
    BY <2>1, <1>1, LaneOfPlace DEF InLane
  <2> QED BY <2>1, <2>2, <1>5, <1>8, <1>10
<1>11. ASSUME NEW o \in LaneObjects, NEW t \in TicketsOut(lanes'[o])
       PROVE  \E d \in Conns : \E i \in Places(d) :
                  InLane(d, i)' /\ JobAt(d, i).lane = o /\ JobAt(d, i).ticket = t
  <2>1. t \in TicketsOut(lanes[o]) /\ ~(o = left /\ t = job.ticket)
    BY <1>5
  <2>2. PICK d \in Conns : \E i \in Places(d) :
            InLane(d, i) /\ JobAt(d, i).lane = o /\ JobAt(d, i).ticket = t
    BY <2>1 DEF LanesInv
  <2>3. PICK i \in Places(d) : InLane(d, i) /\ JobAt(d, i).lane = o /\ JobAt(d, i).ticket = t
    BY <2>2
  <2>4. ~(d = c /\ i = 0)
    BY <2>1, <2>3, <1>3
  <2> QED BY <2>3, <2>4, <1>7
<1>12. ASSUME NEW d \in Conns, NEW e \in Conns, NEW i \in Places(d), NEW j \in Places(e),
              InLane(d, i)', InLane(e, j)',
              JobAt(d, i).lane = JobAt(e, j).lane, JobAt(d, i).ticket = JobAt(e, j).ticket
       PROVE  d = e /\ i = j
  BY <1>7, <1>12 DEF LanesInv
<1>13. ASSUME NEW d \in Conns, Inside(d)'
       PROVE  /\ lanes'[worker'[d].job.lane].active
              /\ lanes'[worker'[d].job.lane].serving = worker'[d].job.ticket
  <2>1. d # c /\ worker'[d] = worker[d] /\ Inside(d)
    BY <1>1, <1>2, <1>13 DEF Inside
  <2>2. 0 \in Places(d) /\ InLane(d, 0) /\ JobAt(d, 0) = worker[d].job
    BY <1>1, <2>1 DEF Inside, Places, InLane, JobAt
  <2>3. lanes[worker[d].job.lane].serving = worker[d].job.ticket /\ lanes[worker[d].job.lane].active
    BY <2>1 DEF LanesInv
  <2>4. worker[d].job.lane # left
    BY <2>2, <2>3, <1>4, <1>7, <1>8, <2>1
  <2>5. worker[d].job.lane \in LaneObjects
    BY <2>2, <1>1, LaneOfPlace DEF InLane
  <2> QED BY <2>1, <2>3, <2>4, <2>5, <1>5
<1> QED
  <2>1. \A d \in Conns : \A i \in Places(d)' : InLane(d, i)' =>
            JobAt(d, i)'.ticket \in TicketsOut(lanes'[JobAt(d, i)'.lane])
    BY <1>6, <1>10
  <2>2. \A o \in LaneObjects : \A t \in TicketsOut(lanes'[o]) :
            \E d \in Conns : \E i \in Places(d)' :
                InLane(d, i)' /\ JobAt(d, i)'.lane = o /\ JobAt(d, i)'.ticket = t
    BY <1>6, <1>11
  <2>3. \A d, e \in Conns : \A i \in Places(d)', j \in Places(e)' :
            (/\ InLane(d, i)' /\ InLane(e, j)'
             /\ JobAt(d, i)'.lane = JobAt(e, j)'.lane /\ JobAt(d, i)'.ticket = JobAt(e, j)'.ticket)
               => d = e /\ i = j
    BY <1>6, <1>12
  <2> QED BY <1>9, <1>13, <2>1, <2>2, <2>3 DEF LanesInv

(* Queueing takes the next ticket of the lane for the command.             *)
LEMMA EnqueueKeepsLanes ==
    ASSUME Shape, LanesInv, NEW c \in Conns, Enqueue(c)
    PROVE  LanesInv'
<1> SUFFICES ASSUME NEW n, n = Len(pipe[c]) + 1, NEW job, job = accepting[c]
             PROVE  LanesInv'
  OBVIOUS
<1>1. /\ TypeOK /\ worker' = worker /\ job # NoJob /\ job \in JobType
      /\ lanes' = IF job.lane = NoLane THEN lanes ELSE [lanes EXCEPT ![job.lane] = Issue(@)]
      /\ NoLane \notin LaneObjects
  BY CommandsAssumption DEF Enqueue, Shape, TypeOK, NoLane
<1>2. n \in Nat /\ n # 0 /\ \A d \in Conns : Len(pipe[d]) \in Nat
  BY <1>1, TypeFacts
<1>3. /\ Len(pipe'[c]) = n /\ \A d \in Conns \ {c} : Len(pipe'[d]) = Len(pipe[d])
      /\ Places(c)' = 0 .. n + 1 /\ \A d \in Conns \ {c} : Places(d)' = Places(d)
  <2>1. \A d \in Conns \ {c} : pipe'[d] = pipe[d]
    BY <1>1 DEF Enqueue, TypeOK
  <2>2. Len(pipe'[c]) = n
    BY <1>1, EnqueuePlaces
  <2> QED BY <2>1, <2>2 DEF Places
<1>4. /\ JobAt(c, n)' = Ticketed(job) /\ JobAt(c, n + 1)' = NoJob
      /\ \A d \in Conns : \A i \in Places(d) : d # c \/ i # n => JobAt(d, i)' = JobAt(d, i)
  <2>1. JobAt(c, n)' = Ticketed(job)
    BY <1>1, <1>2, <1>3, EnqueuePlaces DEF JobAt
  <2>2. JobAt(c, n + 1)' = NoJob
    BY <1>1, <1>2, <1>3, EnqueuePlaces DEF JobAt
  <2> QED BY <1>1, <2>1, <2>2, EnqueuePlaces
<1>5. ASSUME NEW d \in Conns, NEW i \in Places(d)', InLane(d, i)'
      PROVE  \/ i \in Places(d) /\ InLane(d, i) /\ JobAt(d, i)' = JobAt(d, i)
             \/ d = c /\ i = n /\ job.lane # NoLane
  <2>1. i \in 0 .. Len(pipe'[d]) /\ JobAt(d, i)'.lane # NoLane
    BY <1>5 DEF InLane
  <2>2. CASE d = c /\ i = n
    <3>1. JobAt(d, i)' = Ticketed(job)
      BY <2>2, <1>4
    <3> QED BY <2>1, <2>2, <3>1 DEF Ticketed
  <2>3. CASE d # c \/ i # n
    <3>1. i \in 0 .. Len(pipe[d]) /\ i \in Places(d)
      BY <2>1, <2>3, <1>2, <1>3 DEF Places
    <3>2. JobAt(d, i)' = JobAt(d, i)
      BY <2>3, <3>1, <1>4
    <3> QED BY <3>1, <3>2, <1>1, <1>5 DEF InLane
  <2> QED BY <2>2, <2>3
<1>6. ASSUME NEW d \in Conns, NEW i \in Places(d), InLane(d, i)
      PROVE  i \in Places(d)' /\ InLane(d, i)' /\ JobAt(d, i)' = JobAt(d, i) /\ (d # c \/ i # n)
  <2>1. i \in 0 .. Len(pipe[d])
    BY <1>6 DEF InLane
  <2>2. d # c \/ i # n
    BY <2>1, <1>2
  <2>3. i \in Places(d)' /\ i \in 0 .. Len(pipe'[d])
    BY <2>1, <1>2, <1>3 DEF Places
  <2>4. JobAt(d, i)' = JobAt(d, i)
    BY <2>2, <1>4
  <2> QED BY <2>2, <2>3, <2>4, <1>1, <1>6 DEF InLane
<1>7. CASE job.lane = NoLane
  <2>1. lanes' = lanes
    BY <1>1, <1>7
  <2>2. \A d \in Conns : \A i \in Places(d)' :
            InLane(d, i)' => i \in Places(d) /\ InLane(d, i) /\ JobAt(d, i)' = JobAt(d, i)
    BY <1>5, <1>7
  <2>3. \A d \in Conns : Inside(d)' => Inside(d) /\ worker'[d] = worker[d]
    BY <1>1 DEF Inside
  <2>4. ASSUME NEW d \in Conns
        PROVE  InPlace(d)
    <3>1. Shift(d) = 0
      BY <1>2, <1>3 DEF Shift
    <3>2. \A i \in Places(d) \cup Places(d)' : i + 0 = i
      BY DEF Places
    <3> QED BY <3>1, <3>2, <2>2, <1>6 DEF InPlace
  <2>5. \A o \in LaneObjects : WellKept(lanes'[o]) /\ TicketsOut(lanes'[o]) = TicketsOut(lanes[o])
    BY <2>1 DEF LanesInv
  <2>6. ASSUME NEW d \in Conns, Inside(d)'
        PROVE  /\ lanes'[worker'[d].job.lane].active
               /\ lanes'[worker'[d].job.lane].serving = worker'[d].job.ticket
    BY <2>1, <2>3, <2>6 DEF LanesInv
  <2> QED BY <1>1, <2>4, <2>5, <2>6, SameCommandsInLanes
<1>8. CASE job.lane # NoLane
  <2> SUFFICES ASSUME NEW o, o = job.lane, NEW t0, t0 = lanes[o].next
               PROVE  LanesInv'
    OBVIOUS
  <2>1. o \in LaneObjects /\ lanes' = [lanes EXCEPT ![o] = Issue(@)]
        /\ lanes[o] \in LaneType /\ WellKept(lanes[o])
    BY <1>1, <1>8, JobFacts DEF TypeOK, LanesInv
  <2>2. /\ WellKept(lanes'[o]) /\ TicketsOut(lanes'[o]) = TicketsOut(lanes[o]) \cup {t0}
        /\ lanes'[o].serving = lanes[o].serving /\ lanes'[o].active = lanes[o].active
        /\ t0 \notin TicketsOut(lanes[o])
        /\ \A p \in LaneObjects \ {o} : lanes'[p] = lanes[p]
    <3>1. lanes'[o] = Issue(lanes[o]) /\ \A p \in LaneObjects \ {o} : lanes'[p] = lanes[p]
      BY <2>1, <1>1 DEF TypeOK
    <3> QED BY <3>1, <2>1, IssueTakesOne
  <2>3. JobAt(c, n)'.lane = o /\ JobAt(c, n)'.ticket = t0
    <3>1. /\ job \in [cmd : Commands, epoch : Nat, mem : MemType,
                      lane : LaneObjects \cup {NoLane}, ticket : Nat]
      BY <1>1 DEF JobType
    <3>2. Ticketed(job).lane = job.lane /\ Ticketed(job).ticket = lanes[job.lane].next
      BY <1>8, <3>1 DEF Ticketed
    <3> QED BY <3>2, <1>4
  <2>4. n \in Places(c)' /\ InLane(c, n)'
    <3>1. n \in 0 .. Len(pipe'[c]) /\ n \in Places(c)'
      BY <1>2, <1>3
    <3>2. JobAt(c, n)'.lane # NoLane
      BY <2>3, <1>8
    <3> QED BY <3>1, <3>2, <1>2 DEF InLane
  <2>5. \A p \in LaneObjects : WellKept(lanes'[p])
    BY <2>2 DEF LanesInv
  <2>6. ASSUME NEW d \in Conns, NEW i \in Places(d)', InLane(d, i)'
        PROVE  JobAt(d, i)'.ticket \in TicketsOut(lanes'[JobAt(d, i)'.lane])
    <3>1. CASE d = c /\ i = n
      BY <3>1, <2>2, <2>3
    <3>2. CASE i \in Places(d) /\ InLane(d, i) /\ JobAt(d, i)' = JobAt(d, i)
      <4>1. JobAt(d, i).lane \in LaneObjects
        BY <3>2, <1>1, LaneOfPlace DEF InLane
      <4>2. JobAt(d, i).ticket \in TicketsOut(lanes[JobAt(d, i).lane])
        BY <3>2 DEF LanesInv
      <4> QED BY <4>1, <4>2, <3>2, <2>2
    <3> QED BY <3>1, <3>2, <1>5, <2>6
  <2>7. ASSUME NEW p \in LaneObjects, NEW t \in TicketsOut(lanes'[p])
        PROVE  \E d \in Conns : \E i \in Places(d)' :
                   InLane(d, i)' /\ JobAt(d, i)'.lane = p /\ JobAt(d, i)'.ticket = t
    <3>1. CASE p = o /\ t = t0
      BY <3>1, <2>3, <2>4
    <3>2. CASE t \in TicketsOut(lanes[p])
      <4>1. PICK d \in Conns : \E i \in Places(d) :
                InLane(d, i) /\ JobAt(d, i).lane = p /\ JobAt(d, i).ticket = t
        BY <3>2 DEF LanesInv
      <4>2. PICK i \in Places(d) : InLane(d, i) /\ JobAt(d, i).lane = p /\ JobAt(d, i).ticket = t
        BY <4>1
      <4>3. i \in Places(d)' /\ InLane(d, i)' /\ JobAt(d, i)' = JobAt(d, i)
        BY <4>2, <1>6
      <4> QED BY <4>2, <4>3
    <3> QED BY <3>1, <3>2, <2>2
  <2>8. ASSUME NEW d \in Conns, NEW e \in Conns, NEW i \in Places(d)', NEW j \in Places(e)',
               InLane(d, i)', InLane(e, j)',
               JobAt(d, i)'.lane = JobAt(e, j)'.lane, JobAt(d, i)'.ticket = JobAt(e, j)'.ticket
        PROVE  d = e /\ i = j
    <3> DEFINE Old(x, k) == k \in Places(x) /\ InLane(x, k) /\ JobAt(x, k)' = JobAt(x, k)
    <3>1. /\ Old(d, i) \/ (d = c /\ i = n)
          /\ Old(e, j) \/ (e = c /\ j = n)
      BY <2>8, <1>5
    <3>2. ASSUME NEW x \in Conns, NEW k, Old(x, k), JobAt(x, k).lane = o
          PROVE  JobAt(x, k).ticket # t0
      BY <3>2, <2>2 DEF LanesInv
    <3>3. CASE Old(d, i) /\ Old(e, j)
      BY <3>3, <2>8 DEF LanesInv
    <3>4. CASE Old(d, i) /\ e = c /\ j = n
      BY <3>4, <3>2, <2>3, <2>8
    <3>5. CASE Old(e, j) /\ d = c /\ i = n
      BY <3>5, <3>2, <2>3, <2>8
    <3> QED BY <3>1, <3>3, <3>4, <3>5
  <2>9. ASSUME NEW d \in Conns, Inside(d)'
        PROVE  /\ lanes'[worker'[d].job.lane].active
               /\ lanes'[worker'[d].job.lane].serving = worker'[d].job.ticket
    <3>1. Inside(d) /\ worker'[d] = worker[d]
      BY <1>1, <2>9 DEF Inside
    <3>2. worker[d].job.lane \in LaneObjects
      BY <3>1, <1>1, TypeFacts, JobFacts, NoJobTyped DEF Inside
    <3>3. lanes[worker[d].job.lane].active /\ lanes[worker[d].job.lane].serving = worker[d].job.ticket
      BY <3>1 DEF LanesInv
    <3>4. lanes'[worker[d].job.lane].active = lanes[worker[d].job.lane].active
          /\ lanes'[worker[d].job.lane].serving = lanes[worker[d].job.lane].serving
      BY <3>2, <2>2
    <3> QED BY <3>1, <3>3, <3>4
  <2> QED BY <2>5, <2>6, <2>7, <2>8, <2>9 DEF LanesInv
<1> QED BY <1>7, <1>8

LEMMA LanesKept ==
    ASSUME Shape, LanesInv, [Next]_vars
    PROVE  LanesInv'
<1>1. ASSUME NEW c \in Conns, Moves(c)
      PROVE  LanesInv'
  <2>1. CASE EnterLane(c)
    BY <2>1, EnterLaneKeepsLanes
  <2>2. CASE Leave(c)
    <3>1. worker[c].job.lane # NoLane
      BY <1>1, <2>2, Zenon DEF Moves, Leave, At, CallWrite, TakeWrite, TakeRead, EnterLane,
           CheckEpoch, Handle, HandleSwitch, Finish, DropLane
    <3> QED BY <3>1, <2>2, LeaveKeepsLanes
  <2>3. CASE ~EnterLane(c) /\ ~Leave(c)
    BY <2>3, <1>1, MovesKeepLanes
  <2> QED BY <2>1, <2>2, <2>3
<1>2. ASSUME Aside
      PROVE  LanesInv'
  <2>1. pipe' = pipe /\ accepting' = accepting /\ worker' = worker /\ lanes' = lanes
    BY <1>2 DEF Aside, Accept, CoreAccepts, MaintenanceStep, vars
  <2> QED BY <2>1, AsideKeepsLanes
<1> QED BY <1>1, <1>2, StepsSorted, AcceptKeepsLanes, EnqueueKeepsLanes, RefuseKeepsLanes,
        DequeueKeepsLanes, EndsKeepLanes

-----------------------------------------------------------------------------
LEMMA LanesTyped ==
    ASSUME TypeOK, LanesInv', NEW o, NEW l, lanes' = lanes \/ lanes' = [lanes EXCEPT ![o] = l]
    PROVE  lanes' \in [LaneObjects -> LaneType]
<1>1. \A p \in LaneObjects : lanes'[p] \in LaneType
  BY DEF LanesInv, WellKept
<1> QED BY <1>1 DEF TypeOK

LEMMA AcceptTyped ==
    ASSUME Shape, LanesInv', NEW c \in Conns, NEW m \in Commands, Accept(c, m)
    PROVE  TypeOK'
<1>1. /\ TypeOK /\ UNCHANGED <<pipe, worker, writer, readers, epoch, mem, core, handled, maint>>
      /\ sent[m] < SendLimit[m] /\ sent' = [sent EXCEPT ![m] = @ + 1]
  BY Zenon DEF Shape, Accept
<1>2. sent' \in [Commands -> Nat] /\ \A n \in Commands : sent'[n] <= SendLimit[n]
  <2>1. /\ sent \in [Commands -> Nat] /\ SendLimit \in [Commands -> Nat]
        /\ \A n \in Commands : sent[n] <= SendLimit[n]
    BY <1>1, CommandsAssumption DEF TypeOK
  <2> QED BY <1>1, <2>1
<1>3. CASE ~TakenIn(m)
  <2>1. UNCHANGED <<accepting, lanes, mapped, dedup>>
    BY <1>3, Zenon DEF Accept
  <2> QED BY <1>1, <1>2, <2>1 DEF TypeOK, At
<1>4. CASE TakenIn(m)
  <2>1. PICK lane \in LaneObjects \cup {NoLane} :
            /\ accepting' = [accepting EXCEPT ![c] = Stamped(m, lane)]
            /\ dedup' = [dedup EXCEPT ![m] = "accepted"]
            /\ lane = NoLane <=> ScopeOf[m] = NoScope
            /\ \/ UNCHANGED <<lanes, mapped>>
               \/ /\ lane # NoLane
                  /\ lanes' = [lanes EXCEPT ![lane] = NewLane]
                  /\ mapped' = [mapped EXCEPT ![ScopeOf[m]] = lane]
    BY <1>4, AcceptEffect
  <2>2. Stamped(m, lane) \in JobType
    BY <1>1 DEF Stamped, JobType, TypeOK
  <2>3. accepting' \in [Conns -> JobType]
        /\ dedup' \in [Commands -> {"absent", "accepted", "committed", "rejected"}]
    BY <1>1, <2>1, <2>2 DEF TypeOK
  <2>4. lanes' \in [LaneObjects -> LaneType]
    BY <1>1, <2>1, LanesTyped
  <2>5. mapped' \in [Scopes -> LaneObjects \cup {NoLane}]
    BY <1>1, <2>1 DEF TypeOK
  <2> QED BY <1>1, <1>2, <2>3, <2>4, <2>5 DEF TypeOK, At
<1> QED BY <1>3, <1>4

LEMMA EnqueueTyped ==
    ASSUME Shape, LanesInv', NEW c \in Conns, Enqueue(c)
    PROVE  TypeOK'
<1> DEFINE job == accepting[c]
           ticketed == Ticketed(job)
<1>1. /\ TypeOK /\ UNCHANGED <<sent, worker, mapped, writer, readers, epoch, mem, dedup, core, handled, maint>>
      /\ job # NoJob /\ job \in JobType /\ ~Full(c)
      /\ lanes' = IF job.lane = NoLane THEN lanes ELSE [lanes EXCEPT ![job.lane] = Issue(@)]
      /\ pipe' = [pipe EXCEPT ![c] = Append(@, Ticketed(job))]
      /\ accepting' = [accepting EXCEPT ![c] = NoJob]
  BY Zenon DEF Enqueue, Shape, TypeOK
<1>2. ticketed \in JobType \ {NoJob}
  BY <1>1, TicketedIsSame, JobFacts DEF TypeOK
<1> HIDE DEF ticketed
<1>3. /\ Append(pipe[c], ticketed) \in Seq(JobType \ {NoJob})
      /\ Len(Append(pipe[c], ticketed)) <= QueueCapacity
  <2>1. pipe[c] \in Seq(JobType \ {NoJob}) /\ Len(pipe[c]) \in Nat /\ Len(pipe[c]) < QueueCapacity
    BY <1>1, TypeFacts, CommandsAssumption DEF Full
  <2> QED BY <2>1, <1>2, AppendProperties, CommandsAssumption
<1>4. pipe' \in [Conns -> Seq(JobType \ {NoJob})] /\ \A d \in Conns : Len(pipe'[d]) <= QueueCapacity
  <2>1. pipe' = [pipe EXCEPT ![c] = Append(pipe[c], ticketed)]
    BY <1>1 DEF ticketed
  <2> DEFINE q == Append(pipe[c], ticketed)
  <2>2. q \in Seq(JobType \ {NoJob}) /\ Len(q) <= QueueCapacity /\ pipe' = [pipe EXCEPT ![c] = q]
    BY <1>3, <2>1
  <2> HIDE DEF q
  <2> QED BY <2>2, <1>1 DEF TypeOK
<1>5. lanes' \in [LaneObjects -> LaneType]
  BY <1>1, LanesTyped
<1>6. accepting' \in [Conns -> JobType]
  BY <1>1, NoJobTyped DEF TypeOK
<1> QED BY <1>1, <1>4, <1>5, <1>6 DEF TypeOK, At

LEMMA RefuseTyped ==
    ASSUME Shape, LanesInv', NEW c \in Conns, Refuse(c)
    PROVE  TypeOK'
<1> DEFINE job == accepting[c]
<1>1. /\ TypeOK /\ UNCHANGED <<sent, pipe, worker, writer, readers, epoch, mem, core, handled, maint>>
      /\ job # NoJob /\ job \in JobType
      /\ lanes' = IF job.lane = NoLane THEN lanes ELSE [lanes EXCEPT ![job.lane] = RefusedLane(job)]
      /\ dedup' = [dedup EXCEPT ![job.cmd] = "rejected"]
      /\ mapped' = mapped \/ mapped' = [mapped EXCEPT ![ScopeOf[job.cmd]] = NoLane]
      /\ accepting' = [accepting EXCEPT ![c] = NoJob]
  BY Zenon DEF Refuse, Shape, TypeOK
<1>2. lanes' \in [LaneObjects -> LaneType]
  BY <1>1, LanesTyped
<1>3. accepting' \in [Conns -> JobType] /\ mapped' \in [Scopes -> LaneObjects \cup {NoLane}]
  BY <1>1, NoJobTyped DEF TypeOK
<1>4. dedup' \in [Commands -> {"absent", "accepted", "committed", "rejected"}]
  BY <1>1 DEF TypeOK
<1> QED BY <1>1, <1>2, <1>3, <1>4 DEF TypeOK, At

LEMMA DequeueTyped ==
    ASSUME Shape, NEW c \in Conns, Dequeue(c)
    PROVE  TypeOK'
<1>1. /\ TypeOK
      /\ UNCHANGED <<sent, accepting, lanes, mapped, writer, readers, epoch, mem, dedup, core, handled, maint>>
      /\ pipe[c] # <<>> /\ pipe' = [pipe EXCEPT ![c] = Tail(@)]
  BY Zenon DEF Dequeue, Shape
<1>2. pipe[c] \in Seq(JobType \ {NoJob}) /\ Len(pipe[c]) \in Nat /\ Len(pipe[c]) <= QueueCapacity
  BY <1>1, TypeFacts DEF TypeOK
<1>3. /\ Tail(pipe[c]) \in Seq(JobType \ {NoJob}) /\ Len(Tail(pipe[c])) <= QueueCapacity
      /\ Head(pipe[c]) \in JobType \ {NoJob}
  BY <1>1, <1>2, HeadTailProperties, CommandsAssumption
<1>4. pipe' \in [Conns -> Seq(JobType \ {NoJob})] /\ \A d \in Conns : Len(pipe'[d]) <= QueueCapacity
  BY <1>1, <1>3 DEF TypeOK
<1> DEFINE next == [pc |-> IF Head(pipe[c]).lane = NoLane THEN "epoch" ELSE "barrier",
                    job |-> Head(pipe[c]), outcome |-> "none"]
<1>5. next \in WorkerType /\ next.pc # "idle" /\ next.job # NoJob
  BY <1>3 DEF WorkerType
<1>6. worker' = [worker EXCEPT ![c] = next]
  BY Zenon DEF Dequeue
<1> HIDE DEF next
<1>7. worker' \in [Conns -> WorkerType] /\ \A d \in Conns : At(d, "idle")' <=> worker'[d].job = NoJob
  BY <1>1, <1>5, <1>6 DEF TypeOK, At
<1> QED BY <1>1, <1>4, <1>7 DEF TypeOK

LEMMA EndsTyped ==
    ASSUME Shape, NEW c \in Conns, Ends(c)
    PROVE  TypeOK'
<1>1. /\ TypeOK /\ worker' = [worker EXCEPT ![c] = Idle]
      /\ UNCHANGED <<sent, pipe, accepting, lanes, mapped, writer, readers, epoch, mem, dedup, core, handled, maint>>
  BY EndEffect DEF Shape
<1>2. worker' \in [Conns -> WorkerType] /\ \A d \in Conns : At(d, "idle")' <=> worker'[d].job = NoJob
  BY <1>1, NoJobTyped DEF TypeOK, At, Idle
<1> QED BY <1>1, <1>2 DEF TypeOK

LEMMA AsideTyped ==
    ASSUME Shape, (\E m \in Commands : CoreAccepts(m)) \/ MaintenanceStep \/ UNCHANGED vars
    PROVE  TypeOK'
<1>1. CASE \E m \in Commands : CoreAccepts(m)
  BY <1>1 DEF CoreAccepts, Shape, TypeOK, At
<1>2. CASE MaintenanceStep
  BY <1>2 DEF MaintenanceStep, Shape, TypeOK, At
<1>3. CASE UNCHANGED vars
  BY <1>3 DEF vars, Shape, TypeOK, At
<1> QED BY <1>1, <1>2, <1>3

LEMMA MovesTyped ==
    ASSUME Shape, LanesInv', NEW c \in Conns, Moves(c)
    PROVE  TypeOK'
<1>1. /\ TypeOK /\ pipe' = pipe /\ accepting' = accepting /\ worker' \in [Conns -> WorkerType]
      /\ \A d \in Conns : At(d, "idle")' <=> worker'[d].job = NoJob
  BY MoveEffect DEF Shape, TypeOK, At
<1>2. worker[c].job \in JobType /\ worker[c].job # NoJob /\ Cmd(c) \in Commands
  BY <1>1, MoveEffect, TypeFacts, JobFacts DEF TypeOK, Cmd
<1>3. sent' = sent /\ maint' = maint /\ accepting' = accepting
  BY Zenon DEF Moves, CallWrite, TakeWrite, TakeRead, EnterLane, CheckEpoch, Handle, HandleSwitch,
       Finish, DropLane, Leave
<1>4. lanes' \in [LaneObjects -> LaneType]
  <2>1. \/ lanes' = lanes
        \/ lanes' = [lanes EXCEPT ![worker[c].job.lane] = Enter(@)]
        \/ lanes' = [lanes EXCEPT ![worker[c].job.lane] = Advance(@)]
    BY Zenon DEF Moves, CallWrite, TakeWrite, TakeRead, EnterLane, CheckEpoch, Handle, HandleSwitch,
         Finish, DropLane, Leave
  <2> QED BY <1>1, <2>1, LanesTyped
<1>5. mapped' \in [Scopes -> LaneObjects \cup {NoLane}]
  <2>1. mapped' = mapped \/ mapped' = [mapped EXCEPT ![ScopeOf[Cmd(c)]] = NoLane]
    BY Zenon DEF Moves, CallWrite, TakeWrite, TakeRead, EnterLane, CheckEpoch, Handle, HandleSwitch,
         Finish, DropLane, Leave
  <2> QED BY <1>1, <2>1 DEF TypeOK
<1>6. writer' \in Conns \cup {Nobody, "maintenance"} /\ readers' \subseteq Conns
  <2>1. /\ writer' \in {writer, c, Nobody}
        /\ readers' = readers \/ readers' = readers \cup {c} \/ readers' = readers \ {c}
    BY DEF Moves, CallWrite, TakeWrite, TakeRead, EnterLane, CheckEpoch, Handle, HandleSwitch,
         Finish, DropLane, Leave, barrierVars
  <2> QED BY <1>1, <2>1 DEF TypeOK
<1>7. /\ epoch' \in Nat /\ mem' \in MemType /\ core' \subseteq Core
      /\ handled' \in [Commands -> Nat]
      /\ dedup' \in [Commands -> {"absent", "accepted", "committed", "rejected"}]
  <2>0. /\ epoch \in Nat /\ mem \in MemType /\ core \subseteq Core
        /\ handled \in [Commands -> Nat]
        /\ dedup \in [Commands -> {"absent", "accepted", "committed", "rejected"}]
    BY <1>1 DEF TypeOK
  <2>1. CASE Handle(c)
    <3>1. /\ UNCHANGED <<epoch, mem, dedup>>
          /\ handled' = handled \/ handled' = [handled EXCEPT ![Cmd(c)] = @ + 1]
          /\ core' = core \/ (Cmd(c) \in Core /\ core' = core \cup {Cmd(c)})
      BY <2>1, Zenon DEF Handle
    <3> QED BY <3>1, <2>0, <1>2
  <2>2. CASE HandleSwitch(c)
    <3>1. /\ epoch' = epoch \/ epoch' = epoch + 1
          /\ SwitchMem \/ KeepMem
      BY <2>2, Zenon DEF HandleSwitch
    <3>2. CASE SwitchMem
      BY <2>0, <3>1, <3>2 DEF SwitchMem, MemType
    <3>3. CASE KeepMem
      BY <2>0, <3>1, <3>3 DEF KeepMem
    <3> QED BY <3>1, <3>2, <3>3
  <2>3. CASE Finish(c)
    <3> DEFINE r == Recorded(Cmd(c), worker[c].outcome)
    <3>1. r \in {"absent", "accepted", "committed", "rejected"}
      BY <2>0, <1>2 DEF Recorded
    <3>2. dedup' = [dedup EXCEPT ![Cmd(c)] = r] /\ UNCHANGED <<epoch, mem, core, handled>>
      BY <2>3, Zenon DEF Finish
    <3> HIDE DEF r
    <3> QED BY <3>1, <3>2, <2>0
  <2>4. CASE UNCHANGED <<epoch, mem, dedup, core, handled>>
    BY <2>0, <2>4
  <2> QED BY <2>1, <2>2, <2>3, <2>4, Zenon DEF Moves, CallWrite, TakeWrite, TakeRead, EnterLane,
          CheckEpoch, DropLane, Leave
<1> QED BY <1>1, <1>3, <1>4, <1>5, <1>6, <1>7 DEF TypeOK

LEMMA TypeKept ==
    ASSUME Shape, LanesInv', [Next]_vars
    PROVE  TypeOK'
BY StepsSorted, AcceptTyped, EnqueueTyped, RefuseTyped, DequeueTyped, MovesTyped, EndsTyped,
   AsideTyped DEF Aside

LEMMA ScopesFitKept ==
    ASSUME Shape, [Next]_vars
    PROVE  ScopesFit'
<1>0. TypeOK /\ ScopesFit
  BY DEF Shape
<1>1. ASSUME NEW d \in Conns, NEW i \in Places(d)'
      PROVE  Scoped(JobAt(d, i))'
  <2>1. CASE JobAt(d, i)' = NoJob
    BY <2>1 DEF Scoped
  <2>2. CASE /\ i + Shift(d) \in Places(d) /\ JobAt(d, i + Shift(d)) # NoJob
             /\ SameButTicket(JobAt(d, i)', JobAt(d, i + Shift(d)))
    <3>1. Scoped(JobAt(d, i + Shift(d)))
      BY <2>2, <1>0 DEF ScopesFit
    <3> QED BY <2>2, <3>1 DEF Scoped, SameButTicket
  <2>3. CASE Arrives(d, i)
    BY <2>3 DEF Arrives, Stamped, Scoped
  <2> QED BY <2>1, <2>2, <2>3, JobsComeFrom
<1>2. ASSUME NEW d \in Conns
      PROVE  WorkerFits(d)'
  <2>0. WorkerFits(d) /\ worker[d] \in WorkerType /\ worker \in [Conns -> WorkerType]
    BY <1>0 DEF ScopesFit, TypeOK
  <2>1. CASE worker'[d] = worker[d]
    BY <2>0, <2>1 DEF WorkerFits, At, Cmd
  <2>2. CASE Ends(d)
    <3>1. worker'[d] = Idle
      BY <2>2, EndPlaces
    <3> QED BY <3>1 DEF WorkerFits, At, Idle
  <2>3. CASE Moves(d)
    <3>0. worker'[d].job = worker[d].job
      BY <2>3, MoveEffect
    <3>1. CASE CallWrite(d)
      BY <2>0, <3>0, <3>1 DEF CallWrite, Goto, WorkerFits, At, Cmd, WorkerType
    <3>2. CASE TakeWrite(d) \/ TakeRead(d)
      BY <2>0, <3>0, <3>2 DEF TakeWrite, TakeRead, Goto, WorkerFits, At, Cmd, WorkerType
    <3>3. CASE EnterLane(d) \/ Finish(d)
      BY <2>0, <3>0, <3>3 DEF EnterLane, Finish, Goto, WorkerFits, At, Cmd, WorkerType
    <3>4. CASE CheckEpoch(d)
      BY <2>0, <3>0, <3>4 DEF CheckEpoch, WorkerFits, At, Cmd, WorkerType
    <3>5. CASE Handle(d) \/ HandleSwitch(d)
      BY <2>0, <3>0, <3>5 DEF Handle, HandleSwitch, WorkerFits, At, Cmd, WorkerType
    <3>6. CASE DropLane(d)
      BY <2>0, <3>0, <3>6 DEF DropLane, Goto, WorkerFits, At, Cmd, WorkerType
    <3>7. CASE Leave(d) /\ worker[d].job.lane # NoLane
      BY <2>0, <3>0, <3>7 DEF Leave, Goto, WorkerFits, At, Cmd, WorkerType
    <3> QED BY <2>3, <3>1, <3>2, <3>3, <3>4, <3>5, <3>6, <3>7 DEF Moves
  <2>4. CASE Dequeue(d)
    <3>1. worker'[d] = [pc |-> IF Head(pipe[d]).lane = NoLane THEN "epoch" ELSE "barrier",
                        job |-> Head(pipe[d]), outcome |-> "none"]
      BY <1>0, <2>4, DequeuePlaces
    <3> QED BY <3>1 DEF WorkerFits, At
  <2> QED BY <2>1, <2>2, <2>3, <2>4, WorkerChanges
<1> QED BY <1>1, <1>2 DEF ScopesFit

LEMMA ShapeKept ==
    ASSUME Shape, LanesInv, [Next]_vars
    PROVE  Shape'
BY LanesKept, TypeKept, ScopesFitKept DEF Shape

-----------------------------------------------------------------------------
LEMMA BarrierKept ==
    ASSUME Shape, BarrierInv, [Next]_vars
    PROVE  BarrierInv'
<1>0. /\ TypeOK /\ worker \in [Conns -> WorkerType] /\ \A d \in Conns : WorkerFits(d)
      /\ Nobody \notin Conns /\ "maintenance" \notin Conns /\ Nobody # "maintenance"
  BY CommandsAssumption DEF Shape, TypeOK, ScopesFit, Nobody
<1>1. ASSUME UNCHANGED <<writer, readers, maint>>,
             \A d \in Conns : Holds(d)' => Holds(d) /\ worker'[d].job = worker[d].job
      PROVE  BarrierInv'
  BY <1>1 DEF BarrierInv, Cmd
<1>2. ASSUME NEW c \in Conns, Moves(c)
      PROVE  BarrierInv'
  <2>0. /\ worker'[c].job = worker[c].job
        /\ \A d \in Conns \ {c} : worker'[d] = worker[d]
    BY <1>2, MoveEffect
  <2>1. CASE TakeWrite(c)
    <3>1. /\ worker[c].pc = "queued" /\ writer = Nobody /\ readers = {} /\ readers' = readers
          /\ writer' = c /\ maint' = maint /\ worker'[c].pc = "lane" /\ Cmd(c) \in Global
      BY <1>0, <2>1 DEF TakeWrite, Goto, At, Free, WorkerFits, WorkerType
    <3>2. maint # "scanning"
      BY <3>1, <1>0 DEF BarrierInv
    <3>3. ASSUME NEW d \in Conns, d # c
          PROVE  ~Holds(d) /\ ~Holds(d)'
      BY <3>1, <3>3, <1>0, <2>0 DEF BarrierInv, Holds
    <3> QED BY <3>1, <3>2, <3>3, <2>0 DEF BarrierInv, Cmd
  <2>2. CASE TakeRead(c)
    <3>1. /\ Cmd(c) \notin Global /\ writer = Nobody /\ readers' = readers \cup {c}
          /\ writer' = writer /\ maint' = maint
      BY <2>2 DEF TakeRead
    <3>2. ASSUME NEW d \in Conns, d # c, Holds(d)'
          PROVE  Holds(d) /\ worker'[d] = worker[d]
      BY <3>2, <2>0 DEF Holds
    <3>3. ASSUME NEW d \in Conns, Holds(d)'
          PROVE  IF Cmd(d)' \in Global THEN writer' = d ELSE d \in readers'
      BY <3>1, <3>2, <3>3, <2>0 DEF BarrierInv, Cmd
    <3> QED BY <3>1, <3>3, <1>0 DEF BarrierInv
  <2>3. CASE Leave(c) /\ worker[c].job.lane # NoLane
    <3>1. /\ writer' = IF writer = c THEN Nobody ELSE writer
          /\ readers' = readers \ {c} /\ maint' = maint /\ Goto(c, "drop")
      BY <2>3, Zenon DEF Leave
    <3>2. ~Holds(c)'
      BY <3>1, <1>0 DEF Goto, Holds, WorkerType
    <3>3. ASSUME NEW d \in Conns, Holds(d)'
          PROVE  IF Cmd(d)' \in Global THEN writer' = d ELSE d \in readers'
      <4>1. d # c /\ worker'[d] = worker[d] /\ Holds(d)
        BY <3>2, <3>3, <2>0 DEF Holds
      <4> QED BY <4>1, <3>1 DEF BarrierInv, Cmd
    <3>4. maint' = "scanning" => writer' = "maintenance"
      BY <3>1, <1>0 DEF BarrierInv
    <3> QED BY <3>1, <3>3, <3>4 DEF BarrierInv
  <2>4. CASE ~TakeWrite(c) /\ ~TakeRead(c) /\ ~(Leave(c) /\ worker[c].job.lane # NoLane)
    <3>1. UNCHANGED <<writer, readers, maint>>
      BY <1>2, <2>4, Zenon DEF Moves, CallWrite, EnterLane, CheckEpoch, Handle, HandleSwitch,
           Finish, DropLane
    <3>2. Holds(c)' => Holds(c)
      <4>1. CASE CallWrite(c) \/ EnterLane(c)
        BY <1>0, <2>0, <4>1 DEF CallWrite, EnterLane, Goto, At, Holds, WorkerType
      <4>2. CASE CheckEpoch(c)
        BY <1>0, <2>0, <4>2 DEF CheckEpoch, At, Holds, WorkerType
      <4>3. CASE Handle(c) \/ HandleSwitch(c)
        BY <1>0, <2>0, <4>3 DEF Handle, HandleSwitch, At, Holds, WorkerType
      <4>4. CASE Finish(c) \/ DropLane(c)
        BY <1>0, <2>0, <4>4 DEF Finish, DropLane, Goto, At, Holds, WorkerType
      <4> QED BY <1>2, <2>4, <4>1, <4>2, <4>3, <4>4, Zenon DEF Moves
    <3>3. \A d \in Conns : Holds(d)' => Holds(d) /\ worker'[d].job = worker[d].job
      BY <3>2, <2>0 DEF Holds
    <3> QED BY <3>1, <3>3, <1>1
  <2> QED BY <1>2, <2>1, <2>2, <2>3, <2>4, Zenon DEF Moves
<1>3. ASSUME NEW c \in Conns, Dequeue(c)
      PROVE  BarrierInv'
  <2>1. UNCHANGED <<writer, readers, maint>>
    BY <1>3, Zenon DEF Dequeue
  <2>2. worker'[c] = [pc |-> IF Head(pipe[c]).lane = NoLane THEN "epoch" ELSE "barrier",
                      job |-> Head(pipe[c]), outcome |-> "none"]
        /\ \A d \in Conns \ {c} : worker'[d] = worker[d]
    BY <1>0, <1>3, DequeuePlaces
  <2>3. ~Holds(c)'
    BY <2>2 DEF Holds
  <2>4. \A d \in Conns : Holds(d)' => Holds(d) /\ worker'[d].job = worker[d].job
    BY <2>2, <2>3 DEF Holds
  <2> QED BY <2>1, <2>4, <1>1
<1>4. ASSUME NEW c \in Conns, Ends(c)
      PROVE  BarrierInv'
  <2>1. /\ UNCHANGED <<writer, readers, maint>>
        /\ worker'[c] = Idle /\ \A d \in Conns \ {c} : worker'[d] = worker[d]
    BY <1>4, EndEffect, EndPlaces
  <2>2. \A d \in Conns : Holds(d)' => Holds(d) /\ worker'[d].job = worker[d].job
    BY <2>1 DEF Holds, Idle
  <2> QED BY <2>1, <2>2, <1>1
<1>5. CASE MaintenanceStep
  <2>1. worker' = worker /\ readers' = readers
    BY <1>5, Zenon DEF MaintenanceStep
  <2>2. \A d \in Conns : Holds(d)' <=> Holds(d)
    BY <2>1 DEF Holds
  <2>3. CASE maint' = "waiting" /\ UNCHANGED writer
    BY <2>1, <2>2, <2>3 DEF BarrierInv, Cmd
  <2>4. CASE Free /\ maint' = "scanning" /\ writer' = "maintenance"
    <3>1. \A d \in Conns : ~Holds(d)
      BY <2>4, <1>0 DEF Free, BarrierInv
    <3> QED BY <2>1, <2>2, <2>4, <3>1 DEF BarrierInv, Free
  <2>5. CASE maint = "scanning" /\ maint' = "done" /\ writer' = Nobody
    <3>1. writer = "maintenance" /\ readers = {}
      BY <2>5, <1>0 DEF BarrierInv
    <3>2. \A d \in Conns : ~Holds(d)
      BY <3>1, <1>0 DEF BarrierInv
    <3> QED BY <2>1, <2>2, <2>5, <3>1, <3>2 DEF BarrierInv
  <2> QED BY <1>5, <2>3, <2>4, <2>5, Zenon DEF MaintenanceStep
<1>6. ASSUME UNCHANGED <<worker, writer, readers, maint>>
      PROVE  BarrierInv'
  BY <1>1, <1>6 DEF Holds
<1>7. ASSUME NEW c \in Conns, (\E m \in Commands : Accept(c, m)) \/ Enqueue(c) \/ Refuse(c)
      PROVE  UNCHANGED <<worker, writer, readers, maint>>
  BY <1>7, Zenon DEF Accept, Enqueue, Refuse
<1>8. CASE Aside
  BY <1>5, <1>6, <1>7, <1>8, Zenon DEF Aside, CoreAccepts, vars
<1> QED BY <1>2, <1>3, <1>4, <1>6, <1>7, <1>8, StepsSorted, Zenon

-----------------------------------------------------------------------------
(* The lane of a place that leads to it (not that of a command which has   *)
(* left it) is the one its scope's new commands are given.                 *)
Pends(c, i) == JobAt(c, i).lane # NoLane /\ (i = 0 => worker[c].pc \notin {"drop", "release"})

LEMMA ScopesByPends ==
    ScopesInv <=> \A c \in Conns : \A i \in Places(c) :
        Pends(c, i) => mapped[ScopeOf[JobAt(c, i).cmd]] = JobAt(c, i).lane
BY DEF ScopesInv, Pends

(* What pends after a step did before it, or has just been accepted.       *)
LEMMA PendsBefore ==
    ASSUME Shape, [Next]_vars, NEW d \in Conns, NEW i, i \in Places(d)', Pends(d, i)'
    PROVE  \/ /\ i + Shift(d) \in Places(d) /\ Pends(d, i + Shift(d))
              /\ SameButTicket(JobAt(d, i)', JobAt(d, i + Shift(d)))
           \/ Arrives(d, i)
<1>1. JobAt(d, i)'.lane # NoLane /\ JobAt(d, i)' # NoJob
  BY NoJobTyped DEF Pends
<1>2. TypeOK /\ Len(pipe[d]) \in Nat /\ Shift(d) \in {0, 1} /\ i \in Nat
  BY TypeFacts DEF Shape, Shift, Places
<1>3. ASSUME i + Shift(d) \in Places(d), JobAt(d, i + Shift(d)) # NoJob,
             SameButTicket(JobAt(d, i)', JobAt(d, i + Shift(d)))
      PROVE  Pends(d, i + Shift(d))
  <2>1. JobAt(d, i + Shift(d)).lane # NoLane
    BY <1>1, <1>3 DEF SameButTicket
  <2>2. ASSUME i + Shift(d) = 0
        PROVE  worker[d].pc \notin {"drop", "release"}
    <3>1. i = 0 /\ Shift(d) = 0 /\ worker'[d].pc \notin {"drop", "release"}
      BY <1>2, <2>2 DEF Pends
    <3>2. CASE worker'[d] = worker[d]
      BY <3>1, <3>2
    <3>3. CASE Ends(d)
      <4>1. JobAt(d, 0)' = NoJob
        BY <3>3, EndPlaces
      <4> QED BY <4>1, <3>1, <1>1
    <3>4. CASE Moves(d)
      <4>1. worker[d] \in WorkerType
        BY <1>2, TypeFacts
      <4>2. worker[d].pc = "release" => FALSE
        BY <3>4, Zenon DEF Moves, CallWrite, TakeWrite, TakeRead, EnterLane, CheckEpoch, Handle,
             HandleSwitch, Finish, DropLane, Leave, At
      <4>3. worker[d].pc = "drop" => DropLane(d)
        BY <3>4, Zenon DEF Moves, CallWrite, TakeWrite, TakeRead, EnterLane, CheckEpoch, Handle,
             HandleSwitch, Finish, Leave, At
      <4>4. DropLane(d) => worker'[d].pc = "release"
        BY <1>2, <4>1 DEF DropLane, Goto, TypeOK, WorkerType
      <4> QED BY <3>1, <4>2, <4>3, <4>4
    <3>5. CASE Dequeue(d)
      <4>1. Len(pipe'[d]) = Len(pipe[d]) - 1
        BY <1>2, <3>5, DequeuePlaces
      <4>2. Shift(d) = 1
        BY <1>2, <4>1 DEF Shift
      <4> QED BY <4>2, <3>1
    <3> QED BY <3>2, <3>3, <3>4, <3>5, WorkerChanges
  <2> QED BY <2>1, <2>2 DEF Pends
<1> QED BY <1>1, <1>3, JobsComeFrom

LEMMA ScopesKept ==
    ASSUME Shape, ScopesInv, [Next]_vars
    PROVE  ScopesInv'
<1> SUFFICES ASSUME NEW d \in Conns, NEW i, i \in Places(d)', Pends(d, i)'
             PROVE  mapped'[ScopeOf[JobAt(d, i)'.cmd]] = JobAt(d, i)'.lane
  BY DEF ScopesInv, Pends
<1>0. TypeOK /\ Len(pipe[d]) \in Nat
  BY TypeFacts DEF Shape
<1>1. CASE Arrives(d, i)
  <2>1. PICK m \in Commands :
            /\ Accept(d, m) /\ TakenIn(m) /\ i = Len(pipe[d]) + 1
            /\ \E lane \in LaneObjects \cup {NoLane} : JobAt(d, i)' = Stamped(m, lane)
    BY <1>1 DEF Arrives
  <2>2. PICK lane \in LaneObjects \cup {NoLane} :
            /\ accepting' = [accepting EXCEPT ![d] = Stamped(m, lane)]
            /\ lane = NoLane <=> ScopeOf[m] = NoScope
            /\ \/ UNCHANGED <<lanes, mapped>> /\ (lane # NoLane => mapped[ScopeOf[m]] = lane)
               \/ lane # NoLane /\ mapped' = [mapped EXCEPT ![ScopeOf[m]] = lane]
    BY <2>1, AcceptEffect
  <2>3. JobAt(d, i)' = Stamped(m, lane)
    <3>1. accepting[d] = NoJob /\ pipe' = pipe /\ worker' = worker
      BY <2>1, AcceptEffect
    <3>2. i # 0 /\ ~(i <= Len(pipe'[d])) /\ accepting'[d] = Stamped(m, lane)
      BY <3>1, <2>1, <2>2, <1>0 DEF TypeOK
    <3> QED BY <3>2 DEF JobAt
  <2>4. lane # NoLane /\ JobAt(d, i)'.lane = lane /\ JobAt(d, i)'.cmd = m
    BY <2>3 DEF Pends, Stamped
  <2>5. ScopeOf[m] \in Scopes
    BY <2>2, <2>4, CommandsAssumption
  <2>6. mapped'[ScopeOf[m]] = lane
    BY <2>2, <2>4, <2>5, <1>0 DEF TypeOK
  <2> QED BY <2>4, <2>6
<1>2. ASSUME NEW p \in Places(d), p = i + Shift(d), Pends(d, p),
             SameButTicket(JobAt(d, i)', JobAt(d, p))
      PROVE  mapped'[ScopeOf[JobAt(d, i)'.cmd]] = JobAt(d, i)'.lane
  <2> DEFINE k == ScopeOf[JobAt(d, p).cmd]
             o == JobAt(d, p).lane
  <2>1. mapped[k] = o /\ o \in LaneObjects /\ o # NoLane /\ k \in Scopes
    <3>1. JobAt(d, p) # NoJob /\ JobAt(d, p).cmd \in Commands /\ o \in LaneObjects /\ o # NoLane
      BY <1>0, <1>2, LaneOfPlace DEF Pends
    <3>2. k # NoScope
      BY <3>1 DEF Shape, ScopesFit, Scoped
    <3> QED BY <3>1, <3>2, <1>2, CommandsAssumption DEF ScopesInv, Pends
  <2>2. mapped'[k] = mapped[k]
    <3>1. ASSUME NEW c \in Conns, NEW m \in Commands, Accept(c, m), TakenIn(m)
          PROVE  mapped'[k] = mapped[k]
      <4>1. \/ mapped' = mapped
            \/ /\ mapped[ScopeOf[m]] = NoLane
               /\ \E lane \in LaneObjects \cup {NoLane} : mapped' = [mapped EXCEPT ![ScopeOf[m]] = lane]
        BY <3>1, AcceptEffect
      <4> HIDE DEF k, o
      <4> QED BY <4>1, <2>1, <1>0 DEF TypeOK
    <3>2. ASSUME NEW c \in Conns, Refuse(c)
          PROVE  mapped'[k] = mapped[k]
      <4> DEFINE job == accepting[c]
                 last == Len(pipe[c]) + 1
      <4>1. PICK ls : \/ mapped' = mapped
                      \/ /\ job.lane # NoLane /\ Reclaimable(job, ls)
                         /\ mapped' = [mapped EXCEPT ![ScopeOf[job.cmd]] = NoLane]
        BY <3>2, Zenon DEF Refuse
      <4>2. /\ JobAt(c, last) = job /\ job # NoJob /\ last \in Places(c)
        BY <1>0, <3>2, RefusePlaces, TypeFacts DEF Places
      <4>3. ASSUME job.lane # NoLane, Reclaimable(job, ls), ScopeOf[job.cmd] = k
            PROVE  FALSE
        <5>1. Scoped(job) /\ mapped[k] = job.lane
          BY <4>2, <4>3 DEF Shape, ScopesFit, Reclaimable
        <5>2. JobAt(d, p).lane = JobAt(c, last).lane
          BY <5>1, <4>2, <2>1
        <5>3. d = c /\ p = last
          BY <5>1, <5>2, <4>2, <4>3, <1>0, ReclaimedIsUnused
        <5>4. Shift(d) = 0 /\ i = p
          BY <3>2, <5>3, <1>0, <1>2, RefusePlaces DEF Shift, Places
        <5>5. JobAt(d, i)' = NoJob
          <6>1. accepting'[c] = NoJob /\ pipe' = pipe
            BY <3>2, <1>0 DEF Refuse, TypeOK
          <6> QED BY <6>1, <5>3, <5>4, <1>0 DEF JobAt
        <5> QED BY <5>5, NoJobTyped DEF Pends
      <4> HIDE DEF k, job
      <4> QED BY <4>1, <4>3, <1>0, <2>1 DEF TypeOK
    <3>3. ASSUME NEW c \in Conns, DropLane(c)
          PROVE  mapped'[k] = mapped[k]
      <4> DEFINE job == worker[c].job
      <4>1. /\ worker[c].pc = "drop"
            /\ \/ mapped' = mapped
               \/ /\ Reclaimable(job, lanes)
                  /\ mapped' = [mapped EXCEPT ![ScopeOf[job.cmd]] = NoLane]
        BY <3>3, Zenon DEF DropLane, At, Cmd
      <4>2. /\ JobAt(c, 0) = job /\ 0 \in Places(c) /\ job.lane # NoLane /\ job # NoJob
        BY <1>0, <4>1, TypeFacts, NoJobTyped DEF Places, JobAt, Shape, ScopesFit, WorkerFits
      <4>3. ASSUME Reclaimable(job, lanes), ScopeOf[job.cmd] = k
            PROVE  FALSE
        <5>1. Scoped(job) /\ mapped[k] = job.lane
          BY <4>2, <4>3 DEF Shape, ScopesFit, Reclaimable
        <5>2. JobAt(d, p).lane = JobAt(c, 0).lane
          BY <5>1, <4>2, <2>1
        <5>3. d = c /\ p = 0
          BY <5>1, <5>2, <4>2, <4>3, <1>0, ReclaimedIsUnused
        <5> QED BY <5>3, <4>1, <1>2 DEF Pends
      <4> HIDE DEF k, job
      <4> QED BY <4>1, <4>3, <1>0, <2>1 DEF TypeOK
    <3>4. ASSUME NEW c \in Conns, Moves(c), ~DropLane(c)
          PROVE  mapped' = mapped
      BY <3>4, Zenon DEF Moves, CallWrite, TakeWrite, TakeRead, EnterLane, CheckEpoch, Handle,
           HandleSwitch, Finish, Leave
    <3>5. ASSUME NEW c \in Conns, Enqueue(c) \/ Dequeue(c) \/ Ends(c)
          PROVE  mapped' = mapped
      BY <3>5, EndEffect DEF Enqueue, Dequeue
    <3>6. ASSUME Aside
          PROVE  mapped' = mapped
      BY <3>6, Zenon DEF Aside, Accept, CoreAccepts, MaintenanceStep, vars
    <3> HIDE DEF k, o
    <3> QED BY <3>1, <3>2, <3>3, <3>4, <3>5, <3>6, StepsSorted
  <2> QED BY <2>1, <2>2, <1>2 DEF SameButTicket
<1> QED BY <1>1, <1>2, PendsBefore

-----------------------------------------------------------------------------
(* What a switch does, whether it succeeds or not.                         *)
LEMMA SwitchEffect ==
    ASSUME NEW c, HandleSwitch(c)
    PROVE  /\ epoch' = epoch \/ epoch' = epoch + 1
           /\ \/ /\ mem' = [opened |-> mem.opened + 1, epoch |-> epoch + 1]
                 /\ mem'.opened = mem.opened + 1 /\ mem'.epoch = epoch + 1
                 /\ dedup' = [m \in Commands |-> "absent"]
                 /\ handled' = [m \in Commands |-> 0]
                 /\ core' = {}
              \/ UNCHANGED <<mem, dedup, handled, core>>
<1>1. (epoch' = epoch \/ epoch' = epoch + 1) /\ (SwitchMem \/ KeepMem)
  BY Zenon DEF HandleSwitch
<1>2. SwitchMem => mem'.opened = mem.opened + 1 /\ mem'.epoch = epoch + 1
  BY DEF SwitchMem
<1> QED BY <1>1, <1>2 DEF SwitchMem, KeepMem

(* How a step changes the MEM and its epoch.                               *)
LEMMA MemChanges ==
    ASSUME Shape, [Next]_vars
    PROVE  \/ UNCHANGED <<epoch, mem>>
           \/ \E c \in Conns : At(c, "run") /\ Cmd(c) \in Switches /\ HandleSwitch(c)
<1>1. ASSUME NEW c \in Conns, Moves(c), ~HandleSwitch(c)
      PROVE  UNCHANGED <<epoch, mem>>
  BY <1>1, Zenon DEF Moves, CallWrite, TakeWrite, TakeRead, EnterLane, CheckEpoch, Handle,
       Finish, Leave, DropLane
<1>2. ASSUME NEW c \in Conns, (\E m \in Commands : Accept(c, m)) \/ Enqueue(c) \/ Refuse(c) \/ Dequeue(c) \/ Ends(c)
      PROVE  UNCHANGED <<epoch, mem>>
  BY <1>2, EndEffect DEF Accept, Enqueue, Refuse, Dequeue
<1>3. ASSUME Aside
      PROVE  UNCHANGED <<epoch, mem>>
  BY <1>2, <1>3, Zenon DEF Aside, CoreAccepts, MaintenanceStep, vars
<1>4. \A c \in Conns : HandleSwitch(c) => At(c, "run") /\ Cmd(c) \in Switches
  BY DEF HandleSwitch
<1> QED BY <1>1, <1>2, <1>3, <1>4, StepsSorted

(* How a worker comes to run and to finish.                                *)
LEMMA WhatRuns ==
    ASSUME Shape, [Next]_vars, NEW d \in Conns, worker'[d] # worker[d]
    PROVE  /\ worker'[d].pc = "run" => CheckEpoch(d) /\ ~Stale(d) /\ worker'[d].job = worker[d].job
           /\ worker'[d].pc = "finish" => /\ CheckEpoch(d) \/ Handle(d) \/ HandleSwitch(d)
                                          /\ worker'[d].job = worker[d].job
<1>1. worker[d] \in WorkerType /\ worker \in [Conns -> WorkerType]
  BY DEF Shape, TypeOK
<1>2. CASE Ends(d)
  BY <1>2, EndPlaces DEF Idle
<1>3. CASE Dequeue(d)
  <2>1. worker'[d] = [pc |-> IF Head(pipe[d]).lane = NoLane THEN "epoch" ELSE "barrier",
                      job |-> Head(pipe[d]), outcome |-> "none"]
    BY <1>3, DequeuePlaces DEF Shape
  <2> QED BY <2>1
<1>4. CASE Moves(d)
  <2>1. worker'[d].job = worker[d].job
    BY <1>4, MoveEffect
  <2>2. CASE CheckEpoch(d)
    <3>1. worker'[d].pc = IF Stale(d) THEN "finish" ELSE "run"
      BY <1>1, <2>2 DEF CheckEpoch, WorkerType
    <3> QED BY <2>1, <2>2, <3>1
  <2>3. CASE Handle(d) \/ HandleSwitch(d)
    <3>1. worker'[d].pc = "finish"
      BY <1>1, <2>3 DEF Handle, HandleSwitch, WorkerType
    <3> QED BY <2>1, <2>3, <3>1
  <2>4. CASE CallWrite(d) \/ TakeWrite(d) \/ TakeRead(d) \/ EnterLane(d) \/ Finish(d) \/ DropLane(d)
             \/ (Leave(d) /\ worker[d].job.lane # NoLane)
    <3>1. \E pc \in {"queued", "lane", "epoch", "leave", "release", "drop"} : Goto(d, pc)
      BY <2>4, Zenon DEF CallWrite, TakeWrite, TakeRead, EnterLane, Finish, DropLane, Leave
    <3>2. worker'[d].pc \notin {"run", "finish"}
      BY <3>1, <1>1 DEF Goto, WorkerType
    <3> QED BY <3>2
  <2> QED BY <1>4, <2>2, <2>3, <2>4 DEF Moves
<1> QED BY <1>2, <1>3, <1>4, WorkerChanges

LEMMA AcceptingChanges ==
    ASSUME Shape, [Next]_vars, NEW d \in Conns
    PROVE  accepting'[d] \in {accepting[d], NoJob} \/ \E m \in Commands : Accept(d, m) /\ TakenIn(m)
<1>1. accepting \in [Conns -> JobType]
  BY DEF Shape, TypeOK
<1>2. ASSUME NEW c \in Conns, NEW m \in Commands, Accept(c, m), TakenIn(m), c # d
      PROVE  accepting'[d] = accepting[d]
  <2>1. \E job : accepting' = [accepting EXCEPT ![c] = job]
    BY <1>2, AcceptEffect
  <2> QED BY <2>1, <1>1, <1>2
<1>3. ASSUME NEW c \in Conns, Enqueue(c) \/ Refuse(c)
      PROVE  accepting'[d] \in {accepting[d], NoJob}
  BY <1>1, <1>3 DEF Enqueue, Refuse
<1>4. ASSUME NEW c \in Conns, Dequeue(c) \/ Moves(c) \/ Ends(c)
      PROVE  accepting' = accepting
  BY <1>4, MoveEffect, EndEffect DEF Dequeue
<1>5. ASSUME Aside
      PROVE  accepting' = accepting
  BY <1>5, Zenon DEF Aside, Accept, CoreAccepts, MaintenanceStep, vars
<1> QED BY <1>2, <1>3, <1>4, <1>5, StepsSorted

(* A switch runs alone: nothing that reads the epoch is under way.         *)
SwitchesAlone == SwitchRunning => EpochReaders = {}

LEMMA SwitchesAloneKept ==
    ASSUME Shape, SwitchesAlone, [Next]_vars
    PROVE  SwitchesAlone'
<1> SUFFICES ASSUME NEW e \in Conns, worker'[e].pc = "run", worker'[e].job.cmd \in Switches,
                    NEW x \in Conns, x \in EpochReaders'
             PROVE  FALSE
  BY DEF SwitchesAlone, SwitchRunning, EpochReaders, At, Cmd
<1>1. \/ worker'[x].pc \in {"run", "finish"} /\ worker'[x].job.cmd \notin Switches
      \/ accepting'[x] # NoJob
  BY DEF EpochReaders, Cmd
<1>2. CASE SwitchRunning
  <2>1. EpochReaders = {}
    BY <1>2 DEF SwitchesAlone
  <2>2. accepting[x] = NoJob
    BY <2>1 DEF EpochReaders
  <2>3. accepting'[x] = NoJob
    BY <1>2, <2>2, AcceptingChanges DEF Accept
  <2>4. worker'[x] # worker[x]
    BY <1>1, <2>1, <2>3 DEF EpochReaders, Cmd
  <2>5. worker[x].job.cmd \notin Switches /\ (CheckEpoch(x) \/ Handle(x) \/ HandleSwitch(x))
    BY <1>1, <2>3, <2>4, WhatRuns
  <2>6. ~CheckEpoch(x) /\ ~HandleSwitch(x)
    BY <1>2, <2>5 DEF CheckEpoch, HandleSwitch, Cmd
  <2>7. x \in EpochReaders
    BY <2>5, <2>6 DEF Handle, At, EpochReaders, Cmd
  <2> QED BY <2>1, <2>7
<1>3. CASE ~SwitchRunning
  <2>1. worker'[e] # worker[e]
    BY <1>3 DEF SwitchRunning, At, Cmd
  <2>2. CheckEpoch(e) /\ worker'[e].job = worker[e].job
    BY <2>1, WhatRuns
  <2>3. EpochReaders = {} /\ accepting' = accepting
    BY <2>2 DEF CheckEpoch, Cmd
  <2>4. worker'[x] = worker[x] \/ x = e
    BY <2>2, MoveEffect DEF Moves
  <2> QED BY <1>1, <2>3, <2>4 DEF EpochReaders, Cmd
<1> QED BY <1>2, <1>3

LEMMA EpochsKept ==
    ASSUME Shape, EpochsInv, [Next]_vars
    PROVE  EpochsInv'
<1>0. TypeOK /\ epoch \in Nat /\ mem \in MemType /\ epoch' \in Nat
  <2>1. TypeOK /\ epoch \in Nat /\ mem \in MemType
    BY DEF Shape, TypeOK
  <2>2. epoch' \in {epoch, epoch + 1}
    BY <2>1, MemChanges DEF HandleSwitch
  <2> QED BY <2>1, <2>2
(* Between switches nothing changes for those that are under way.          *)
<1>1. ASSUME NEW job, NEW old, SameButTicket(job, old), old \in JobType, old # NoJob,
             old.epoch <= epoch, old.mem.opened <= mem.opened,
             (old.epoch = epoch /\ mem.epoch <= epoch) => old.mem = mem
      PROVE  /\ job.epoch <= epoch' /\ job.mem.opened <= mem'.opened
             /\ (job.epoch = epoch' /\ mem'.epoch <= epoch') => job.mem = mem'
  <2>0. /\ job.epoch \in Nat /\ job.epoch <= epoch /\ job.mem.opened <= mem.opened
        /\ (job.epoch = epoch /\ mem.epoch <= epoch) => job.mem = mem
        /\ job.mem.opened \in Nat /\ mem.opened \in Nat
    BY <1>1, JobFacts, <1>0 DEF SameButTicket, MemType
  <2>1. CASE UNCHANGED <<epoch, mem>>
    BY <2>0, <2>1
  <2>2. ASSUME NEW c \in Conns, HandleSwitch(c)
        PROVE  /\ job.epoch <= epoch' /\ job.mem.opened <= mem'.opened
               /\ (job.epoch = epoch' /\ mem'.epoch <= epoch') => job.mem = mem'
    <3>1. /\ epoch' = epoch \/ epoch' = epoch + 1
          /\ \/ mem'.opened = mem.opened + 1 /\ mem'.epoch = epoch + 1
             \/ mem' = mem
      BY <2>2, SwitchEffect
    <3> QED BY <2>0, <3>1, <1>0
  <2> QED BY <2>1, <2>2, MemChanges
<1>2. mem'.epoch <= epoch' + 1
  <2>0. mem.epoch <= epoch + 1 /\ mem.epoch \in Nat
    BY <1>0 DEF EpochsInv, MemType
  <2>1. ASSUME NEW c \in Conns, HandleSwitch(c)
        PROVE  mem'.epoch <= epoch' + 1
    <3>1. /\ epoch' = epoch \/ epoch' = epoch + 1
          /\ mem'.epoch = epoch + 1 \/ mem' = mem
      BY <2>1, SwitchEffect
    <3> QED BY <2>0, <3>1, <1>0
  <2> QED BY <2>0, <2>1, <1>0, MemChanges
<1>3. ASSUME NEW d \in Conns, NEW i, i \in Places(d)', JobAt(d, i)' # NoJob
      PROVE  /\ JobAt(d, i)'.epoch <= epoch'
             /\ JobAt(d, i)'.mem.opened <= mem'.opened
             /\ (JobAt(d, i)'.epoch = epoch' /\ mem'.epoch <= epoch') => JobAt(d, i)'.mem = mem'
  <2>1. CASE /\ i + Shift(d) \in Places(d) /\ JobAt(d, i + Shift(d)) # NoJob
             /\ SameButTicket(JobAt(d, i)', JobAt(d, i + Shift(d)))
    <3> DEFINE old == JobAt(d, i + Shift(d))
    <3>1. old \in JobType
      BY <1>0, <2>1, PlacesTyped
    <3>2. /\ old.epoch <= epoch /\ old.mem.opened <= mem.opened
          /\ (old.epoch = epoch /\ ~HalfSwitched) => old.mem = mem
      BY <2>1 DEF EpochsInv
    <3>3. mem.epoch <= epoch => ~HalfSwitched
      BY <1>0 DEF HalfSwitched, MemType
    <3> HIDE DEF old
    <3> QED BY <1>1, <2>1, <3>1, <3>2, <3>3 DEF old
  <2>2. CASE Arrives(d, i)
    <3>1. /\ JobAt(d, i)'.epoch = epoch /\ JobAt(d, i)'.mem = mem
          /\ epoch' = epoch /\ mem' = mem
      BY <2>2 DEF Arrives, Stamped, Accept
    <3> QED BY <3>1, <1>0 DEF MemType
  <2> QED BY <1>3, <2>1, <2>2, JobsComeFrom
<1>4. ASSUME NEW d \in Conns, worker'[d].pc = "run", worker'[d].job.cmd \notin Switches
      PROVE  worker'[d].job.epoch = epoch'
  <2>1. CASE worker'[d] = worker[d]
    <3>1. At(d, "run") /\ Cmd(d) \notin Switches
      BY <1>4, <2>1 DEF At, Cmd
    <3>2. d \in EpochReaders
      BY <3>1 DEF EpochReaders, At
    <3>3. ~SwitchRunning
      BY <3>2 DEF EpochsInv
    <3>4. epoch' = epoch
      BY <3>3, MemChanges DEF SwitchRunning
    <3> QED BY <2>1, <3>1, <3>4 DEF EpochsInv
  <2>2. CASE worker'[d] # worker[d]
    <3>1. CheckEpoch(d) /\ ~Stale(d) /\ worker'[d].job = worker[d].job
      BY <1>4, <2>2, WhatRuns
    <3> QED BY <3>1, <1>4 DEF CheckEpoch, Stale, Cmd
  <2> QED BY <2>1, <2>2
<1>5. SwitchesAlone'
  BY SwitchesAloneKept DEF EpochsInv, SwitchesAlone
<1>6. HalfSwitched' <=> ~(mem'.epoch <= epoch')
  <2>1. mem'.epoch \in Nat
    <3>1. ASSUME NEW c \in Conns, HandleSwitch(c)
          PROVE  mem'.epoch = epoch + 1 \/ mem' = mem
      BY <3>1, SwitchEffect
    <3> QED BY <1>0, <3>1, MemChanges DEF MemType
  <2> QED BY <1>0, <2>1 DEF HalfSwitched
<1> QED BY <1>2, <1>3, <1>4, <1>5, <1>6 DEF EpochsInv, SwitchesAlone, At, Cmd

-----------------------------------------------------------------------------
(* Nothing under way was accepted in a MEM that has just been opened.      *)
LEMMA NewMemIsNobodys ==
    ASSUME Shape, EpochsInv, [Next]_vars, mem'.opened = mem.opened + 1,
           NEW d \in Conns, NEW i, i \in Places(d)', JobAt(d, i)' # NoJob
    PROVE  JobAt(d, i)'.mem # mem'
<1>1. TypeOK /\ mem.opened \in Nat
  BY DEF Shape, TypeOK, MemType
<1>2. ~Arrives(d, i)
  <2>1. Arrives(d, i) => mem' = mem
    BY DEF Arrives, Accept
  <2> QED BY <1>1, <2>1
<1> DEFINE old == JobAt(d, i + Shift(d))
<1>3. i + Shift(d) \in Places(d) /\ old # NoJob /\ JobAt(d, i)'.mem = old.mem
  BY <1>2, JobsComeFrom DEF SameButTicket
<1>4. old.mem.opened <= mem.opened /\ old.mem.opened \in Nat
  BY <1>1, <1>3, PlacesTyped, JobFacts DEF EpochsInv, MemType
<1> HIDE DEF old
<1> QED BY <1>1, <1>3, <1>4

(* What is to be handled was to be handled before, or has just come.       *)
LEMMA ToHandleBefore ==
    ASSUME Shape, [Next]_vars, mem' = mem, NEW m \in Commands,
           NEW d \in Conns, NEW i, i \in Places(d)', ToHandle(d, i, m)'
    PROVE  \/ i + Shift(d) \in Places(d) /\ ToHandle(d, i + Shift(d), m)
           \/ Accept(d, m) /\ TakenIn(m) /\ i = Len(pipe[d]) + 1
<1>1. TypeOK /\ Len(pipe[d]) \in Nat /\ Shift(d) \in {0, 1} /\ i \in Nat
  BY TypeFacts DEF Shape, Shift, Places
<1>2. JobAt(d, i)'.cmd = m /\ JobAt(d, i)'.mem = mem /\ JobAt(d, i)' # NoJob
  BY CommandsAssumption DEF ToHandle, NoJob
<1>3. CASE Arrives(d, i)
  BY <1>2, <1>3 DEF Arrives, Stamped
<1>4. CASE /\ i + Shift(d) \in Places(d) /\ JobAt(d, i + Shift(d)) # NoJob
           /\ SameButTicket(JobAt(d, i)', JobAt(d, i + Shift(d)))
  <2> DEFINE Stages == {"barrier", "queued", "lane", "epoch", "run"}
  <2>1. ASSUME i + Shift(d) = 0
        PROVE  worker[d].pc \in Stages
    <3>1. i = 0 /\ Shift(d) = 0 /\ worker'[d].pc \in Stages
      BY <1>1, <2>1 DEF ToHandle
    <3>2. CASE worker'[d] = worker[d]
      BY <3>1, <3>2
    <3>3. CASE Ends(d)
      BY <3>1, <3>3, EndPlaces DEF Idle
    <3>4. CASE Moves(d)
      <4>1. worker[d] \in WorkerType /\ worker \in [Conns -> WorkerType]
        BY <1>1, TypeFacts DEF TypeOK
      <4>2. CASE CallWrite(d) \/ TakeWrite(d) \/ TakeRead(d) \/ EnterLane(d) \/ CheckEpoch(d)
        BY <4>2 DEF CallWrite, TakeWrite, TakeRead, EnterLane, CheckEpoch, At
      <4>3. CASE Handle(d) \/ HandleSwitch(d)
        BY <4>3 DEF Handle, HandleSwitch, At
      <4>4. CASE Finish(d) \/ DropLane(d) \/ (Leave(d) /\ worker[d].job.lane # NoLane)
        <5>1. \E pc \in {"leave", "release", "drop"} : Goto(d, pc)
          BY <4>4, Zenon DEF Finish, DropLane, Leave
        <5>2. worker'[d].pc \in {"leave", "release", "drop"}
          BY <5>1, <4>1 DEF Goto, WorkerType
        <5> QED BY <5>2, <3>1
      <4> QED BY <3>4, <4>2, <4>3, <4>4 DEF Moves
    <3>5. CASE Dequeue(d)
      <4>1. Len(pipe'[d]) = Len(pipe[d]) - 1
        BY <1>1, <3>5, DequeuePlaces
      <4>2. Shift(d) = 1
        BY <1>1, <4>1 DEF Shift
      <4> QED BY <4>2, <3>1
    <3> QED BY <3>2, <3>3, <3>4, <3>5, WorkerChanges
  <2> QED BY <2>1, <1>2, <1>4 DEF ToHandle, SameButTicket
<1> QED BY <1>2, <1>3, <1>4, JobsComeFrom

(* A command that has a record is not counted as handled, nor does its     *)
(* record disappear, but by these steps.                                   *)
LEMMA RecordChanges ==
    ASSUME Shape, [Next]_vars, mem' = mem, NEW m \in Commands \ (Core \cup Sensitive)
    PROVE  /\ dedup'[m] = "absent" => dedup[m] = "absent"
           /\ \/ handled'[m] = handled[m]
              \/ \E c \in Conns : /\ worker[c].pc = "run" /\ worker'[c].pc = "finish"
                                  /\ worker[c].job.cmd = m /\ worker[c].job.mem = mem
                                  /\ handled'[m] = handled[m] + 1
                                  /\ ~\E d \in Conns : \E n \in Commands : Accept(d, n)
<1> DEFINE Goal == /\ dedup'[m] = "absent" => dedup[m] = "absent"
                   /\ \/ handled'[m] = handled[m]
                      \/ \E c \in Conns : /\ worker[c].pc = "run" /\ worker'[c].pc = "finish"
                                          /\ worker[c].job.cmd = m /\ worker[c].job.mem = mem
                                          /\ handled'[m] = handled[m] + 1
                                          /\ ~\E d \in Conns : \E n \in Commands : Accept(d, n)
<1>0. /\ dedup \in [Commands -> {"absent", "accepted", "committed", "rejected"}]
      /\ handled \in [Commands -> Nat] /\ worker \in [Conns -> WorkerType]
      /\ mem.opened \in Nat
  BY DEF Shape, TypeOK, MemType
<1>1. CASE UNCHANGED <<dedup, handled>>
  BY <1>1
<1>2. ASSUME NEW c \in Conns, NEW n \in Commands, Accept(c, n), TakenIn(n)
      PROVE  Goal
  <2>1. dedup' = [dedup EXCEPT ![n] = "accepted"] /\ handled' = handled
    BY <1>2, AcceptEffect
  <2> QED BY <2>1, <1>0
<1>3. ASSUME NEW c \in Conns, Refuse(c)
      PROVE  Goal
  <2>1. dedup' = [dedup EXCEPT ![accepting[c].cmd] = "rejected"] /\ handled' = handled
    BY <1>3, Zenon DEF Refuse
  <2> QED BY <2>1, <1>0
<1>4. ASSUME NEW c \in Conns, Finish(c)
      PROVE  Goal
  <2> DEFINE r == Recorded(Cmd(c), worker[c].outcome)
  <2>1. dedup' = [dedup EXCEPT ![Cmd(c)] = r] /\ handled' = handled
    BY <1>4, Zenon DEF Finish
  <2>2. Cmd(c) = m => r # "absent"
    BY DEF Recorded
  <2> HIDE DEF r
  <2> QED BY <2>1, <2>2, <1>0
<1>5. ASSUME NEW c \in Conns, HandleSwitch(c)
      PROVE  Goal
  <2>1. UNCHANGED <<dedup, handled>>
    BY <1>0, <1>5, SwitchEffect
  <2> QED BY <2>1
<1>6. ASSUME NEW c \in Conns, Handle(c)
      PROVE  Goal
  <2>1. dedup' = dedup /\ worker[c].pc = "run" /\ accepting' = accepting /\ sent' = sent
    BY <1>6 DEF Handle, At
  <2>2. worker'[c].pc = "finish"
    BY <1>0, <1>6 DEF Handle, WorkerType
  <2>3. CASE handled' = handled
    BY <2>1, <2>3
  <2>4. CASE worker[c].job.mem = mem /\ handled' = [handled EXCEPT ![Cmd(c)] = @ + 1]
    <3>1. ASSUME NEW d \in Conns, NEW n \in Commands, Accept(d, n)
          PROVE  FALSE
      <4>1. sent' = [sent EXCEPT ![n] = @ + 1] /\ sent \in [Commands -> Nat]
        BY <3>1, Zenon DEF Accept, Shape, TypeOK
      <4>2. sent'[n] = sent[n] + 1 /\ sent[n] \in Nat
        BY <4>1
      <4> QED BY <4>2, <2>1
    <3>2. CASE Cmd(c) = m
      <4>1. handled'[m] = handled[m] + 1
        BY <2>4, <3>2, <1>0
      <4> QED BY <2>1, <2>2, <2>4, <3>1, <3>2, <4>1 DEF Cmd
    <3>3. CASE Cmd(c) # m
      BY <2>1, <2>4, <3>3, <1>0
    <3> QED BY <3>2, <3>3
  <2> QED BY <1>6, <2>3, <2>4, Zenon DEF Handle
<1>7. ASSUME NEW c \in Conns, Moves(c), ~Finish(c), ~Handle(c), ~HandleSwitch(c)
      PROVE  UNCHANGED <<dedup, handled>>
  BY <1>7, Zenon DEF Moves, CallWrite, TakeWrite, TakeRead, EnterLane, CheckEpoch, DropLane, Leave
<1>8. ASSUME NEW c \in Conns, Enqueue(c) \/ Dequeue(c) \/ Ends(c)
      PROVE  UNCHANGED <<dedup, handled>>
  BY <1>8, EndEffect DEF Enqueue, Dequeue
<1>9. ASSUME Aside
      PROVE  Goal
  <2>1. CASE UNCHANGED <<dedup, handled>>
    BY <1>1, <2>1
  <2>2. ASSUME NEW n \in Commands, CoreAccepts(n)
        PROVE  Goal
    <3>1. dedup' = [dedup EXCEPT ![n] = "committed"] /\ handled' = handled
      BY <2>2, Zenon DEF CoreAccepts
    <3> QED BY <3>1, <1>0
  <2> QED BY <1>9, <2>1, <2>2, Zenon DEF Aside, Accept, MaintenanceStep, vars
<1> HIDE DEF Goal
<1>10. Goal
  <2>1. UNCHANGED <<dedup, handled>> => Goal
    BY <1>1 DEF Goal
  <2> QED BY <2>1, <1>2, <1>3, <1>4, <1>5, <1>6, <1>7, <1>8, <1>9, StepsSorted
<1> QED BY <1>10 DEF Goal

LEMMA OnceKept ==
    ASSUME Shape, EpochsInv, OnceInv, [Next]_vars
    PROVE  OnceInv'
<1> SUFFICES ASSUME NEW m \in Commands \ (Core \cup Sensitive)
             PROVE  /\ handled'[m] <= 1
                    /\ dedup'[m] = "absent" => handled'[m] = 0
                    /\ \A c \in Conns : \A i \in Places(c)' :
                         ToHandle(c, i, m)' => handled'[m] = 0 /\ dedup'[m] # "absent"
                    /\ \A c, d \in Conns : \A i \in Places(c)', j \in Places(d)' :
                         ToHandle(c, i, m)' /\ ToHandle(d, j, m)' => c = d /\ i = j
  BY DEF OnceInv
<1>0. /\ handled[m] <= 1 /\ handled[m] \in Nat
      /\ dedup[m] = "absent" => handled[m] = 0
      /\ \A c \in Conns : \A i \in Places(c) :
           ToHandle(c, i, m) => handled[m] = 0 /\ dedup[m] # "absent"
      /\ \A c, d \in Conns : \A i \in Places(c), j \in Places(d) :
           ToHandle(c, i, m) /\ ToHandle(d, j, m) => c = d /\ i = j
      /\ mem.opened \in Nat
  BY DEF OnceInv, Shape, TypeOK, MemType
<1>a. ASSUME NEW d \in Conns
      PROVE  Len(pipe[d]) \in Nat /\ 0 \in Places(d) /\ JobAt(d, 0) = worker[d].job /\ Shift(d) \in {0, 1}
  BY TypeFacts DEF Shape, Places, JobAt, Shift
(* A switch to a new MEM forgets everything.                               *)
<1>1. ASSUME NEW c \in Conns, HandleSwitch(c), mem' # mem
      PROVE  /\ handled'[m] = 0 /\ dedup'[m] = "absent"
             /\ \A d \in Conns : \A i \in Places(d)' : ~ToHandle(d, i, m)'
  <2>1. mem'.opened = mem.opened + 1 /\ handled'[m] = 0 /\ dedup'[m] = "absent"
    BY <1>1, SwitchEffect
  <2>2. ASSUME NEW d \in Conns, NEW i, i \in Places(d)', ToHandle(d, i, m)'
        PROVE  FALSE
    <3>1. JobAt(d, i)'.cmd = m /\ JobAt(d, i)'.mem = mem' /\ JobAt(d, i)' # NoJob
      BY <2>2, CommandsAssumption DEF ToHandle, NoJob
    <3> QED BY <2>1, <2>2, <3>1, NewMemIsNobodys
  <2> QED BY <2>1, <2>2
<1>2. CASE mem' = mem
  <2> DEFINE Old(d, i) == i + Shift(d) \in Places(d) /\ ToHandle(d, i + Shift(d), m)
             New(d, i) == Accept(d, m) /\ TakenIn(m) /\ i = Len(pipe[d]) + 1
             Done == \E c \in Conns : /\ worker[c].pc = "run" /\ worker'[c].pc = "finish"
                                      /\ worker[c].job.cmd = m /\ worker[c].job.mem = mem
                                      /\ handled'[m] = handled[m] + 1
                                      /\ ~\E d \in Conns : \E n \in Commands : Accept(d, n)
  <2>1. \A d \in Conns : \A i \in Places(d)' : ToHandle(d, i, m)' => Old(d, i) \/ New(d, i)
    BY <1>2, ToHandleBefore
  <2>2. /\ dedup'[m] = "absent" => dedup[m] = "absent"
        /\ handled'[m] = handled[m] \/ Done
    BY <1>2, RecordChanges
  <2>3. ASSUME NEW d \in Conns, NEW i, New(d, i)
        PROVE  /\ handled[m] = 0 /\ dedup[m] = "absent" /\ dedup'[m] # "absent"
               /\ accepting[d] = NoJob /\ accepting'[d] # NoJob
               /\ \A e \in Conns \ {d} : accepting'[e] = accepting[e]
    <3>1. dedup[m] = "absent"
      BY <2>3 DEF TakenIn
    <3>2. accepting[d] = NoJob /\ dedup' = [dedup EXCEPT ![m] = "accepted"]
          /\ \E lane \in LaneObjects \cup {NoLane} : accepting' = [accepting EXCEPT ![d] = Stamped(m, lane)]
      BY <2>3, AcceptEffect
    <3>3. \A lane : Stamped(m, lane) # NoJob
      <4>1. \A lane : Stamped(m, lane).cmd = m
        BY DEF Stamped
      <4> QED BY <4>1, CommandsAssumption DEF NoJob
    <3>4. /\ accepting \in [Conns -> JobType]
          /\ dedup \in [Commands -> {"absent", "accepted", "committed", "rejected"}]
      BY DEF Shape, TypeOK
    <3> QED BY <3>1, <3>2, <3>3, <3>4, <1>0
  <2>4. ASSUME NEW d \in Conns, NEW i, Old(d, i)
        PROVE  handled[m] = 0 /\ dedup[m] # "absent"
    BY <2>4, <1>0
(* The command that is handled was to be handled, once.                    *)
  <2>5. ASSUME Done
        PROVE  /\ handled[m] = 0 /\ handled'[m] = 1 /\ dedup'[m] # "absent"
               /\ \A d \in Conns : \A i \in Places(d)' : ~ToHandle(d, i, m)'
    <3>1. PICK c \in Conns :
              /\ worker[c].pc = "run" /\ worker'[c].pc = "finish"
              /\ worker[c].job.cmd = m /\ worker[c].job.mem = mem
              /\ handled'[m] = handled[m] + 1
              /\ ~\E d \in Conns : \E n \in Commands : Accept(d, n)
      BY <2>5
    <3>2. 0 \in Places(c) /\ ToHandle(c, 0, m)
      BY <1>a, <3>1 DEF ToHandle
    <3>3. handled[m] = 0 /\ dedup[m] # "absent"
      BY <3>2, <1>0
    <3>4. ASSUME NEW d \in Conns, NEW i, i \in Places(d)', ToHandle(d, i, m)'
          PROVE  FALSE
      <4>1. Old(d, i)
        BY <2>1, <3>1, <3>4
      <4>2. d = c /\ i + Shift(d) = 0
        BY <4>1, <3>2, <1>0
      <4>3. i \in Nat
        BY <3>4 DEF Places
      <4>4. i = 0
        BY <4>2, <4>3, <1>a
      <4> QED BY <4>2, <4>4, <3>1, <3>4 DEF ToHandle
    <3> QED BY <3>1, <3>3, <3>4, <2>2, <1>0
  <2>6. CASE Done
    BY <2>5, <2>6
  <2>7. CASE ~Done
    <3> HIDE DEF Done
    <3>1. handled'[m] = handled[m]
      BY <2>2, <2>7
    <3>2. ASSUME NEW d \in Conns, NEW i, i \in Places(d)', ToHandle(d, i, m)'
          PROVE  handled'[m] = 0 /\ dedup'[m] # "absent"
      BY <2>1, <2>2, <2>3, <2>4, <3>1, <3>2
    <3>3. ASSUME NEW c \in Conns, NEW d \in Conns, NEW i, i \in Places(c)', NEW j, j \in Places(d)',
                 ToHandle(c, i, m)', ToHandle(d, j, m)'
          PROVE  c = d /\ i = j
      <4>1. i \in Nat /\ j \in Nat
        BY <3>3 DEF Places
      <4>2. CASE Old(c, i) /\ Old(d, j)
        <5>1. c = d /\ i + Shift(c) = j + Shift(d)
          BY <4>2, <1>0
        <5> QED BY <5>1, <4>1, <1>a
      <4>3. CASE New(c, i) /\ New(d, j)
        BY <4>3, <2>3
      <4>4. ~(Old(c, i) /\ New(d, j)) /\ ~(New(c, i) /\ Old(d, j))
        BY <2>3, <2>4
      <4> QED BY <2>1, <3>3, <4>2, <4>3, <4>4
    <3> QED BY <1>0, <2>2, <3>1, <3>2, <3>3
  <2> QED BY <2>6, <2>7
<1>3. mem' = mem \/ \E c \in Conns : HandleSwitch(c)
  BY MemChanges
<1> QED BY <1>1, <1>2, <1>3

-----------------------------------------------------------------------------
LEMMA InitIInv == Init => IInv
<1> SUFFICES ASSUME Init
             PROVE  IInv
  OBVIOUS
<1>1. \A c \in Conns : pipe[c] = <<>> /\ worker[c] = Idle /\ accepting[c] = NoJob
  BY DEF Init
<1>2. \A c \in Conns : \A i \in Places(c) : JobAt(c, i) = NoJob
  BY <1>1, EmptySeq DEF Places, JobAt, Idle
<1>3. BarrierInv
  BY <1>1 DEF BarrierInv, Holds, Idle, Init
<1>4. ScopesInv
  BY <1>2, NoJobTyped DEF ScopesInv
<1>5. EpochsInv
  BY <1>1, <1>2 DEF EpochsInv, SwitchRunning, At, Idle, Init, FirstMem
<1>6. OnceInv
  <2>1. \A m \in Commands : \A c \in Conns : \A i \in Places(c) : ~ToHandle(c, i, m)
    BY <1>2, CommandsAssumption DEF ToHandle, NoJob
  <2> QED BY <2>1 DEF OnceInv, Init
<1> QED BY <1>3, <1>4, <1>5, <1>6, InitShape, InitLanes DEF IInv

LEMMA IInvKept == IInv /\ [Next]_vars => IInv'
BY ShapeKept, BarrierKept, LanesKept, ScopesKept, EpochsKept, OnceKept DEF IInv

LEMMA Invariance == Spec => []IInv
BY InitIInv, IInvKept, PTL DEF Spec

(* The commands in lanes are those at places.                              *)
LEMMA InLanesAtPlaces ==
    ASSUME TypeOK
    PROVE  /\ \A job \in InLanes : \E c \in Conns : \E i \in Places(c) :
                job = JobAt(c, i) /\ i \in 0 .. Len(pipe[c])
                    /\ (i = 0 => worker[c].pc \notin {"drop", "release"})
           /\ \A c \in Conns : \A i \in Places(c) : InLane(c, i) => JobAt(c, i) \in InLanes
<1>1. ASSUME NEW c \in Conns
      PROVE  /\ Len(pipe[c]) \in Nat /\ DOMAIN pipe[c] = 1 .. Len(pipe[c])
             /\ Range(pipe[c]) = {pipe[c][i] : i \in 1 .. Len(pipe[c])}
  <2>1. pipe[c] \in Seq(JobType \ {NoJob})
    BY TypeFacts
  <2> QED BY <2>1, LenProperties DEF Range
<1>2. ASSUME NEW c \in Conns, NEW job \in Range(pipe[c])
      PROVE  \E i \in Places(c) : job = JobAt(c, i) /\ i \in 0 .. Len(pipe[c]) /\ i # 0
  <2>1. PICK i \in 1 .. Len(pipe[c]) : job = pipe[c][i]
    BY <1>1, <1>2
  <2>2. i \in Places(c) /\ i \in 0 .. Len(pipe[c]) /\ i # 0 /\ i <= Len(pipe[c])
    BY <1>1 DEF Places
  <2>3. JobAt(c, i) = job
    BY <2>1, <2>2 DEF JobAt
  <2> QED BY <2>2, <2>3
<1>3. ASSUME NEW c \in Conns
      PROVE  0 \in Places(c) /\ JobAt(c, 0) = worker[c].job /\ 0 \in 0 .. Len(pipe[c])
  BY <1>1 DEF Places, JobAt
<1>4. ASSUME NEW c \in Conns, NEW i \in Places(c), InLane(c, i)
      PROVE  JobAt(c, i) \in InLanes
  <2>1. CASE i = 0
    BY <2>1, <1>3, <1>4 DEF InLane, InLanes
  <2>2. CASE i # 0
    <3>0. i \in 1 .. Len(pipe[c]) /\ i <= Len(pipe[c])
      BY <2>2, <1>1, <1>4 DEF InLane
    <3>1. JobAt(c, i) = pipe[c][i] /\ JobAt(c, i) \in Range(pipe[c])
      BY <2>2, <3>0, <1>1 DEF JobAt
    <3> QED BY <3>1 DEF InLanes
  <2> QED BY <2>1, <2>2
<1>5. ASSUME NEW job \in InLanes
      PROVE  \E c \in Conns : \E i \in Places(c) :
                job = JobAt(c, i) /\ i \in 0 .. Len(pipe[c])
                    /\ (i = 0 => worker[c].pc \notin {"drop", "release"})
  <2>1. \/ \E c \in Conns : job \in Range(pipe[c])
        \/ \E c \in Conns : worker[c].pc \notin {"drop", "release"} /\ job = worker[c].job
    BY DEF InLanes
  <2> QED BY <2>1, <1>2, <1>3, SMTT(30)
<1> QED BY <1>4, <1>5

(* The types hold, and all commands of one scope wait in the lane that the *)
(* map has for it (command_lane, AcceptedCommandLane::drop).               *)
THEOREM OneLaneForEachScope == Spec => []HostInv
<1>1. IInv => HostInv
  <2> SUFFICES ASSUME IInv, NEW job \in Pending, job.lane # NoLane
               PROVE  mapped[ScopeOf[job.cmd]] = job.lane
    BY DEF HostInv, OneLanePerScope, IInv, Shape
  <2>1. TypeOK /\ ScopesInv
    BY DEF IInv, Shape
  <2>2. CASE \E c \in Conns : job = accepting[c]
    <3>1. PICK c \in Conns : job = accepting[c]
      BY <2>2
    <3>2. Len(pipe[c]) \in Nat
      BY <2>1, TypeFacts
    <3>3. /\ Len(pipe[c]) + 1 \in Places(c) /\ JobAt(c, Len(pipe[c]) + 1) = job
          /\ Len(pipe[c]) + 1 # 0
      BY <3>1, <3>2 DEF Places, JobAt
    <3> QED BY <3>3, <2>1 DEF ScopesInv
  <2>3. CASE job \in InLanes
    BY <2>1, <2>3, InLanesAtPlaces DEF ScopesInv
  <2> QED BY <2>2, <2>3 DEF Pending
<1> QED BY <1>1, Invariance, PTL

(* No two commands of one scope, and nothing beside a global command or    *)
(* the maintenance scan, is executed at once (execute_browser_command).    *)
THEOREM CommandsExclude == Spec => []MutationsExclude
<1>1. IInv => MutationsExclude
  <2> SUFFICES ASSUME IInv, NEW c \in Conns, Inside(c)
               PROVE  /\ maint # "scanning"
                      /\ \A d \in Running \ {c} :
                           ScopeOf[Cmd(d)] = ScopeOf[Cmd(c)] \/ Cmd(c) \in Global
                               => worker[d].job.lane = NoLane
    BY DEF MutationsExclude, Running, Inside
  <2>1. /\ TypeOK /\ BarrierInv /\ LanesInv /\ ScopesInv
        /\ Nobody \notin Conns /\ "maintenance" \notin Conns /\ Nobody # "maintenance"
    BY CommandsAssumption DEF IInv, Shape, Nobody
  <2>2. \A d \in Conns : Inside(d) => IF Cmd(d) \in Global THEN writer = d ELSE d \in readers
    BY <2>1 DEF BarrierInv, Holds, Inside
  <2>3. maint # "scanning"
    BY <2>1, <2>2 DEF BarrierInv
  <2>4. ASSUME NEW d \in Running \ {c}, worker[d].job.lane # NoLane, Cmd(c) \in Global
        PROVE  FALSE
    BY <2>1, <2>2, <2>4 DEF BarrierInv, Running, Inside
  <2>5. ASSUME NEW d \in Running \ {c}, worker[d].job.lane # NoLane, ScopeOf[Cmd(d)] = ScopeOf[Cmd(c)]
        PROVE  FALSE
    <3>1. d \in Conns /\ Inside(d)
      BY <2>5 DEF Running, Inside
    <3>2. ASSUME NEW e \in Conns, Inside(e)
          PROVE  /\ 0 \in Places(e) /\ InLane(e, 0) /\ JobAt(e, 0) = worker[e].job
                 /\ mapped[ScopeOf[Cmd(e)]] = worker[e].job.lane
                 /\ lanes[worker[e].job.lane].serving = worker[e].job.ticket
      <4>1. 0 \in Places(e) /\ JobAt(e, 0) = worker[e].job /\ InLane(e, 0)
        BY <2>1, <3>2, TypeFacts DEF Places, JobAt, InLane, Inside
      <4> QED BY <4>1, <2>1, <3>2 DEF ScopesInv, LanesInv, Inside, Cmd
    <3>3. worker[d].job.lane = worker[c].job.lane /\ worker[d].job.ticket = worker[c].job.ticket
      BY <2>5, <3>1, <3>2
    <3> QED BY <2>1, <3>1, <3>2, <3>3 DEF LanesInv
  <2> QED BY <2>3, <2>4, <2>5
<1> QED BY <1>1, Invariance, PTL

(* A handler runs in the MEM that was open when its command was accepted,  *)
(* unless a switch is half done.                                           *)
THEOREM HandlersRunInTheirMem == Spec => []RunsInItsMem
<1>1. IInv => RunsInItsMem
  <2> SUFFICES ASSUME IInv, NEW c \in Conns, At(c, "run"), Cmd(c) \notin Switches, ~HalfSwitched
               PROVE  worker[c].job.mem = mem
    BY DEF RunsInItsMem
  <2>1. TypeOK /\ EpochsInv
    BY DEF IInv, Shape
  <2>2. worker[c].job # NoJob /\ 0 \in Places(c) /\ JobAt(c, 0) = worker[c].job
    BY <2>1, TypeFacts DEF TypeOK, At, Places, JobAt
  <2> QED BY <2>1, <2>2 DEF EpochsInv
<1> QED BY <1>1, Invariance, PTL

(* A command sent again, on whatever connection, is not handled again.     *)
THEOREM CommandsAreHandledOnce == Spec => []HandledOnce
<1>1. IInv => HandledOnce
  BY DEF IInv, OnceInv, HandledOnce
<1> QED BY <1>1, Invariance, PTL

(* The ticket a lane serves is that of a command that is queued or that is *)
(* executed: no lane waits for a ticket that nobody has.                   *)
THEOREM SomeoneHasTheTurn == Spec => []TurnIsHeld
<1>1. IInv => TurnIsHeld
  <2> SUFFICES ASSUME IInv, NEW o \in LaneObjects, lanes[o].serving # lanes[o].next
               PROVE  \E job \in InLanes : job.lane = o /\ job.ticket = lanes[o].serving
    BY DEF TurnIsHeld
  <2>1. TypeOK /\ LanesInv
    BY DEF IInv, Shape
  <2>2. lanes[o].serving \in TicketsOut(lanes[o])
    BY <2>1, ServedIsOut DEF LanesInv
  <2>3. PICK c \in Conns : \E i \in Places(c) :
            InLane(c, i) /\ JobAt(c, i).lane = o /\ JobAt(c, i).ticket = lanes[o].serving
    BY <2>1, <2>2 DEF LanesInv
  <2> QED BY <2>1, <2>3, InLanesAtPlaces
<1> QED BY <1>1, Invariance, PTL
=============================================================================
