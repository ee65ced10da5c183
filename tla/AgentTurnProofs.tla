--------------------------- MODULE AgentTurnProofs ---------------------------
(***************************************************************************)
(* The turn loop keeps its promises whatever the modes, the batches, the   *)
(* round budget and the other limits are.                                  *)
(***************************************************************************)
EXTENDS AgentTurn, SequenceTheorems, FiniteSetTheorems, WellFoundedInduction, TLAPS

(* Every nonempty set of naturals has a least element. *)
LEMMA LeastNat ==
    ASSUME NEW K \in SUBSET Nat, K # {}
    PROVE  \E m \in K : \A n \in K : m <= n
<1> DEFINE R == OpToRel(<, Nat)
<1>1. R = {ss \in Nat \X Nat : ss[1] < ss[2]}
  BY Zenon DEF OpToRel
<1>2. IsWellFoundedOn(R, Nat)
  BY NatLessThanWellFounded, Zenon
<1> HIDE DEF R
<1>3. PICK m \in K : \A n \in K : <<n, m>> \notin R
  BY <1>2, WFMin, Zenon
<1>4. \A n \in K : ~(n < m)
  BY <1>1, <1>3
<1> QED BY <1>3, <1>4

(* The minimum of a nonempty set of naturals is its least element.         *)
LEMMA MinOfNats ==
    ASSUME NEW K \in SUBSET Nat, K # {}
    PROVE  Min(K) \in K /\ \A n \in K : Min(K) <= n
<1>1. \E m \in K : \A n \in K : m <= n
  BY LeastNat
<1> QED BY <1>1, Zenon DEF Min

CompactType ==
    [required : BOOLEAN, threshold : BOOLEAN, manual : BOOLEAN,
     followup : {"available", "pending", "exhausted"},
     verify : {"none", "initial", "followup"}]

RoundsType == [n : Nat, budget : {Budget, Unlimited}, repairs : 0 .. MaxRepairs]
GoalType == [memo : BOOLEAN, finishing : BOOLEAN]
GuardType == [tokens : 0 .. GuardCap, note : {"none", "forced", "interrupted"},
              turns : 0 .. MaxTurns]

HistType ==
    [requests : Nat, updates : Nat, overrides : Nat, intercepted : Nat, worked : Nat,
     forced : Nat, paused : BOOLEAN, own : BOOLEAN, wrong : SUBSET Batches]

HistOK == hist \in HistType

LEMMA Limits ==
    /\ Budget \in Nat /\ Unlimited \in Nat /\ MaxRepairs \in Nat /\ GuardCap \in Nat
    /\ MaxRequests \in Nat /\ MaxUpdates \in Nat /\ MaxTurns \in Nat
    /\ Budget > 0 /\ Unlimited > 0
BY TurnAssumption

-----------------------------------------------------------------------------
(* Rounds.                                                                 *)
LEMMA RoundsLeft ==
    ASSUME NEW r \in RoundsType
    PROVE  /\ Remaining(r) \in Nat
           /\ Remaining(r) > 0 <=> r.budget = Unlimited \/ r.n < r.budget
           /\ AfterWork(r) \in {"limit", "dispatch"}
           /\ AfterWork(r) = "dispatch" <=> r.budget = Unlimited \/ r.n < r.budget
<1>1. r.n \in Nat /\ r.budget \in Nat
  BY Limits DEF RoundsType
<1>2. Remaining(r) \in Nat /\ (Remaining(r) > 0 <=> r.budget = Unlimited \/ r.n < r.budget)
  BY <1>1, Limits DEF Remaining
<1>3. Remaining(r) = 0 <=> ~(Remaining(r) > 0)
  BY <1>2
<1> QED BY <1>2, <1>3 DEF AfterWork

LEMMA CountedFields ==
    ASSUME rounds \in RoundsType
    PROVE  /\ Counted \in RoundsType
           /\ Counted.n = rounds.n + 1
           /\ Counted.budget = rounds.budget
           /\ Counted.repairs = rounds.repairs
BY DEF Counted, RoundsType

-----------------------------------------------------------------------------
(* What is forced, and how often: after a compaction that did not help     *)
(* there is one follow-up, and then none until something changes.          *)
Bounded(c, n) ==
    /\ n <= 2
    /\ c.threshold => c.required
    /\ c.required => c.threshold \/ c.manual
    /\ c.manual \/ c.verify # "none" \/ c.followup = "available" => n = 0
    /\ c.followup = "pending" \/ c.threshold => n <= 1

LEMMA ReviewedBounded ==
    ASSUME NEW c \in CompactType, NEW n \in Nat, Bounded(c, n)
    PROVE  /\ \A crossed \in BOOLEAN : Reviewed(c, crossed) \in CompactType
           /\ Bounded(Reviewed(c, TRUE), n)
           /\ Bounded(Reviewed(c, FALSE), 0)
<1>1. ASSUME NEW crossed \in BOOLEAN PROVE Reviewed(c, crossed) \in CompactType
  BY DEF Reviewed, CompactType
<1>2. Bounded(Reviewed(c, TRUE), n)
  BY DEF Reviewed, CompactType, Bounded
<1>3. Bounded(Reviewed(c, FALSE), 0)
  BY DEF Reviewed, CompactType, Bounded
<1> QED BY <1>1, <1>2, <1>3

UsageReports == {"unknown", "low", "high"}

LEMMA UsageBounded ==
    ASSUME NEW c \in CompactType, NEW n \in Nat, Bounded(c, n), NEW usage \in UsageReports
    PROVE  /\ UsageVerified(c, usage) \in CompactType
           /\ ~c.required => Bounded(UsageVerified(c, usage), n)
           /\ UsageVerified(c, "unknown") = c
<1>0. UsageVerified(c, "unknown") = c
  BY DEF UsageVerified
<1>1. CASE c.verify = "none" \/ usage = "unknown"
  BY <1>1 DEF UsageVerified, CompactType
<1>2. CASE c.verify # "none" /\ usage = "low"
  <2>1. UsageVerified(c, usage) = [c EXCEPT !.verify = "none", !.followup = "available"]
    BY <1>2 DEF UsageVerified
  <2> QED BY <1>0, <1>2, <2>1 DEF CompactType, Bounded
<1>3. CASE c.verify = "initial" /\ usage = "high"
  <2> DEFINE u == UsageVerified(c, usage)
  <2>1. u = [c EXCEPT !.verify = "none", !.followup = "pending",
                      !.required = TRUE, !.threshold = TRUE]
    BY <1>3 DEF UsageVerified
  <2> HIDE DEF u
  <2>2. /\ u \in CompactType
        /\ u.required /\ u.threshold /\ u.manual = c.manual
        /\ u.verify = "none" /\ u.followup = "pending"
    BY <2>1 DEF CompactType
  <2>3. u \in CompactType /\ Bounded(u, n)
    BY <1>3, <2>2 DEF Bounded
  <2> QED BY <1>0, <2>3 DEF u
<1>4. CASE c.verify = "followup" /\ usage = "high"
  <2>1. UsageVerified(c, usage) = [c EXCEPT !.verify = "none", !.followup = "exhausted"]
    BY <1>4 DEF UsageVerified
  <2> QED BY <1>0, <1>4, <2>1 DEF CompactType, Bounded
<1> QED BY <1>0, <1>1, <1>2, <1>3, <1>4 DEF UsageReports, CompactType

LEMMA CompactedBounded ==
    ASSUME NEW c \in CompactType, NEW n \in Nat, Bounded(c, n), NEW poor \in BOOLEAN
    PROVE  /\ Compacted(c, poor) \in CompactType
           /\ ForcedAfter(n, c, IF poor THEN "poor" ELSE "good") \in Nat
           /\ Bounded(Compacted(c, poor), ForcedAfter(n, c, IF poor THEN "poor" ELSE "good"))
<1>1. Compacted(c, poor) \in CompactType
  BY DEF Compacted, CompactType
<1>2. ForcedAfter(n, c, IF poor THEN "poor" ELSE "good")
        = IF c.threshold THEN IF poor THEN n + 1 ELSE 0 ELSE n
  BY DEF ForcedAfter
<1>3. CASE ~c.threshold
  BY <1>2, <1>3 DEF Compacted, CompactType, Bounded
<1>4. CASE c.threshold /\ ~poor
  BY <1>2, <1>4 DEF Compacted, CompactType, Bounded
<1>5. CASE c.threshold /\ poor
  BY <1>2, <1>5 DEF Compacted, CompactType, Bounded
<1> QED BY <1>1, <1>2, <1>3, <1>4, <1>5

Hows == {"none", "good", "poor", "bad"}

LEMMA CompactionBounded ==
    ASSUME NEW c \in CompactType, NEW n \in Nat, Bounded(c, n),
           NEW usage \in UsageReports, NEW how \in Hows, how = "none" => ~c.required
    PROVE  /\ AfterCompaction(c, how, usage) \in CompactType
           /\ ForcedAfter(n, c, how) \in Nat
           /\ Bounded(AfterCompaction(c, how, usage), ForcedAfter(n, c, how))
<1>1. CASE how = "none"
  <2>1. AfterCompaction(c, how, usage) = UsageVerified(c, usage) /\ ForcedAfter(n, c, how) = n
    BY <1>1 DEF AfterCompaction, ForcedAfter
  <2> QED BY <1>1, <2>1, UsageBounded
<1>2. CASE how = "bad"
  BY <1>2 DEF AfterCompaction, ForcedAfter, CompactType, Bounded
<1>3. CASE how = "good"
  <2>1. AfterCompaction(c, how, usage) = Compacted(c, FALSE)
    BY <1>3 DEF AfterCompaction
  <2> QED BY <1>3, <2>1, CompactedBounded
<1>4. CASE how = "poor"
  <2>1. AfterCompaction(c, how, usage) = Compacted(c, TRUE)
    BY <1>4 DEF AfterCompaction
  <2> QED BY <1>4, <2>1, CompactedBounded
<1> QED BY <1>1, <1>2, <1>3, <1>4 DEF Hows

-----------------------------------------------------------------------------
(* What the history records.                                               *)
LEMMA OverridingFields ==
    ASSUME NEW h \in HistType, NEW next
    PROVE  /\ Overriding(h, next) \in HistType
           /\ Overriding(h, next).overrides =
                IF Heard(next) /\ next \in {"approval", "limit"} THEN h.overrides + 1
                                                               ELSE h.overrides
           /\ Overriding(h, next).intercepted = h.intercepted
           /\ Overriding(h, next).worked = h.worked
           /\ Overriding(h, next).forced = h.forced
           /\ Overriding(h, next).paused = h.paused
           /\ Overriding(h, next).own = h.own
           /\ Overriding(h, next).wrong = h.wrong
<1>1. CASE Heard(next) /\ next \in {"approval", "limit"}
  <2>1. Overriding(h, next) = [h EXCEPT !.overrides = @ + 1]
    BY <1>1 DEF Overriding
  <2> QED BY <1>1, <2>1 DEF HistType
<1>2. CASE ~(Heard(next) /\ next \in {"approval", "limit"})
  <2>1. Overriding(h, next) = h
    BY <1>2 DEF Overriding
  <2> QED BY <1>2, <2>1 DEF HistType
<1> QED BY <1>1, <1>2

LEMMA JudgedFields ==
    ASSUME NEW h \in HistType, NEW b, NEW crossed \in BOOLEAN, b.calls \in Batches
    PROVE  /\ Judged(h, b, crossed) \in HistType
           /\ Judged(h, b, crossed).overrides = h.overrides
           /\ Judged(h, b, crossed).intercepted = h.intercepted
           /\ Judged(h, b, crossed).worked = h.worked
           /\ Judged(h, b, crossed).forced = IF b.due = 0 /\ ~crossed THEN 0 ELSE h.forced
           /\ Judged(h, b, crossed).paused = h.paused
           /\ Judged(h, b, crossed).own = h.own
           /\ Judged(h, b, crossed).wrong =
                IF b.due = 0 /\ Misdirected(b) THEN {b.calls} ELSE h.wrong
<1> DEFINE w == IF b.due = 0 /\ Misdirected(b) THEN {b.calls} ELSE h.wrong
           f == IF b.due = 0 /\ ~crossed THEN 0 ELSE h.forced
<1>1. Judged(h, b, crossed) = [h EXCEPT !.wrong = w, !.forced = f]
  BY DEF Judged
<1>2. w \in SUBSET Batches /\ f \in Nat
  BY DEF HistType
<1> HIDE DEF w, f
<1>3. /\ [h EXCEPT !.wrong = w, !.forced = f] \in HistType
      /\ [h EXCEPT !.wrong = w, !.forced = f].overrides = h.overrides
      /\ [h EXCEPT !.wrong = w, !.forced = f].intercepted = h.intercepted
      /\ [h EXCEPT !.wrong = w, !.forced = f].worked = h.worked
      /\ [h EXCEPT !.wrong = w, !.forced = f].forced = f
      /\ [h EXCEPT !.wrong = w, !.forced = f].paused = h.paused
      /\ [h EXCEPT !.wrong = w, !.forced = f].own = h.own
      /\ [h EXCEPT !.wrong = w, !.forced = f].wrong = w
  BY <1>2 DEF HistType
<1> QED BY <1>1, <1>3 DEF w, f

(* What calls change in the turn.                                          *)
LEMMA EffectsFields ==
    ASSUME NEW g \in GoalType, NEW calls, NEW ks
    PROVE  /\ Effects(g, calls, ks) \in GoalType
           /\ Effects(g, calls, ks).finishing =>
                g.finishing \/ \E k \in ks : calls[k] = "finish"
<1> DEFINE marks == {k \in ks : calls[k] \in {"memo", "unmemo"}}
           memo == IF marks = {} THEN g.memo ELSE calls[Max(marks)] = "memo"
           finishing == g.finishing \/ \E k \in ks : calls[k] = "finish"
<1>1. Effects(g, calls, ks) = [memo |-> memo, finishing |-> finishing]
  BY DEF Effects
<1>2. memo \in BOOLEAN /\ finishing \in BOOLEAN
  BY DEF GoalType
<1> HIDE DEF memo, finishing
<1>3. /\ [memo |-> memo, finishing |-> finishing] \in GoalType
      /\ [memo |-> memo, finishing |-> finishing].finishing = finishing
  BY <1>2 DEF GoalType
<1> QED BY <1>1, <1>3 DEF finishing

-----------------------------------------------------------------------------
(* The inductive invariant.                                                *)
Steps == {"idle", "dispatch", "request", "approval", "asked", "limit", "limit_asked", "final"}
Failures == {"salvaged", "repair_failed", "model_error", "round_limit"}
Outcomes == {"none", "answered", "finished", "cancelled"} \cup Failures

(* Before a model request a round is left, or was won by an override.      *)
InBudget(a, r, o) ==
    r.budget # Unlimited =>
        /\ r.n <= r.budget + r.repairs + o
        /\ a \in {"dispatch", "request"} => r.n < r.budget + r.repairs + o

(* A memo is with a turn that goes on, or with one that failed.            *)
MemoFits(a, memo, out) == a \in {"final", "idle"} /\ memo => out \in Failures

Earned(tokens, h) == h.intercepted + tokens <= GuardCap + h.worked

(* A summary outlives its response only through an approval.               *)
FinishFits(a, finishing, out, h) ==
    /\ out = "finished" /\ ~h.own => h.paused
    /\ a # "idle" /\ finishing => h.paused
    /\ a \in {"approval", "asked"} => h.paused

(* What a batch that waits for an answer has done: the calls before the    *)
(* due one have their results, or all of the group wait for theirs and the *)
(* shell commands before it were decided on.                               *)
Published(calls) == "publish" \in Range(calls) /\ Len(calls) > 1

BatchFields == {"calls", "parallel", "ran", "due", "group", "approved", "denied", "done",
                "always", "lines"}

Orderly(b) ==
    /\ DOMAIN b = BatchFields
    /\ b.calls \in Batches
    /\ b.due \in DOMAIN b.calls
    /\ b.group \in BOOLEAN
    /\ b.group => Len(b.calls) > 1
    /\ \/ Published(b.calls)
       \/ ~b.group /\ b.lines = InOrder(b.calls, 1 .. b.due - 1)
       \/ /\ b.group
          /\ b.approved \cup b.denied \cup b.done \subseteq DOMAIN b.calls
          /\ \A k \in DOMAIN b.calls :
                IsShell(b.calls[k]) /\ k < b.due => k \in b.approved \cup b.denied \cup b.done

Waits(a, b) == a \in {"approval", "asked"} => Orderly(b)

Excused(w) == \A calls \in w : Published(calls)

IInv ==
    /\ TypeOK
    /\ HistOK
    /\ InBudget(at, rounds, hist.overrides)
    /\ MemoFits(at, goal.memo, outcome)
    /\ Earned(guard.tokens, hist)
    /\ Bounded(compact, hist.forced)
    /\ FinishFits(at, goal.finishing, outcome, hist)
    /\ Waits(at, batch)
    /\ Excused(hist.wrong)

LEMMA Typed ==
    TypeOK <=> /\ at \in Steps /\ mode \in Modes /\ rounds \in RoundsType
               /\ goal \in GoalType /\ guard \in GuardType /\ compact \in CompactType
               /\ exchange \in {"none", "own", "stale"} /\ tail \in {"results", "other"}
               /\ stop \in BOOLEAN /\ mail \in BOOLEAN /\ outcome \in Outcomes
BY DEF TypeOK, Steps, RoundsType, GoalType, GuardType, CompactType, Outcomes, Failures

LEMMA TypedAfter ==
    ASSUME /\ at' \in Steps /\ mode' \in Modes /\ rounds' \in RoundsType
           /\ goal' \in GoalType /\ guard' \in GuardType /\ compact' \in CompactType
           /\ exchange' \in {"none", "own", "stale"} /\ tail' \in {"results", "other"}
           /\ stop' \in BOOLEAN /\ mail' \in BOOLEAN /\ outcome' \in Outcomes
    PROVE  TypeOK'
BY DEF TypeOK, Steps, RoundsType, GoalType, GuardType, CompactType, Outcomes, Failures

LEMMA InitEstablishesIInv == Init => IInv
<1> SUFFICES ASSUME Init PROVE IInv
  OBVIOUS
<1>1. TypeOK
  <2>1. /\ rounds \in RoundsType /\ goal \in GoalType
        /\ compact \in CompactType
    BY Limits DEF Init, RoundsType, GoalType, CompactType
  <2>2. guard \in GuardType
    BY Limits DEF Init, GuardType
  <2> QED BY <2>1, <2>2, Typed DEF Init, Steps, Outcomes
<1>2. HistOK
  BY DEF Init, FreshHist, HistOK, HistType
<1>3. /\ hist.intercepted = 0 /\ hist.worked = 0 /\ hist.forced = 0 /\ hist.own
      /\ hist.wrong = {} /\ hist.overrides = 0
  BY DEF Init, FreshHist
<1>4. /\ rounds.n = 0 /\ rounds.budget = Budget /\ rounds.repairs = 0 /\ guard.tokens = GuardCap
      /\ ~goal.memo /\ at = "idle" /\ outcome = "none"
  BY DEF Init
<1>5. Bounded(compact, hist.forced)
  BY <1>3 DEF Init, Bounded
<1> QED
  BY <1>1, <1>2, <1>3, <1>4, <1>5, Limits
     DEF IInv, InBudget, MemoFits, Earned, FinishFits, Waits, Excused

-----------------------------------------------------------------------------
(* The counters that only bound the instance aside, nothing is recorded.   *)
NothingRecorded ==
    /\ hist' \in HistType
    /\ hist'.overrides = hist.overrides
    /\ hist'.intercepted = hist.intercepted /\ hist'.worked = hist.worked
    /\ hist'.forced = hist.forced
    /\ hist'.paused = hist.paused /\ hist'.own = hist.own
    /\ hist'.wrong = hist.wrong

(* Steps that leave Core's state alone, but for the place of the loop.     *)
LEMMA MovesKeepIInv ==
    ASSUME IInv, UNCHANGED <<rounds, goal, guard, compact, batch>>, NothingRecorded,
           mode' \in Modes, exchange' \in {"none", "own", "stale"},
           tail' \in {"results", "other"}, stop' \in BOOLEAN, mail' \in BOOLEAN,
           \/ at' = at /\ outcome' = outcome
           \/ at' = "idle" /\ outcome' \in Failures
           \/ at = "final" /\ at' = "idle" /\ outcome' = outcome
           \/ at \in {"dispatch", "request"} /\ at' \in {"dispatch", "request"}
              /\ outcome' = outcome
           \/ at = "approval" /\ at' = "asked" /\ outcome' = outcome
           \/ at = "limit" /\ at' = "limit_asked" /\ outcome' = outcome
    PROVE  IInv'
<1>1. /\ at' \in Steps /\ outcome' \in Outcomes
      /\ rounds' \in RoundsType /\ goal' \in GoalType /\ guard' \in GuardType
      /\ compact' \in CompactType
  BY Typed DEF IInv, Steps, Outcomes
<1>2. TypeOK'
  BY <1>1, TypedAfter
<1>3. HistOK' /\ Earned(guard.tokens, hist)' /\ Bounded(compact, hist.forced)' /\ Excused(hist.wrong)'
  BY DEF IInv, HistOK, Earned, Bounded, Excused, NothingRecorded
<1>4. InBudget(at', rounds', hist'.overrides)
  BY DEF IInv, InBudget, NothingRecorded
<1>5. MemoFits(at', goal'.memo, outcome') /\ FinishFits(at', goal'.finishing, outcome', hist')
  BY DEF IInv, MemoFits, FinishFits, Failures, NothingRecorded
<1>6. Waits(at', batch')
  BY DEF IInv, Waits
<1> QED BY <1>2, <1>3, <1>4, <1>5, <1>6 DEF IInv

Moving ==
    \/ ApplyRuntimeUpdates \/ RequestModel \/ SuppressResponse
    \/ AppendSupplements \/ RecoverInputTooLarge \/ ModelFails
    \/ AskUser \/ StopAtRoundLimit \/ FinishTurn \/ RequestStop \/ SubmitSupplement
    \/ UNCHANGED vars

LEMMA MovingKeepsIInv == ASSUME IInv, Moving PROVE IInv'
<1>0. /\ at \in Steps /\ mode \in Modes /\ exchange \in {"none", "own", "stale"}
      /\ tail \in {"results", "other"} /\ stop \in BOOLEAN /\ mail \in BOOLEAN
      /\ outcome \in Outcomes /\ hist \in HistType
  BY Typed DEF IInv, HistOK
<1>a. UNCHANGED hist => NothingRecorded
  BY <1>0 DEF NothingRecorded
<1>1. CASE AppendSupplements
  BY <1>0, <1>a, <1>1, MovesKeepIInv DEF AppendSupplements
<1>2. CASE RecoverInputTooLarge
  BY <1>0, <1>a, <1>2, MovesKeepIInv DEF RecoverInputTooLarge, Responding
<1>3. CASE ModelFails
  BY <1>0, <1>a, <1>3, MovesKeepIInv DEF ModelFails, core, Failures
<1>4. CASE AskUser
  BY <1>0, <1>a, <1>4, MovesKeepIInv DEF AskUser, core
<1>5. CASE StopAtRoundLimit
  BY <1>0, <1>a, <1>5, MovesKeepIInv DEF StopAtRoundLimit, core, Failures
<1>6. CASE FinishTurn
  BY <1>0, <1>a, <1>6, MovesKeepIInv DEF FinishTurn, core
<1>7. CASE RequestStop
  BY <1>0, <1>a, <1>7, MovesKeepIInv DEF RequestStop, core
<1>8. CASE SubmitSupplement
  BY <1>0, <1>a, <1>8, MovesKeepIInv DEF SubmitSupplement, core
<1>9. CASE UNCHANGED vars
  BY <1>0, <1>a, <1>9, MovesKeepIInv DEF vars, core
<1>10. CASE ApplyRuntimeUpdates
  <2>1. mode' \in Modes
    BY <1>10 DEF ApplyRuntimeUpdates
  <2>2. NothingRecorded
    BY <1>0, <1>10 DEF ApplyRuntimeUpdates, NothingRecorded, HistType
  <2> QED BY <1>0, <1>10, <2>1, <2>2, MovesKeepIInv DEF ApplyRuntimeUpdates
<1>11. CASE RequestModel
  <2>1. NothingRecorded
    BY <1>0, <1>11 DEF RequestModel, NothingRecorded, HistType
  <2> QED BY <1>0, <1>11, <2>1, MovesKeepIInv DEF RequestModel, core
<1>12. CASE SuppressResponse
  <2>1. at' = "dispatch" /\ mail' \in BOOLEAN /\ tail' \in {"results", "other"}
    BY <1>0, <1>12 DEF SuppressResponse, Goto
  <2> QED BY <1>0, <1>a, <1>12, <2>1, MovesKeepIInv DEF SuppressResponse, Responding
<1> QED BY <1>1, <1>2, <1>3, <1>4, <1>5, <1>6, <1>7, <1>8, <1>9, <1>10, <1>11, <1>12 DEF Moving

-----------------------------------------------------------------------------
(* A step of Core keeps the invariant when it keeps each of its parts.     *)
LEMMA PartsKeepIInv ==
    ASSUME IInv, at' \in Steps, mode' = mode, rounds' \in RoundsType,
           goal' \in GoalType, guard' \in GuardType, compact' \in CompactType,
           exchange' \in {"none", "own", "stale"}, tail' \in {"results", "other"},
           stop' \in BOOLEAN, mail' \in BOOLEAN, outcome' \in Outcomes, hist' \in HistType,
           InBudget(at', rounds', hist'.overrides),
           MemoFits(at', goal'.memo, outcome'),
           Earned(guard'.tokens, hist'),
           Bounded(compact', hist'.forced),
           FinishFits(at', goal'.finishing, outcome', hist'),
           Waits(at', batch'),
           Excused(hist'.wrong)
    PROVE  IInv'
<1>1. mode' \in Modes
  BY Typed DEF IInv
<1>2. TypeOK'
  BY <1>1, TypedAfter
<1>3. HistOK'
  BY DEF HistOK
<1> QED BY <1>2, <1>3 DEF IInv

LEMMA GotoFacts ==
    ASSUME IInv, NEW next \in {"dispatch", "limit", "approval", "final"},
           NEW t \in {"results", "other"}, Goto(next, t)
    PROVE  /\ at' \in Steps /\ at' \in {next, "dispatch"}
           /\ at' # next <=> Heard(next) /\ next \in {"limit", "approval"}
           /\ mail' \in BOOLEAN /\ tail' \in {"results", "other"}
<1>1. mail \in BOOLEAN
  BY Typed DEF IInv
<1> QED BY <1>1 DEF Goto, Heard, Steps

LEMMA CountedInBudget ==
    ASSUME IInv, at = "request", NEW next \in {"dispatch", "limit", "approval", "final"},
           NEW t \in {"results", "other"}, Goto(next, t), rounds' = Counted,
           hist' \in HistType, hist'.overrides = Overriding(hist, next).overrides,
           next = "dispatch" => Remaining(Counted) > 0
    PROVE  rounds' \in RoundsType /\ InBudget(at', rounds', hist'.overrides)
<1>0. rounds \in RoundsType /\ hist \in HistType
  BY Typed DEF IInv, HistOK
<1>1. /\ Counted \in RoundsType /\ Counted.n = rounds.n + 1
      /\ Counted.budget = rounds.budget /\ Counted.repairs = rounds.repairs
  BY <1>0, CountedFields
<1>2. /\ rounds.n \in Nat /\ rounds.budget \in Nat /\ rounds.repairs \in Nat
      /\ hist.overrides \in Nat
  BY <1>0, Limits DEF RoundsType, HistType
<1>3. SUFFICES ASSUME rounds.budget # Unlimited
               PROVE  InBudget(at', rounds', hist'.overrides)
  BY <1>1 DEF InBudget
<1>4. rounds.n < rounds.budget + rounds.repairs + hist.overrides
  BY <1>3 DEF IInv, InBudget
<1>5. CASE next = "dispatch"
  <2>1. rounds.n + 1 < rounds.budget
    BY <1>1, <1>3, <1>5, RoundsLeft
  <2>2. hist'.overrides = hist.overrides
    BY <1>0, <1>5, OverridingFields
  <2> QED BY <1>1, <1>2, <2>1, <2>2 DEF InBudget
<1>6. CASE next # "dispatch" /\ at' = next
  <2>1. hist'.overrides = hist.overrides
    BY <1>0, <1>6, GotoFacts, OverridingFields
  <2> QED BY <1>1, <1>2, <1>4, <1>6, <2>1 DEF InBudget
<1>7. CASE next # "dispatch" /\ at' # next
  <2>1. hist'.overrides = hist.overrides + 1
    BY <1>0, <1>7, GotoFacts, OverridingFields
  <2> QED BY <1>1, <1>2, <1>4, <2>1 DEF InBudget
<1> QED BY <1>5, <1>6, <1>7

-----------------------------------------------------------------------------
(* What the invariant says while a response is applied.                    *)
LEMMA WhileResponding ==
    ASSUME IInv, Responding
    PROVE  /\ at = "request" /\ stop \in BOOLEAN /\ mail \in BOOLEAN
           /\ rounds \in RoundsType /\ goal \in GoalType /\ guard \in GuardType
           /\ compact \in CompactType /\ exchange \in {"none", "own", "stale"}
           /\ tail \in {"results", "other"} /\ outcome \in Outcomes /\ hist \in HistType
           /\ Counted \in RoundsType
           /\ goal.finishing => hist.paused
           /\ outcome = "finished" /\ ~hist.own => hist.paused
           /\ Earned(guard.tokens, hist) /\ Bounded(compact, hist.forced)
           /\ Excused(hist.wrong)
           /\ hist.forced \in Nat
<1>1. /\ stop \in BOOLEAN /\ mail \in BOOLEAN
      /\ rounds \in RoundsType /\ goal \in GoalType /\ guard \in GuardType
      /\ compact \in CompactType /\ exchange \in {"none", "own", "stale"}
      /\ tail \in {"results", "other"} /\ outcome \in Outcomes /\ hist \in HistType
  BY Typed DEF IInv, HistOK
<1>2. at = "request" /\ hist.forced \in Nat
  BY <1>1 DEF Responding, HistType
<1> QED BY <1>1, <1>2, CountedFields DEF IInv, FinishFits

LEMMA RepairKeepsIInv == ASSUME IInv, RequestProtocolRepair PROVE IInv'
<1> USE DEF RequestProtocolRepair
<1>0. Responding
  OBVIOUS
<1>1. /\ at' = "dispatch" /\ at' \in Steps /\ mail' \in BOOLEAN
      /\ tail' \in {"results", "other"}
  BY <1>0, WhileResponding, GotoFacts DEF Heard
<1>2. /\ rounds' \in RoundsType /\ rounds'.n = rounds.n + 1 /\ rounds'.budget = rounds.budget
      /\ rounds'.repairs = rounds.repairs + 1
  <2>1. rounds.repairs + 1 \in 0 .. MaxRepairs
    BY <1>0, WhileResponding, Limits DEF RoundsType
  <2>2. /\ Counted \in RoundsType /\ Counted.n = rounds.n + 1
        /\ Counted.budget = rounds.budget /\ Counted.repairs = rounds.repairs
    BY <1>0, WhileResponding, CountedFields
  <2>3. rounds' = [Counted EXCEPT !.repairs = @ + 1]
    OBVIOUS
  <2> QED BY <2>1, <2>2, <2>3 DEF RoundsType
<1>3. InBudget(at', rounds', hist'.overrides)
  <2>1. /\ rounds.n \in Nat /\ rounds.budget \in Nat /\ rounds.repairs \in Nat
        /\ hist.overrides \in Nat
    BY <1>0, WhileResponding, Limits DEF RoundsType, HistType
  <2>2. rounds.budget # Unlimited => rounds.n < rounds.budget + rounds.repairs + hist.overrides
    BY <1>0, WhileResponding DEF IInv, InBudget
  <2> QED BY <1>2, <2>1, <2>2 DEF InBudget
<1>4. /\ MemoFits(at', goal'.memo, outcome') /\ Waits(at', batch')
      /\ FinishFits(at', goal'.finishing, outcome', hist')
  BY <1>0, <1>1, WhileResponding DEF MemoFits, Waits, FinishFits
<1> QED BY <1>0, <1>1, <1>2, <1>3, <1>4, WhileResponding, PartsKeepIInv

LEMMA GiveUpKeepsIInv ==
    ASSUME IInv, NEW found \in BOOLEAN, GiveUpRepair(found)
    PROVE  IInv'
<1> USE DEF GiveUpRepair
<1>0. Responding
  OBVIOUS
<1>1. /\ at' = "final" /\ at' \in Steps /\ mail' \in BOOLEAN
      /\ tail' \in {"results", "other"}
  BY <1>0, WhileResponding, GotoFacts DEF Heard
<1>2. rounds' \in RoundsType /\ InBudget(at', rounds', hist'.overrides)
  <2>1. /\ at = "request" /\ tail \in {"results", "other"} /\ hist' \in HistType /\ hist' = hist
        /\ rounds' = Counted /\ Goto("final", tail)
    BY <1>0, WhileResponding
  <2>2. hist'.overrides = Overriding(hist, "final").overrides
    BY <2>1 DEF Overriding, Heard
  <2> QED BY <2>1, <2>2, CountedInBudget
<1>3. outcome' \in Failures /\ outcome' \in Outcomes /\ outcome' # "finished"
  BY DEF Failures, Outcomes
<1>4. /\ MemoFits(at', goal'.memo, outcome') /\ Waits(at', batch')
      /\ FinishFits(at', goal'.finishing, outcome', hist')
  BY <1>0, <1>1, <1>3, WhileResponding DEF MemoFits, Waits, FinishFits
<1> QED BY <1>0, <1>1, <1>2, <1>3, <1>4, WhileResponding, PartsKeepIInv

-----------------------------------------------------------------------------
LEMMA GuardFields ==
    ASSUME guard \in GuardType
    PROVE  /\ guard.tokens \in Nat
           /\ guard.tokens > 0 => /\ Intercepted \in GuardType
                                  /\ Intercepted.tokens = guard.tokens - 1
           /\ \A memo \in BOOLEAN : /\ MemoClosed(memo) \in GuardType
                                    /\ MemoClosed(memo).tokens = guard.tokens
           /\ Recharged \in GuardType
           /\ Recharged.tokens \in Nat /\ Recharged.tokens <= guard.tokens + 1
<1>0. guard.tokens \in Nat /\ guard.tokens <= GuardCap
  BY Limits DEF GuardType
<1>1. ASSUME guard.tokens > 0
      PROVE  Intercepted \in GuardType /\ Intercepted.tokens = guard.tokens - 1
  <2> DEFINE n == guard.tokens - 1
  <2>1. n \in 0 .. GuardCap
    BY <1>0, <1>1, Limits
  <2>2. Intercepted = [guard EXCEPT !.tokens = n]
    BY DEF Intercepted
  <2> HIDE DEF n
  <2>3. Intercepted \in GuardType /\ Intercepted.tokens = n
    BY <2>1, <2>2 DEF GuardType
  <2> QED BY <2>3 DEF n
<1>2. ASSUME NEW memo \in BOOLEAN
      PROVE  MemoClosed(memo) \in GuardType /\ MemoClosed(memo).tokens = guard.tokens
  BY DEF MemoClosed, GuardType
<1>3. Recharged \in GuardType /\ Recharged.tokens \in Nat /\ Recharged.tokens <= guard.tokens + 1
  <2> DEFINE n == IF guard.tokens < GuardCap THEN guard.tokens + 1 ELSE GuardCap
  <2>1. n \in 0 .. GuardCap /\ n \in Nat /\ n <= guard.tokens + 1
    BY <1>0, Limits
  <2>2. Recharged = [guard EXCEPT !.tokens = n]
    BY DEF Recharged
  <2> HIDE DEF n
  <2>3. Recharged \in GuardType /\ Recharged.tokens = n
    BY <2>1, <2>2 DEF GuardType
  <2> QED BY <2>1, <2>3
<1> QED BY <1>0, <1>1, <1>2, <1>3

LEMMA UsagesReported == Usages \subseteq UsageReports
BY DEF Usages, UsageReports

LEMMA AnswerKeepsIInv ==
    ASSUME IInv, NEW usage \in Usages, AnswerInline(usage)
    PROVE  IInv'
<1>0. /\ Responding /\ ~compact.required /\ rounds' = Counted
      /\ compact' = UsageVerified(compact, usage)
      /\ UNCHANGED <<mode, batch, exchange, stop>>
  BY DEF AnswerInline
<1>1. compact' \in CompactType /\ Bounded(compact', hist.forced)
  BY <1>0, WhileResponding, UsagesReported, UsageBounded
<1>2. CASE GuardHolds(goal.memo, Counted)
  <2>1. /\ guard' = Intercepted /\ goal' = goal /\ outcome' = outcome
        /\ Goto("dispatch", "other")
        /\ hist' = [hist EXCEPT !.intercepted = @ + 1]
    BY <1>2 DEF AnswerInline
  <2>2. /\ hist' \in HistType /\ hist'.intercepted = hist.intercepted + 1
        /\ hist'.overrides = hist.overrides /\ hist'.worked = hist.worked
        /\ hist'.forced = hist.forced /\ hist'.paused = hist.paused
        /\ hist'.own = hist.own /\ hist'.wrong = hist.wrong
    BY <1>0, <2>1, WhileResponding DEF HistType
  <2>3. at' = "dispatch" /\ at' \in Steps /\ mail' \in BOOLEAN /\ tail' \in {"results", "other"}
    BY <2>1, GotoFacts DEF Heard
  <2>4. rounds' \in RoundsType /\ InBudget(at', rounds', hist'.overrides)
    <3>1. hist'.overrides = Overriding(hist, "dispatch").overrides
      BY <1>0, <2>2, WhileResponding, OverridingFields
    <3>2. at = "request" /\ Remaining(Counted) > 0
      BY <1>0, <1>2, WhileResponding DEF GuardHolds
    <3> QED BY <1>0, <2>1, <2>2, <3>1, <3>2, CountedInBudget
  <2>5. guard' \in GuardType /\ Earned(guard'.tokens, hist')
    <3>1. guard' \in GuardType /\ guard'.tokens = guard.tokens - 1 /\ guard.tokens \in Nat
      BY <1>0, <1>2, <2>1, WhileResponding, GuardFields DEF GuardHolds
    <3>2. hist.intercepted \in Nat /\ hist.worked \in Nat /\ GuardCap \in Nat
      BY <1>0, WhileResponding, Limits DEF HistType
    <3> QED BY <1>0, <2>2, <3>1, <3>2, WhileResponding DEF Earned
  <2>6. /\ MemoFits(at', goal'.memo, outcome') /\ Waits(at', batch')
        /\ FinishFits(at', goal'.finishing, outcome', hist')
    BY <1>0, <2>1, <2>2, <2>3, WhileResponding DEF MemoFits, Waits, FinishFits
  <2> QED BY <1>0, <1>1, <2>1, <2>2, <2>3, <2>4, <2>5, <2>6, WhileResponding, PartsKeepIInv
<1>3. CASE ~GuardHolds(goal.memo, Counted)
  <2>1. /\ guard' = MemoClosed(goal.memo) /\ goal' = [goal EXCEPT !.memo = FALSE]
        /\ outcome' = "answered" /\ Goto("final", tail) /\ hist' = hist
    BY <1>3 DEF AnswerInline
  <2>2. at' = "final" /\ at' \in Steps /\ mail' \in BOOLEAN /\ tail' \in {"results", "other"}
    BY <1>0, <2>1, WhileResponding, GotoFacts DEF Heard
  <2>3. rounds' \in RoundsType /\ InBudget(at', rounds', hist'.overrides)
    <3>1. /\ at = "request" /\ tail \in {"results", "other"} /\ hist' \in HistType
          /\ rounds' = Counted /\ Goto("final", tail)
      BY <1>0, <2>1, WhileResponding DEF AnswerInline
    <3>2. hist'.overrides = Overriding(hist, "final").overrides
      BY <2>1 DEF Overriding, Heard
    <3> QED BY <3>1, <3>2, CountedInBudget
  <2>4. guard' \in GuardType /\ Earned(guard'.tokens, hist')
    BY <1>0, <2>1, WhileResponding, GuardFields DEF GoalType, Earned
  <2>5. goal' \in GoalType /\ ~goal'.memo /\ goal'.finishing = goal.finishing
    BY <1>0, <2>1, WhileResponding DEF GoalType
  <2>6. /\ MemoFits(at', goal'.memo, outcome') /\ Waits(at', batch')
        /\ FinishFits(at', goal'.finishing, outcome', hist')
    BY <1>0, <2>1, <2>2, <2>5, WhileResponding DEF MemoFits, Waits, FinishFits
  <2>7. outcome' \in Outcomes
    BY <2>1 DEF Outcomes
  <2> QED BY <1>0, <1>1, <2>1, <2>2, <2>3, <2>4, <2>5, <2>6, <2>7, WhileResponding, PartsKeepIInv
<1> QED BY <1>2, <1>3

(* A response that changes no goal and asks for nothing.                   *)
LEMMA WorkGoesOn ==
    ASSUME IInv, Responding, rounds' = Counted,
           NEW t \in {"results", "other"}, Goto(AfterWork(Counted), t),
           UNCHANGED <<mode, goal, guard, batch, exchange, stop, outcome>>,
           compact' \in CompactType, Bounded(compact', hist'.forced),
           hist' \in HistType,
           hist'.overrides = Overriding(hist, AfterWork(Counted)).overrides,
           hist'.intercepted = hist.intercepted, hist'.worked = hist.worked,
           hist'.paused = hist.paused, hist'.own = hist.own, hist'.wrong = hist.wrong
    PROVE  IInv'
<1> DEFINE next == AfterWork(Counted)
<1>1. next \in {"dispatch", "limit"} /\ (next = "dispatch" => Remaining(Counted) > 0)
  BY WhileResponding, RoundsLeft
<1> HIDE DEF next
<1>2. /\ at' \in {"dispatch", "limit"} /\ at' \in Steps /\ mail' \in BOOLEAN
      /\ tail' \in {"results", "other"}
  BY <1>1, GotoFacts DEF next
<1>3. rounds' \in RoundsType /\ InBudget(at', rounds', hist'.overrides)
  BY <1>1, WhileResponding, CountedInBudget DEF next
<1>4. /\ MemoFits(at', goal'.memo, outcome') /\ Waits(at', batch')
      /\ FinishFits(at', goal'.finishing, outcome', hist')
      /\ Earned(guard'.tokens, hist') /\ Excused(hist'.wrong)
  BY <1>2, WhileResponding DEF MemoFits, Waits, FinishFits, Earned
<1> QED BY <1>2, <1>3, <1>4, WhileResponding, PartsKeepIInv

LEMMA TextKeepsIInv ==
    ASSUME IInv, NEW usage \in Usages, TextAlone(usage)
    PROVE  IInv'
<1>0. /\ Responding /\ ~compact.required /\ rounds' = Counted
      /\ compact' = UsageVerified(compact, usage)
      /\ Goto(AfterWork(Counted), "other")
      /\ hist' = Overriding(hist, AfterWork(Counted))
      /\ UNCHANGED <<mode, goal, guard, batch, exchange, stop, outcome>>
  BY DEF TextAlone
<1>1. compact' \in CompactType /\ Bounded(compact', hist.forced)
  BY <1>0, WhileResponding, UsagesReported, UsageBounded
<1>2. /\ hist' \in HistType /\ hist'.forced = hist.forced
      /\ hist'.intercepted = hist.intercepted /\ hist'.worked = hist.worked
      /\ hist'.paused = hist.paused /\ hist'.own = hist.own /\ hist'.wrong = hist.wrong
  BY <1>0, WhileResponding, OverridingFields
<1> QED BY <1>0, <1>1, <1>2, WorkGoesOn

LEMMA CompactKeepsIInv ==
    ASSUME IInv, NEW how \in {"good", "poor", "bad"}, NEW crossed \in BOOLEAN,
           CompactAlone(how, crossed)
    PROVE  IInv'
<1> DEFINE forced == IF crossed THEN ForcedAfter(hist.forced, compact, how) ELSE 0
           h == Overriding(hist, AfterWork(Counted))
<1>0. /\ Responding /\ rounds' = Counted
      /\ compact' = Reviewed(AfterCompaction(compact, how, "unknown"), crossed)
      /\ Goto(AfterWork(Counted), IF how = "bad" THEN "results" ELSE "other")
      /\ UNCHANGED <<mode, goal, guard, batch, exchange, stop, outcome>>
  BY DEF CompactAlone
<1>1. /\ h \in HistType /\ h.forced = hist.forced
      /\ h.intercepted = hist.intercepted /\ h.worked = hist.worked
      /\ h.paused = hist.paused /\ h.own = hist.own /\ h.wrong = hist.wrong
  BY <1>0, WhileResponding, OverridingFields
<1>2. hist' = [h EXCEPT !.forced = forced]
  BY <1>1 DEF CompactAlone
<1>3. /\ AfterCompaction(compact, how, "unknown") \in CompactType
      /\ ForcedAfter(hist.forced, compact, how) \in Nat
      /\ Bounded(AfterCompaction(compact, how, "unknown"), ForcedAfter(hist.forced, compact, how))
  BY <1>0, WhileResponding, CompactionBounded DEF Hows, UsageReports
<1>4. forced \in Nat /\ compact' \in CompactType /\ Bounded(compact', forced)
  BY <1>0, <1>3, ReviewedBounded
<1> HIDE DEF forced, h
<1>5. /\ hist' \in HistType /\ hist'.forced = forced /\ hist'.overrides = h.overrides
      /\ hist'.intercepted = hist.intercepted /\ hist'.worked = hist.worked
      /\ hist'.paused = hist.paused /\ hist'.own = hist.own /\ hist'.wrong = hist.wrong
  BY <1>1, <1>2, <1>4 DEF HistType
<1> QED BY <1>0, <1>4, <1>5, WorkGoesOn DEF h

-----------------------------------------------------------------------------
(* Responses with tool calls: b is the batch as far as it ran.             *)
Compactings == {"none", "good", "poor"}

LEMMA CarriedCompaction ==
    ASSUME IInv, NEW how \in Compactings, MayCarry(how), NEW usage \in Usages
    PROVE  /\ AfterCompaction(compact, how, usage) \in CompactType
           /\ ForcedAfter(hist.forced, compact, how) \in Nat
           /\ Bounded(AfterCompaction(compact, how, usage), ForcedAfter(hist.forced, compact, how))
BY WhileResponding, UsagesReported, CompactionBounded DEF MayCarry, Compactings, Hows

LEMMA RunGoalFields ==
    ASSUME IInv, NEW b
    PROVE  /\ RunGoal(b) \in GoalType
           /\ RunGoal(b).finishing => goal.finishing \/ "finish" \in Range(b.calls)
<1> DEFINE ks == {k \in DOMAIN b.calls : b.ran[k] > 0}
<1>1. goal \in GoalType
  BY Typed DEF IInv
<1>2. /\ RunGoal(b) \in GoalType
      /\ RunGoal(b).finishing => goal.finishing \/ \E k \in ks : b.calls[k] = "finish"
  <2> HIDE DEF ks
  <2>1. RunGoal(b) = Effects(goal, b.calls, ks)
    BY DEF RunGoal, ks
  <2> QED BY <1>1, <2>1, EffectsFields
<1> QED BY <1>2 DEF Range

LEMMA PauseKeepsIInv ==
    ASSUME IInv, NEW b, Orderly(b), NEW how \in Compactings, NEW usage \in Usages,
           PauseForApproval(b, how, usage)
    PROVE  IInv'
<1> DEFINE h == Overriding(hist, "approval")
           forced == ForcedAfter(hist.forced, compact, how)
           t == IF b.lines = <<>> THEN "other" ELSE ResultTail
<1>0. /\ Responding /\ MayCarry(how) /\ rounds' = Counted
      /\ compact' = AfterCompaction(compact, how, usage)
      /\ batch' = IF Heard("approval") THEN NoBatch ELSE b
      /\ goal' = RunGoal(b)
      /\ exchange' = ExchangeAfter(IF mode.native THEN "own" ELSE exchange, "approval")
      /\ Goto("approval", t)
      /\ UNCHANGED <<mode, guard, stop, outcome>>
  BY DEF PauseForApproval, MayCarry
<1>1. /\ h \in HistType /\ h.intercepted = hist.intercepted /\ h.worked = hist.worked
      /\ h.forced = hist.forced /\ h.wrong = hist.wrong
  BY <1>0, WhileResponding, OverridingFields
<1>2. hist' = [h EXCEPT !.paused = TRUE, !.forced = forced]
  BY <1>1 DEF PauseForApproval
<1>3. compact' \in CompactType /\ forced \in Nat /\ Bounded(compact', forced)
  BY <1>0, CarriedCompaction
<1>4. t \in {"results", "other"}
  BY DEF ResultTail
<1> HIDE DEF h, forced, t
<1>5. /\ hist' \in HistType /\ hist'.paused /\ hist'.forced = forced
      /\ hist'.overrides = h.overrides
      /\ hist'.intercepted = hist.intercepted /\ hist'.worked = hist.worked
      /\ hist'.wrong = hist.wrong
  BY <1>1, <1>2, <1>3 DEF HistType
<1>6. /\ at' \in {"approval", "dispatch"} /\ at' \in Steps /\ mail' \in BOOLEAN
      /\ tail' \in {"results", "other"} /\ (at' = "approval" => ~Heard("approval"))
  BY <1>0, <1>4, GotoFacts
<1>7. rounds' \in RoundsType /\ InBudget(at', rounds', hist'.overrides)
  BY <1>0, <1>4, <1>5, WhileResponding, CountedInBudget DEF h
<1>8. goal' \in GoalType
  BY <1>0, RunGoalFields
<1>9. exchange' \in {"none", "own", "stale"}
  BY <1>0, WhileResponding DEF ExchangeAfter
<1>10. /\ MemoFits(at', goal'.memo, outcome') /\ Waits(at', batch')
       /\ FinishFits(at', goal'.finishing, outcome', hist')
       /\ Earned(guard'.tokens, hist') /\ Excused(hist'.wrong)
  BY <1>0, <1>5, <1>6, WhileResponding DEF MemoFits, Waits, FinishFits, Earned
<1> QED
  BY <1>0, <1>3, <1>5, <1>6, <1>7, <1>8, <1>9, <1>10, WhileResponding, PartsKeepIInv

LEMMA FinishKeepsIInv ==
    ASSUME IInv, NEW b, NEW how \in Compactings, NEW usage \in Usages,
           FinishByCall(b, how, usage)
    PROVE  IInv'
<1> DEFINE forced == ForcedAfter(hist.forced, compact, how)
           own == "finish" \in Range(b.calls)
<1>0. /\ Responding /\ MayCarry(how) /\ rounds' = Counted
      /\ compact' = AfterCompaction(compact, how, usage)
      /\ RunGoal(b).finishing
      /\ UNCHANGED <<mode, batch, exchange, stop>>
  BY DEF FinishByCall, MayCarry
<1>1. compact' \in CompactType /\ forced \in Nat /\ Bounded(compact', forced)
  BY <1>0, CarriedCompaction
<1>2. RunGoal(b) \in GoalType /\ (goal.finishing \/ own)
  BY <1>0, RunGoalFields
<1>3. CASE GuardHolds(RunGoal(b).memo, Counted)
  <2>1. /\ guard' = Intercepted /\ goal' = WithoutSummary(RunGoal(b)) /\ outcome' = outcome
        /\ Goto("dispatch", ResultTail)
        /\ hist' = [hist EXCEPT !.intercepted = @ + 1, !.forced = forced]
    BY <1>3 DEF FinishByCall
  <2>2. /\ hist' \in HistType /\ hist'.intercepted = hist.intercepted + 1
        /\ hist'.overrides = hist.overrides /\ hist'.worked = hist.worked
        /\ hist'.forced = forced /\ hist'.paused = hist.paused
        /\ hist'.own = hist.own /\ hist'.wrong = hist.wrong
    <3> DEFINE n == hist.intercepted + 1
    <3>1. hist \in HistType /\ n \in Nat
      BY <1>0, WhileResponding DEF HistType
    <3>2. hist' = [hist EXCEPT !.intercepted = n, !.forced = forced]
      BY <2>1
    <3> HIDE DEF forced, n
    <3>3. /\ hist' \in HistType /\ hist'.intercepted = n
          /\ hist'.overrides = hist.overrides /\ hist'.worked = hist.worked
          /\ hist'.forced = forced /\ hist'.paused = hist.paused
          /\ hist'.own = hist.own /\ hist'.wrong = hist.wrong
      BY <1>1, <3>1, <3>2 DEF HistType
    <3> QED BY <3>3 DEF n
  <2>3. at' = "dispatch" /\ at' \in Steps /\ mail' \in BOOLEAN /\ tail' \in {"results", "other"}
    BY <2>1, GotoFacts DEF Heard, ResultTail
  <2>4. rounds' \in RoundsType /\ InBudget(at', rounds', hist'.overrides)
    <3>1. hist'.overrides = Overriding(hist, "dispatch").overrides
      BY <1>0, <2>2, WhileResponding, OverridingFields
    <3>2. at = "request" /\ Remaining(Counted) > 0
      BY <1>0, <1>3, WhileResponding DEF GuardHolds
    <3>3. ResultTail \in {"results", "other"}
      BY DEF ResultTail
    <3> QED BY <1>0, <2>1, <2>2, <3>1, <3>2, <3>3, CountedInBudget
  <2>5. guard' \in GuardType /\ Earned(guard'.tokens, hist')
    <3>1. guard' \in GuardType /\ guard'.tokens = guard.tokens - 1 /\ guard.tokens \in Nat
      BY <1>0, <1>3, <2>1, WhileResponding, GuardFields DEF GuardHolds
    <3>2. hist.intercepted \in Nat /\ hist.worked \in Nat /\ GuardCap \in Nat
      BY <1>0, WhileResponding, Limits DEF HistType
    <3> QED BY <1>0, <2>2, <3>1, <3>2, WhileResponding DEF Earned
  <2>6. goal' \in GoalType /\ ~goal'.finishing
    BY <1>2, <2>1 DEF WithoutSummary, GoalType
  <2>7. /\ MemoFits(at', goal'.memo, outcome') /\ Waits(at', batch')
        /\ FinishFits(at', goal'.finishing, outcome', hist')
    BY <1>0, <2>1, <2>2, <2>3, <2>6, WhileResponding DEF MemoFits, Waits, FinishFits
  <2> QED
    BY <1>0, <1>1, <2>1, <2>2, <2>3, <2>4, <2>5, <2>6, <2>7, WhileResponding, PartsKeepIInv
<1>4. CASE ~GuardHolds(RunGoal(b).memo, Counted)
  <2>1. /\ guard' = MemoClosed(RunGoal(b).memo)
        /\ goal' = [memo |-> FALSE, finishing |-> FALSE]
        /\ outcome' = "finished" /\ Goto("final", tail)
        /\ hist' = [hist EXCEPT !.forced = forced, !.own = own]
    BY <1>4 DEF FinishByCall
  <2>2. /\ hist' \in HistType /\ hist'.intercepted = hist.intercepted
        /\ hist'.overrides = hist.overrides /\ hist'.worked = hist.worked
        /\ hist'.forced = forced /\ hist'.paused = hist.paused
        /\ hist'.own = own /\ hist'.wrong = hist.wrong
    <3>1. own \in BOOLEAN
      OBVIOUS
    <3> HIDE DEF forced, own
    <3> QED BY <3>1, <1>0, <1>1, <2>1, WhileResponding DEF HistType
  <2>3. at' = "final" /\ at' \in Steps /\ mail' \in BOOLEAN /\ tail' \in {"results", "other"}
    BY <1>0, <2>1, WhileResponding, GotoFacts DEF Heard
  <2>4. rounds' \in RoundsType /\ InBudget(at', rounds', hist'.overrides)
    BY <1>0, <2>1, <2>2, WhileResponding, CountedInBudget, OverridingFields
  <2>5. guard' \in GuardType /\ Earned(guard'.tokens, hist')
    <3>1. RunGoal(b).memo \in BOOLEAN
      BY <1>2 DEF GoalType
    <3> QED BY <1>0, <2>1, <2>2, <3>1, WhileResponding, GuardFields DEF Earned
  <2>6. goal' \in GoalType /\ ~goal'.memo /\ ~goal'.finishing /\ outcome' \in Outcomes
    BY <2>1 DEF GoalType, Outcomes
  <2>7. /\ MemoFits(at', goal'.memo, outcome') /\ Waits(at', batch')
        /\ FinishFits(at', goal'.finishing, outcome', hist')
    BY <1>0, <1>2, <2>1, <2>2, <2>3, <2>6, WhileResponding DEF MemoFits, Waits, FinishFits
  <2> QED
    BY <1>0, <1>1, <2>1, <2>2, <2>3, <2>4, <2>5, <2>6, <2>7, WhileResponding, PartsKeepIInv
<1> QED BY <1>3, <1>4

LEMMA WorkKeepsIInv ==
    ASSUME IInv, NEW b, NEW how \in Compactings, NEW usage \in Usages,
           NEW crossed \in BOOLEAN, KeepWorking(b, how, usage, crossed)
    PROVE  IInv'
<1> DEFINE next == AfterWork(Counted)
           h == Overriding(hist, next)
           forced == IF crossed THEN ForcedAfter(hist.forced, compact, how) ELSE 0
<1>0. /\ Responding /\ MayCarry(how) /\ rounds' = Counted
      /\ compact' = Reviewed(AfterCompaction(compact, how, usage), crossed)
      /\ ~RunGoal(b).finishing /\ goal' = RunGoal(b) /\ guard' = Recharged
      /\ Goto(next, ResultTail)
      /\ UNCHANGED <<mode, batch, exchange, stop, outcome>>
  BY DEF KeepWorking, MayCarry
<1>1. /\ h \in HistType /\ h.intercepted = hist.intercepted /\ h.worked = hist.worked
      /\ h.forced = hist.forced /\ h.paused = hist.paused /\ h.own = hist.own
      /\ h.wrong = hist.wrong /\ h.worked \in Nat
  BY <1>0, WhileResponding, OverridingFields DEF HistType
<1>2. hist' = [h EXCEPT !.worked = @ + 1, !.forced = forced]
  BY <1>1 DEF KeepWorking
<1>3. compact' \in CompactType /\ forced \in Nat /\ Bounded(compact', forced)
  BY <1>0, CarriedCompaction, ReviewedBounded
<1>4. /\ next \in {"dispatch", "limit"} /\ (next = "dispatch" => Remaining(Counted) > 0)
      /\ ResultTail \in {"results", "other"}
  BY <1>0, WhileResponding, RoundsLeft DEF ResultTail
<1> HIDE DEF next, h, forced
<1>5. /\ hist' \in HistType /\ hist'.forced = forced /\ hist'.overrides = h.overrides
      /\ hist'.intercepted = hist.intercepted /\ hist'.worked = hist.worked + 1
      /\ hist'.paused = hist.paused /\ hist'.own = hist.own /\ hist'.wrong = hist.wrong
  <2> DEFINE n == h.worked + 1
  <2>1. n \in Nat /\ hist' = [h EXCEPT !.worked = n, !.forced = forced]
    BY <1>1, <1>2
  <2> HIDE DEF n
  <2>2. /\ hist' \in HistType /\ hist'.forced = forced /\ hist'.overrides = h.overrides
        /\ hist'.intercepted = h.intercepted /\ hist'.worked = n
        /\ hist'.paused = h.paused /\ hist'.own = h.own /\ hist'.wrong = h.wrong
    BY <1>1, <1>3, <2>1 DEF HistType
  <2> QED BY <1>1, <2>2 DEF n
<1>6. /\ at' \in {"dispatch", "limit"} /\ at' \in Steps /\ mail' \in BOOLEAN
      /\ tail' \in {"results", "other"}
  BY <1>0, <1>4, GotoFacts
<1>7. rounds' \in RoundsType /\ InBudget(at', rounds', hist'.overrides)
  BY <1>0, <1>4, <1>5, WhileResponding, CountedInBudget DEF h
<1>8. goal' \in GoalType /\ ~goal'.finishing
  BY <1>0, RunGoalFields
<1>9. guard' \in GuardType /\ Earned(guard'.tokens, hist')
  <2>1. /\ guard' \in GuardType /\ guard'.tokens \in Nat /\ guard'.tokens <= guard.tokens + 1
        /\ guard.tokens \in Nat
    BY <1>0, WhileResponding, GuardFields
  <2>2. hist.intercepted \in Nat /\ hist.worked \in Nat /\ GuardCap \in Nat
    BY <1>0, WhileResponding, Limits DEF HistType
  <2> QED BY <1>0, <1>5, <2>1, <2>2, WhileResponding DEF Earned
<1>10. /\ MemoFits(at', goal'.memo, outcome') /\ Waits(at', batch')
       /\ FinishFits(at', goal'.finishing, outcome', hist') /\ Excused(hist'.wrong)
  BY <1>0, <1>5, <1>6, <1>8, WhileResponding DEF MemoFits, Waits, FinishFits
<1> QED
  BY <1>0, <1>3, <1>5, <1>6, <1>7, <1>8, <1>9, <1>10, WhileResponding, PartsKeepIInv

-----------------------------------------------------------------------------
(* The bounds of a turn, and its end by a Stop.                            *)
LEMMA BeginKeepsIInv ==
    ASSUME IInv, NEW crossed \in BOOLEAN, BeginTurn(crossed)
    PROVE  IInv'
<1> DEFINE forced == IF crossed THEN hist.forced ELSE 0
<1>0. /\ compact \in CompactType /\ goal \in GoalType /\ guard \in GuardType
      /\ exchange \in {"none", "own", "stale"} /\ hist \in HistType
      /\ hist.forced \in Nat /\ Bounded(compact, hist.forced)
  BY Typed DEF IInv, HistOK, HistType
<1>1. /\ at = "idle" /\ guard.turns < MaxTurns
      /\ at' = "dispatch" /\ stop' = FALSE /\ mail' = FALSE /\ outcome' = "none"
      /\ rounds' = [n |-> 0, budget |-> Budget, repairs |-> 0]
      /\ goal' = WithoutSummary(goal)
      /\ guard' = [tokens |-> GuardCap, note |-> "none", turns |-> guard.turns + 1]
      /\ compact' = Reviewed(compact, crossed)
      /\ exchange' \in {"none", "stale"} /\ tail' = "other" /\ mode' = mode
  BY DEF BeginTurn
<1>2. hist' = [FreshHist EXCEPT !.requests = hist.requests, !.updates = hist.updates,
                                !.forced = forced]
  BY DEF BeginTurn
<1>3. forced \in Nat /\ hist.requests \in Nat /\ hist.updates \in Nat
  BY <1>0 DEF HistType
<1>4. compact' \in CompactType /\ Bounded(compact', forced)
  BY <1>0, <1>1, ReviewedBounded
<1> HIDE DEF forced
<1>5. /\ hist' \in HistType /\ hist'.forced = forced /\ hist'.overrides = 0
      /\ hist'.intercepted = 0 /\ hist'.worked = 0 /\ hist'.own /\ hist'.wrong = {}
  BY <1>2, <1>3 DEF FreshHist, HistType
<1>6. /\ rounds' \in RoundsType /\ rounds'.n = 0 /\ rounds'.repairs = 0
      /\ rounds'.budget = Budget
  BY <1>1, Limits DEF RoundsType
<1>7. guard' \in GuardType /\ guard'.tokens = GuardCap
  <2>1. guard.turns + 1 \in 0 .. MaxTurns /\ GuardCap \in 0 .. GuardCap
    BY <1>0, <1>1, Limits DEF GuardType
  <2> QED BY <1>1, <2>1 DEF GuardType
<1>8. goal' \in GoalType /\ ~goal'.finishing
  BY <1>0, <1>1 DEF WithoutSummary, GoalType
<1>9. InBudget(at', rounds', hist'.overrides) /\ Earned(guard'.tokens, hist')
  BY <1>5, <1>6, <1>7, Limits DEF InBudget, Earned
<1>10. /\ MemoFits(at', goal'.memo, outcome') /\ Waits(at', batch')
       /\ FinishFits(at', goal'.finishing, outcome', hist') /\ Excused(hist'.wrong)
  BY <1>1, <1>5, <1>8 DEF MemoFits, Waits, FinishFits, Excused
<1>11. at' \in Steps /\ outcome' \in Outcomes
  BY <1>1 DEF Steps, Outcomes
<1> QED
  BY <1>1, <1>4, <1>5, <1>6, <1>7, <1>8, <1>9, <1>10, <1>11, PartsKeepIInv

LEMMA ManualKeepsIInv == ASSUME IInv, RequestManualCompaction PROVE IInv'
<1>0. /\ at \in Steps /\ rounds \in RoundsType /\ goal \in GoalType /\ guard \in GuardType
      /\ compact \in CompactType /\ exchange \in {"none", "own", "stale"}
      /\ tail \in {"results", "other"} /\ stop \in BOOLEAN /\ mail \in BOOLEAN
      /\ outcome \in Outcomes /\ hist \in HistType
  BY Typed DEF IInv, HistOK
<1>1. /\ at = "dispatch"
      /\ compact' = [compact EXCEPT !.manual = TRUE, !.required = TRUE]
      /\ UNCHANGED <<at, mode, rounds, goal, guard, batch, exchange, tail, stop, mail, outcome>>
  BY DEF RequestManualCompaction
<1>2. /\ hist' \in HistType /\ hist'.forced = 0 /\ hist'.overrides = hist.overrides
      /\ hist'.intercepted = hist.intercepted /\ hist'.worked = hist.worked
      /\ hist'.paused = hist.paused /\ hist'.own = hist.own /\ hist'.wrong = hist.wrong
  <2> DEFINE n == hist.updates + 1
  <2>1. n \in Nat /\ hist' = [hist EXCEPT !.forced = 0, !.updates = n]
    BY <1>0 DEF RequestManualCompaction, HistType
  <2> HIDE DEF n
  <2> QED BY <1>0, <2>1 DEF HistType
<1>3. compact' \in CompactType /\ Bounded(compact', 0)
  <2>1. /\ compact' \in CompactType /\ compact'.manual /\ compact'.required
        /\ compact'.threshold = compact.threshold /\ compact'.followup = compact.followup
    BY <1>0, <1>1 DEF CompactType
  <2> QED BY <2>1 DEF Bounded
<1>4. /\ InBudget(at', rounds', hist'.overrides) /\ Earned(guard'.tokens, hist')
      /\ MemoFits(at', goal'.memo, outcome') /\ Waits(at', batch')
      /\ FinishFits(at', goal'.finishing, outcome', hist') /\ Excused(hist'.wrong)
  BY <1>1, <1>2 DEF IInv, InBudget, Earned, MemoFits, Waits, FinishFits, Excused
<1> QED BY <1>0, <1>1, <1>2, <1>3, <1>4, PartsKeepIInv

LEMMA ContinueKeepsIInv == ASSUME IInv, ContinueAfterRoundLimit PROVE IInv'
<1>0. /\ at \in Steps /\ rounds \in RoundsType /\ goal \in GoalType /\ guard \in GuardType
      /\ compact \in CompactType /\ exchange \in {"none", "own", "stale"}
      /\ tail \in {"results", "other"} /\ stop \in BOOLEAN /\ mail \in BOOLEAN
      /\ outcome \in Outcomes /\ hist \in HistType
  BY Typed DEF IInv, HistOK
<1>1. /\ at = "limit_asked" /\ at' = "dispatch" /\ tail' = "results" /\ at' \in Steps
      /\ UNCHANGED <<mode, goal, guard, compact, batch, exchange, stop, mail, outcome, hist>>
  BY DEF ContinueAfterRoundLimit, Steps
<1>2. rounds' \in RoundsType /\ rounds'.budget = Unlimited
  BY <1>0, Limits DEF ContinueAfterRoundLimit, RoundsType
<1>3. /\ InBudget(at', rounds', hist'.overrides) /\ Earned(guard'.tokens, hist')
      /\ MemoFits(at', goal'.memo, outcome') /\ Waits(at', batch')
      /\ FinishFits(at', goal'.finishing, outcome', hist') /\ Excused(hist'.wrong)
      /\ Bounded(compact', hist'.forced)
  BY <1>1, <1>2
     DEF IInv, InBudget, Earned, MemoFits, Waits, FinishFits, Excused, Bounded
<1> QED BY <1>0, <1>1, <1>2, <1>3, PartsKeepIInv

LEMMA CancelKeepsIInv == ASSUME IInv, CancelTurn PROVE IInv'
<1>0. /\ rounds \in RoundsType /\ goal \in GoalType /\ guard \in GuardType
      /\ compact \in CompactType /\ exchange \in {"none", "own", "stale"}
      /\ tail \in {"results", "other"} /\ hist \in HistType
  BY Typed DEF IInv, HistOK
<1>1. /\ stop' = FALSE /\ at' = "idle" /\ mail' = FALSE /\ outcome' = "cancelled"
      /\ at' \in Steps /\ outcome' \in Outcomes
      /\ UNCHANGED <<mode, rounds, compact, batch, exchange, tail, hist>>
  BY DEF CancelTurn, Steps, Outcomes
<1>2. guard' \in GuardType /\ guard'.tokens = guard.tokens
  BY <1>0 DEF CancelTurn, GuardType
<1>3. goal' \in GoalType /\ ~goal'.memo
  BY <1>0 DEF CancelTurn, GoalType
<1>4. /\ InBudget(at', rounds', hist'.overrides) /\ Earned(guard'.tokens, hist')
      /\ MemoFits(at', goal'.memo, outcome') /\ Waits(at', batch')
      /\ FinishFits(at', goal'.finishing, outcome', hist') /\ Excused(hist'.wrong)
      /\ Bounded(compact', hist'.forced)
  BY <1>1, <1>2, <1>3
     DEF IInv, InBudget, Earned, MemoFits, Waits, FinishFits, Excused, Bounded
<1> QED BY <1>0, <1>1, <1>2, <1>3, <1>4, PartsKeepIInv

-----------------------------------------------------------------------------
(* The order of a batch.                                                   *)
LEMMA BatchShape ==
    ASSUME NEW calls \in Batches
    PROVE  /\ calls \in Seq(Kinds) /\ Len(calls) \in Nat /\ Len(calls) > 0
           /\ DOMAIN calls = 1 .. Len(calls)
<1>1. calls \in Seq(Kinds) /\ calls # <<>>
  BY TurnAssumption
<1> QED BY <1>1, LenProperties, EmptySeq

LEMMA FirstOfCalls ==
    ASSUME NEW calls \in Batches, NEW ks \in SUBSET DOMAIN calls
    PROVE  /\ FirstOf(ks, calls) \in 1 .. Len(calls) + 1
           /\ FirstOf(ks, calls) <= Len(calls) => FirstOf(ks, calls) \in ks
           /\ \A k \in ks : FirstOf(ks, calls) <= k
<1>0. Len(calls) \in Nat /\ ks \subseteq 1 .. Len(calls)
  BY BatchShape
<1>1. CASE ks = {}
  BY <1>0, <1>1 DEF FirstOf
<1>2. CASE ks # {}
  <2>1. ks \in SUBSET Nat
    BY <1>0
  <2>2. Min(ks) \in ks /\ \A k \in ks : Min(ks) <= k
    BY <1>2, <2>1, MinOfNats
  <2>3. FirstOf(ks, calls) = Min(ks)
    BY <1>2 DEF FirstOf
  <2> HIDE DEF FirstOf
  <2> QED BY <1>0, <2>2, <2>3
<1> QED BY <1>1, <1>2

(* The first m calls, in order, are themselves.                            *)
LEMMA FirstInOrder ==
    ASSUME NEW calls \in Batches, NEW m \in Nat, m <= Len(calls)
    PROVE  /\ InOrder(calls, 1 .. m) \in Seq(Nat)
           /\ Len(InOrder(calls, 1 .. m)) = m
           /\ \A n \in 1 .. m : InOrder(calls, 1 .. m)[n] = n
<1> DEFINE upTo(k) == {j \in 1 .. m : j <= k}
           nth(n) == CHOOSE k \in DOMAIN calls : k \in 1 .. m /\ Cardinality(upTo(k)) = n
<1>0. DOMAIN calls = 1 .. Len(calls) /\ Len(calls) \in Nat
  BY BatchShape
<1>1. Cardinality(1 .. m) = m
  BY FS_Interval
<1>2. ASSUME NEW k \in 1 .. m PROVE Cardinality(upTo(k)) = k
  <2>1. upTo(k) = 1 .. k
    OBVIOUS
  <2> HIDE DEF upTo
  <2> QED BY <2>1, FS_Interval
<1>3. InOrder(calls, 1 .. m) = [n \in 1 .. m |-> nth(n)]
  BY <1>1, Zenon DEF InOrder
<1>4. ASSUME NEW n \in 1 .. m PROVE nth(n) = n
  <2> HIDE DEF upTo
  <2>1. n \in DOMAIN calls /\ n \in 1 .. m /\ Cardinality(upTo(n)) = n
    BY <1>0, <1>2
  <2>2. nth(n) \in 1 .. m /\ Cardinality(upTo(nth(n))) = n
    BY <2>1, Zenon
  <2> QED BY <2>2, <1>2
<1> HIDE DEF nth
<1>5. InOrder(calls, 1 .. m) = [n \in 1 .. m |-> n]
  BY <1>3, <1>4
<1> QED BY <1>5

LEMMA StartedOrderly ==
    ASSUME NEW calls \in Batches, NEW parallel \in BOOLEAN, NEW ask \in BOOLEAN,
           parallel => Len(calls) > 1,
           Started(calls, parallel, ask).due # 0
    PROVE  Orderly(Started(calls, parallel, ask))
<1> DEFINE asking == {k \in DOMAIN calls : NeedsApproval(calls[k], ask)}
           due == FirstOf(asking, calls)
           ks == {k \in DOMAIN calls : k < due}
           ran == Executed([k \in DOMAIN calls |-> 0], ks)
           lines == IF parallel /\ due <= Len(calls) THEN <<>> ELSE InOrder(calls, ks)
           b == [calls |-> calls, parallel |-> parallel, ran |-> ran,
                 due |-> IF due <= Len(calls) THEN due ELSE 0,
                 group |-> parallel /\ due <= Len(calls), approved |-> {}, denied |-> {},
                 done |-> ks, always |-> FALSE, lines |-> lines]
<1>1. Started(calls, parallel, ask) = b
  BY Zenon DEF Started
<1>2. DOMAIN calls = 1 .. Len(calls) /\ Len(calls) \in Nat
  BY BatchShape
<1>3. due \in 1 .. Len(calls) + 1
  BY FirstOfCalls, asking \in SUBSET DOMAIN calls
<1> HIDE DEF ran, lines, due
<1>4. /\ DOMAIN b = BatchFields /\ b.calls = calls /\ b.approved = {} /\ b.denied = {}
      /\ b.done = ks /\ b.lines = lines /\ b.group = (parallel /\ due <= Len(calls))
      /\ b.due = IF due <= Len(calls) THEN due ELSE 0
  BY DEF BatchFields
<1> HIDE DEF b
<1>5. due <= Len(calls) /\ b.due = due /\ b.group = parallel
  BY <1>1, <1>4
<1>6. due \in DOMAIN calls
  BY <1>2, <1>3, <1>5
<1>7. ASSUME parallel PROVE Orderly(b)
  BY <1>2, <1>4, <1>5, <1>6, <1>7 DEF Orderly
<1>8. ASSUME ~parallel PROVE Orderly(b)
  <2>1. ks = 1 .. due - 1
    BY <1>2, <1>6
  <2>2. b.lines = InOrder(calls, 1 .. due - 1)
    BY <1>4, <1>8, <2>1 DEF lines
  <2> QED BY <1>4, <1>5, <1>6, <1>8, <2>2 DEF Orderly
<1>9. Orderly(b)
  BY <1>7, <1>8
<1> QED BY <1>1, <1>9

(* The user answers for a call on its own: its result comes next.          *)
LEMMA CallAnsweredOrderly ==
    ASSUME NEW b, Orderly(b), ~b.group, NEW yes \in BOOLEAN
    PROVE  /\ CallAnswered(b, yes).calls = b.calls
           /\ CallAnswered(b, yes).due = 0
           /\ DOMAIN CallAnswered(b, yes) = BatchFields
           /\ Misdirected(CallAnswered(b, yes)) => Published(b.calls)
<1> DEFINE ran == Executed(b.ran, IF yes THEN {b.due} ELSE {})
           lines == Append(b.lines, b.due)
           c == [b EXCEPT !.ran = ran, !.lines = lines, !.due = 0]
<1>0. DOMAIN b = BatchFields /\ b.calls \in Batches /\ b.due \in DOMAIN b.calls
  BY DEF Orderly
<1>1. CallAnswered(b, yes) = c
  BY DEF CallAnswered
<1> HIDE DEF ran, lines
<1>2. c.calls = b.calls /\ c.due = 0 /\ c.lines = lines /\ DOMAIN c = BatchFields
  BY <1>0 DEF BatchFields
<1> HIDE DEF c
<1>3. ASSUME ~Published(b.calls) PROVE ~Misdirected(c)
  <2>1. b.lines = InOrder(b.calls, 1 .. b.due - 1)
    BY <1>3 DEF Orderly
  <2>2. b.due \in 1 .. Len(b.calls) /\ Len(b.calls) \in Nat
    BY <1>0, BatchShape
  <2>3. b.due - 1 \in Nat /\ b.due - 1 <= Len(b.calls)
    BY <2>2
  <2> DEFINE m == b.due - 1
  <2>4. /\ b.lines \in Seq(Nat) /\ Len(b.lines) = m
        /\ \A n \in 1 .. m : b.lines[n] = n
    BY <1>0, <2>1, <2>3, FirstInOrder
  <2>5. Len(lines) = m + 1 /\ \A n \in 1 .. m + 1 : lines[n] = n
    BY <2>2, <2>4, AppendProperties DEF lines
  <2> QED BY <1>0, <1>2, <2>2, <2>5, BatchShape DEF Misdirected
<1> QED BY <1>1, <1>2, <1>3

(* A group without a publish runs all that is left of it.                  *)
LEMMA GroupFinishedOrderly ==
    ASSUME NEW b, DOMAIN b = BatchFields, b.calls \in Batches, Len(b.calls) > 1,
           NEW ask \in BOOLEAN,
           ~Published(b.calls) =>
             /\ b.approved \cup b.denied \cup b.done \subseteq DOMAIN b.calls
             /\ \A k \in DOMAIN b.calls :
                  IsShell(b.calls[k]) => k \in b.approved \cup b.denied \cup b.done
    PROVE  /\ GroupFinished(b, ask).calls = b.calls
           /\ DOMAIN GroupFinished(b, ask) = BatchFields
           /\ GroupFinished(b, ask).due # 0 => Orderly(GroupFinished(b, ask))
           /\ GroupFinished(b, ask).due = 0 /\ Misdirected(GroupFinished(b, ask))
                => Published(b.calls)
<1> DEFINE asking == {k \in Unexecuted(b) : NeedsApproval(b.calls[k], ask)}
           again == FirstOf(asking, b.calls)
           ks == {k \in Unexecuted(b) : k < again}
           all == b.denied \cup b.done \cup b.approved \cup ks
           ran == Executed(Executed(b.ran, b.approved), ks)
           lines == InOrder(b.calls, all)
           due == IF again <= Len(b.calls) THEN again ELSE 0
           c == [b EXCEPT !.ran = ran, !.done = all, !.lines = lines, !.group = FALSE,
                          !.due = due]
<1>0. GroupFinished(b, ask) = c
  BY Zenon DEF GroupFinished
<1>1. /\ DOMAIN b.calls = 1 .. Len(b.calls) /\ Len(b.calls) \in Nat
      /\ Unexecuted(b) \subseteq DOMAIN b.calls
  BY BatchShape DEF Unexecuted
<1>2. /\ again \in 1 .. Len(b.calls) + 1
      /\ again <= Len(b.calls) => again \in asking
  BY <1>1, FirstOfCalls, asking \in SUBSET DOMAIN b.calls
<1>3. due # 0 => due \in DOMAIN b.calls /\ asking # {}
  BY <1>1, <1>2
<1>4. ASSUME ~Published(b.calls) PROVE asking = {} /\ all = 1 .. Len(b.calls)
  <2>1. \A k \in DOMAIN b.calls : b.calls[k] # "publish"
    BY <1>4 DEF Published, Range
  <2>2. asking = {}
    BY <1>1, <2>1 DEF NeedsApproval, Unexecuted, IsShell
  <2> HIDE DEF asking
  <2>3. again = Len(b.calls) + 1
    BY <2>2 DEF FirstOf
  <2> HIDE DEF again
  <2>4. ks = Unexecuted(b)
    BY <1>1, <2>3
  <2>5. all = DOMAIN b.calls
    BY <1>4, <2>4 DEF Unexecuted
  <2> QED BY <1>1, <2>2, <2>5
<1> HIDE DEF ran, all, lines, due, asking
<1>5. c.calls = b.calls /\ c.due = due /\ c.lines = lines /\ c.group = FALSE /\ DOMAIN c = BatchFields
  BY DEF BatchFields
<1> HIDE DEF c
<1>6. ASSUME c.due # 0 PROVE Orderly(c)
  BY <1>3, <1>4, <1>5, <1>6 DEF Orderly
<1>7. ASSUME ~Published(b.calls) PROVE ~Misdirected(c)
  <2>1. lines = InOrder(b.calls, 1 .. Len(b.calls))
    BY <1>4, <1>7 DEF lines
  <2>2. \A n \in 1 .. Len(b.calls) : lines[n] = n
    BY <1>1, <2>1, FirstInOrder
  <2> QED BY <1>1, <1>5, <2>2 DEF Misdirected
<1> QED BY <1>0, <1>5, <1>6, <1>7

LEMMA AnsweredOrderly ==
    ASSUME NEW b, Orderly(b), NEW yes \in BOOLEAN, NEW ask \in BOOLEAN
    PROVE  /\ Answered(b, yes, ask).calls = b.calls
           /\ DOMAIN Answered(b, yes, ask) = BatchFields
           /\ Answered(b, yes, ask).due # 0 => Orderly(Answered(b, yes, ask))
           /\ Answered(b, yes, ask).due = 0 /\ Misdirected(Answered(b, yes, ask))
                => Published(b.calls)
<1>1. CASE ~b.group
  <2>1. Answered(b, yes, ask) = CallAnswered(b, yes)
    BY <1>1 DEF Answered
  <2> QED BY <1>1, <2>1, CallAnsweredOrderly
<1>2. CASE b.group
  <2> DEFINE approved == IF yes THEN b.approved \cup {b.due} ELSE b.approved
             denied == IF yes THEN b.denied ELSE b.denied \cup {b.due}
             b1 == IF yes THEN [b EXCEPT !.approved = @ \cup {b.due}]
                          ELSE [b EXCEPT !.denied = @ \cup {b.due}]
             shells == {k \in DOMAIN b.calls : k > b.due /\ IsShell(b.calls[k])}
             next == FirstOf(shells, b.calls)
  <2>1. Answered(b, yes, ask) = IF next <= Len(b.calls) THEN [b1 EXCEPT !.due = next]
                                                        ELSE GroupFinished(b1, ask)
    BY <1>2, Zenon DEF Answered, GroupAnswered
  <2>2. /\ DOMAIN b = BatchFields /\ b.calls \in Batches /\ b.due \in DOMAIN b.calls
        /\ Len(b.calls) > 1
    BY <1>2 DEF Orderly
  <2>3. /\ DOMAIN b1 = BatchFields /\ b1.calls = b.calls /\ b1.group = b.group
        /\ b1.approved = approved /\ b1.denied = denied /\ b1.done = b.done
    BY <2>2 DEF BatchFields
  <2>4. /\ DOMAIN b.calls = 1 .. Len(b.calls) /\ Len(b.calls) \in Nat
        /\ next \in 1 .. Len(b.calls) + 1
        /\ next <= Len(b.calls) => next \in shells
        /\ \A k \in shells : next <= k
    BY <2>2, BatchShape, FirstOfCalls, shells \in SUBSET DOMAIN b.calls
  <2>5. ~Published(b.calls) =>
          /\ approved \cup denied \cup b.done \subseteq DOMAIN b.calls
          /\ \A k \in DOMAIN b.calls :
               IsShell(b.calls[k]) /\ k < next => k \in approved \cup denied \cup b.done
    <3> SUFFICES ASSUME ~Published(b.calls)
                 PROVE  /\ approved \cup denied \cup b.done \subseteq DOMAIN b.calls
                        /\ \A k \in DOMAIN b.calls : IsShell(b.calls[k]) /\ k < next
                             => k \in approved \cup denied \cup b.done
      OBVIOUS
    <3>1. /\ b.approved \cup b.denied \cup b.done \subseteq DOMAIN b.calls
          /\ \A k \in DOMAIN b.calls : IsShell(b.calls[k]) /\ k < b.due
                => k \in b.approved \cup b.denied \cup b.done
      BY <1>2 DEF Orderly
    <3>2. approved \cup denied \cup b.done = b.approved \cup b.denied \cup b.done \cup {b.due}
      OBVIOUS
    <3> HIDE DEF approved, denied, next
    <3>3. ASSUME NEW k \in DOMAIN b.calls, IsShell(b.calls[k]), k < next
          PROVE  k < b.due \/ k = b.due
      <4>1. k \notin shells
        BY <3>3, <2>4
      <4> QED BY <3>3, <4>1, <2>2, <2>4
    <3> QED BY <2>2, <3>1, <3>2, <3>3
  <2> HIDE DEF b1, approved, denied, next, shells
  <2>6. CASE next <= Len(b.calls)
    <3> DEFINE c == [b1 EXCEPT !.due = next]
    <3>1. /\ DOMAIN c = BatchFields /\ c.calls = b.calls /\ c.group = b.group /\ c.due = next
          /\ c.approved = approved /\ c.denied = denied /\ c.done = b.done
      BY <2>3 DEF BatchFields
    <3> HIDE DEF c
    <3>2. Orderly(c) /\ c.due # 0
      BY <1>2, <2>2, <2>4, <2>5, <2>6, <3>1 DEF Orderly
    <3>3. Answered(b, yes, ask) = c
      BY <2>1, <2>6 DEF c
    <3> QED BY <3>1, <3>2, <3>3
  <2>7. CASE ~(next <= Len(b.calls))
    <3>1. Answered(b, yes, ask) = GroupFinished(b1, ask)
      BY <2>1, <2>7
    <3>2. ~Published(b1.calls) =>
            /\ b1.approved \cup b1.denied \cup b1.done \subseteq DOMAIN b1.calls
            /\ \A k \in DOMAIN b1.calls :
                 IsShell(b1.calls[k]) => k \in b1.approved \cup b1.denied \cup b1.done
      BY <2>3, <2>4, <2>5, <2>7
    <3> QED BY <2>2, <2>3, <3>1, <3>2, GroupFinishedOrderly
  <2> QED BY <2>6, <2>7
<1> QED BY <1>1, <1>2

-----------------------------------------------------------------------------
(* The user's answer: b is the batch after it.                             *)
Settled(b) ==
    /\ b.calls \in Batches
    /\ b.due # 0 => Orderly(b)
    /\ b.due = 0 /\ Misdirected(b) => Published(b.calls)

LEMMA AnswerSettles ==
    ASSUME IInv, at = "asked", NEW yes \in BOOLEAN, NEW always \in BOOLEAN
    PROVE  /\ Settled(Answered(batch, yes, mode.ask))
           /\ Settled([Answered(batch, yes, mode.ask) EXCEPT !.always = @ \/ always])
<1> DEFINE c == Answered(batch, yes, mode.ask)
           said == c.always \/ always
           b == [c EXCEPT !.always = said]
<1>1. Orderly(batch)
  BY DEF IInv, Waits
<1>2. mode.ask \in BOOLEAN
  BY Typed, TurnAssumption DEF IInv
<1>3. /\ c.calls = batch.calls /\ DOMAIN c = BatchFields
      /\ c.due # 0 => Orderly(c)
      /\ c.due = 0 /\ Misdirected(c) => Published(batch.calls)
  BY <1>1, <1>2, AnsweredOrderly
<1>4. batch.calls \in Batches
  BY <1>1 DEF Orderly
<1> HIDE DEF c, said
<1>5. /\ DOMAIN b = BatchFields /\ b.calls = c.calls /\ b.due = c.due /\ b.lines = c.lines
      /\ b.group = c.group /\ b.approved = c.approved /\ b.denied = c.denied
      /\ b.done = c.done
  BY <1>3 DEF BatchFields
<1> HIDE DEF b
<1>6. Orderly(c) => Orderly(b)
  BY <1>5 DEF Orderly
<1>7. Misdirected(b) => Misdirected(c)
  BY <1>5 DEF Misdirected
<1>8. Settled(c)
  BY <1>3, <1>4 DEF Settled
<1>9. Settled(b)
  BY <1>3, <1>4, <1>5, <1>6, <1>7 DEF Settled
<1> QED BY <1>8, <1>9 DEF c, b, said

LEMMA WhileAsked ==
    ASSUME IInv, at = "asked"
    PROVE  /\ stop \in BOOLEAN /\ mail \in BOOLEAN
           /\ rounds \in RoundsType /\ goal \in GoalType /\ guard \in GuardType
           /\ compact \in CompactType /\ exchange \in {"none", "own", "stale"}
           /\ tail \in {"results", "other"} /\ outcome \in Outcomes /\ hist \in HistType
           /\ hist.paused /\ hist.forced \in Nat
           /\ Earned(guard.tokens, hist) /\ Bounded(compact, hist.forced)
           /\ Excused(hist.wrong)
           /\ InBudget("asked", rounds, hist.overrides)
<1>1. /\ stop \in BOOLEAN /\ mail \in BOOLEAN
      /\ rounds \in RoundsType /\ goal \in GoalType /\ guard \in GuardType
      /\ compact \in CompactType /\ exchange \in {"none", "own", "stale"}
      /\ tail \in {"results", "other"} /\ outcome \in Outcomes /\ hist \in HistType
  BY Typed DEF IInv, HistOK
<1>2. hist.forced \in Nat
  BY <1>1 DEF HistType
<1> QED BY <1>1, <1>2 DEF IInv, FinishFits

(* The rounds are those of the response that asked.                        *)
LEMMA AnsweredInBudget ==
    ASSUME NEW r \in RoundsType, NEW o \in Nat, InBudget("asked", r, o)
    PROVE  /\ \A a \in {"approval", "limit"} : InBudget(a, r, o)
           /\ AfterWork(r) = "dispatch" => InBudget("dispatch", r, o)
           /\ InBudget("dispatch", r, o + 1)
<1>1. r.n \in Nat /\ r.budget \in Nat /\ r.repairs \in Nat
  BY Limits DEF RoundsType
<1>2. r.budget # Unlimited => r.n <= r.budget + r.repairs + o
  BY DEF InBudget
<1>3. AfterWork(r) = "dispatch" <=> r.budget = Unlimited \/ r.n < r.budget
  BY RoundsLeft
<1>4. \A a \in {"approval", "limit"} : InBudget(a, r, o)
  BY <1>2 DEF InBudget
<1>5. AfterWork(r) = "dispatch" => InBudget("dispatch", r, o)
  BY <1>1, <1>2, <1>3 DEF InBudget
<1>6. InBudget("dispatch", r, o + 1)
  BY <1>1, <1>2 DEF InBudget
<1> QED BY <1>4, <1>5, <1>6

(* What both ways of answering share.                                      *)
LEMMA SettlingKeepsIInv ==
    ASSUME IInv, at = "asked", NEW b, Settled(b), NEW crossed \in BOOLEAN,
           Answering(b, crossed), NEW h \in HistType, hist' = Judged(h, b, crossed),
           h.intercepted = hist.intercepted, h.worked = hist.worked,
           h.forced = hist.forced, h.paused = hist.paused, h.own = hist.own,
           h.wrong = hist.wrong,
           InBudget(at', rounds, h.overrides),
           at' \in {"approval", "limit", "dispatch"},
           at' = "approval" => b.due # 0 /\ batch' = b,
           exchange' \in {"none", "own", "stale"}, tail' \in {"results", "other"},
           stop' \in BOOLEAN, mail' \in BOOLEAN,
           UNCHANGED <<mode, rounds, guard, outcome>>
    PROVE  IInv'
<1>1. at' \in Steps
  BY DEF Steps
<1>2. /\ hist' \in HistType /\ hist'.overrides = h.overrides
      /\ hist'.intercepted = hist.intercepted /\ hist'.worked = hist.worked
      /\ hist'.forced = IF b.due = 0 /\ ~crossed THEN 0 ELSE hist.forced
      /\ hist'.paused = hist.paused /\ hist'.own = hist.own
      /\ hist'.wrong = IF b.due = 0 /\ Misdirected(b) THEN {b.calls} ELSE hist.wrong
  <2> DEFINE j == Judged(h, b, crossed)
  <2>1. b.calls \in Batches
    BY DEF Settled
  <2>2. /\ j \in HistType /\ j.overrides = h.overrides
        /\ j.intercepted = h.intercepted /\ j.worked = h.worked
        /\ j.forced = IF b.due = 0 /\ ~crossed THEN 0 ELSE h.forced
        /\ j.paused = h.paused /\ j.own = h.own
        /\ j.wrong = IF b.due = 0 /\ Misdirected(b) THEN {b.calls} ELSE h.wrong
    BY <2>1, JudgedFields
  <2>3. hist' = j
    OBVIOUS
  <2> HIDE DEF j
  <2> QED BY <2>2, <2>3
<1>3. goal' \in GoalType
  BY WhileAsked, EffectsFields DEF Answering
<1>4. compact' \in CompactType /\ Bounded(compact', hist'.forced)
  <2>1. compact' = IF b.due # 0 THEN compact ELSE Reviewed(compact, crossed)
    BY DEF Answering
  <2> QED BY <1>2, <2>1, WhileAsked, ReviewedBounded
<1>5. Excused(hist'.wrong)
  BY <1>2, WhileAsked DEF Excused, Settled
<1>6. /\ MemoFits(at', goal'.memo, outcome') /\ Waits(at', batch')
      /\ FinishFits(at', goal'.finishing, outcome', hist')
      /\ Earned(guard'.tokens, hist') /\ InBudget(at', rounds', hist'.overrides)
  BY <1>2, WhileAsked DEF MemoFits, Waits, FinishFits, Earned, Settled
<1> QED BY <1>1, <1>2, <1>3, <1>4, <1>5, <1>6, WhileAsked, PartsKeepIInv

LEMMA ApprovalKeepsIInv ==
    ASSUME IInv, NEW yes \in BOOLEAN, NEW always \in BOOLEAN, NEW crossed \in BOOLEAN,
           AnswerApproval(yes, always, crossed)
    PROVE  IInv'
<1> DEFINE b == [Answered(batch, yes, mode.ask) EXCEPT !.always = @ \/ always]
           next == StepAfter(b)
           h == Overriding(hist, next)
<1>1. /\ at = "asked" /\ Answering(b, crossed)
      /\ batch' = IF b.due = 0 \/ Heard("approval") THEN NoBatch ELSE b
      /\ exchange' = ExchangeAfter(ExchangeLeft(b), next)
      /\ Goto(next, TailAfter(b))
      /\ hist' = Judged(h, b, crossed)
      /\ UNCHANGED <<mode, rounds, guard, stop, outcome>>
  BY Zenon DEF AnswerApproval
<1>2. Settled(b)
  BY <1>1, AnswerSettles
<1> HIDE DEF b
<1>3. /\ next \in {"approval", "limit", "dispatch"}
      /\ next = "approval" => b.due # 0
      /\ next = "dispatch" => AfterWork(rounds) = "dispatch"
  BY <1>1, WhileAsked, RoundsLeft DEF StepAfter
<1>4. TailAfter(b) \in {"results", "other"}
  BY <1>1, WhileAsked DEF TailAfter, ResultTail
<1>5. exchange' \in {"none", "own", "stale"}
  BY <1>1, WhileAsked DEF ExchangeAfter, ExchangeLeft
<1> HIDE DEF next
<1>6. /\ at' \in {next, "dispatch"} /\ mail' \in BOOLEAN /\ tail' \in {"results", "other"}
      /\ at' # next <=> Heard(next) /\ next \in {"limit", "approval"}
  BY <1>1, <1>3, <1>4, GotoFacts
<1>7. /\ h \in HistType /\ h.intercepted = hist.intercepted /\ h.worked = hist.worked
      /\ h.forced = hist.forced /\ h.paused = hist.paused /\ h.own = hist.own
      /\ h.wrong = hist.wrong
      /\ h.overrides = IF Heard(next) /\ next \in {"approval", "limit"}
                       THEN hist.overrides + 1 ELSE hist.overrides
  BY <1>1, WhileAsked, OverridingFields
<1> HIDE DEF h
<1>8. InBudget(at', rounds, h.overrides)
  <2>1. hist.overrides \in Nat /\ rounds \in RoundsType /\ InBudget("asked", rounds, hist.overrides)
    BY <1>1, WhileAsked DEF HistType
  <2>2. CASE at' = next
    BY <1>3, <1>6, <1>7, <2>1, <2>2, AnsweredInBudget
  <2>3. CASE at' # next
    BY <1>3, <1>6, <1>7, <2>1, <2>3, AnsweredInBudget
  <2> QED BY <2>2, <2>3
<1>9. at' = "approval" => b.due # 0 /\ batch' = b
  BY <1>1, <1>3, <1>6 DEF Heard
<1> QED
  BY <1>1, <1>2, <1>3, <1>5, <1>6, <1>7, <1>8, <1>9, WhileAsked, SettlingKeepsIInv

LEMMA DenialKeepsIInv ==
    ASSUME IInv, NEW crossed \in BOOLEAN, DenyByStop(crossed)
    PROVE  IInv'
<1> DEFINE b == Answered(batch, FALSE, mode.ask)
           next == StepAfter(b)
<1>1. /\ at = "asked" /\ stop' = FALSE /\ Answering(b, crossed)
      /\ batch' = IF b.due = 0 THEN NoBatch ELSE b
      /\ exchange' = ExchangeLeft(b)
      /\ at' = next /\ tail' = TailAfter(b)
      /\ hist' = Judged(hist, b, crossed)
      /\ UNCHANGED <<mode, rounds, guard, mail, outcome>>
  BY Zenon DEF DenyByStop
<1>2. Settled(b)
  BY <1>1, AnswerSettles
<1> HIDE DEF b
<1>3. /\ next \in {"approval", "limit", "dispatch"}
      /\ next = "approval" => b.due # 0
      /\ next = "dispatch" => AfterWork(rounds) = "dispatch"
  BY <1>1, WhileAsked, RoundsLeft DEF StepAfter
<1>4. tail' \in {"results", "other"} /\ exchange' \in {"none", "own", "stale"}
  BY <1>1, WhileAsked DEF TailAfter, ResultTail, ExchangeLeft
<1> HIDE DEF next
<1>5. InBudget(at', rounds, hist.overrides)
  <2>1. hist.overrides \in Nat /\ rounds \in RoundsType /\ InBudget("asked", rounds, hist.overrides)
    BY <1>1, WhileAsked DEF HistType
  <2> QED BY <1>1, <1>3, <2>1, AnsweredInBudget
<1> QED BY <1>1, <1>2, <1>3, <1>4, <1>5, WhileAsked, SettlingKeepsIInv

-----------------------------------------------------------------------------
LEMMA ApplyingKeepsIInv == ASSUME IInv, Applying PROVE IInv'
<1>1. CASE \E usage \in Usages : AnswerInline(usage) \/ TextAlone(usage)
  BY <1>1, AnswerKeepsIInv, TextKeepsIInv
<1>2. CASE \E how \in {"good", "poor", "bad"}, crossed \in BOOLEAN : CompactAlone(how, crossed)
  BY <1>2, CompactKeepsIInv
<1>3. ASSUME NEW calls \in Batches, NEW parallel \in BOOLEAN,
             MayBe(calls, parallel), RunCalls(Started(calls, parallel, mode.ask))
      PROVE  IInv'
  <2> DEFINE b == Started(calls, parallel, mode.ask)
  <2>1. mode.ask \in BOOLEAN
    BY Typed, TurnAssumption DEF IInv
  <2>2. b.due # 0 => Orderly(b)
    BY <1>3, <2>1, StartedOrderly DEF MayBe
  <2> HIDE DEF b
  <2>3. PICK how \in Compactings, usage \in Usages :
           \/ PauseForApproval(b, how, usage)
           \/ FinishByCall(b, how, usage)
           \/ \E crossed \in BOOLEAN : KeepWorking(b, how, usage, crossed)
    BY <1>3, Zenon DEF RunCalls, Compactings, b
  <2>4. CASE PauseForApproval(b, how, usage)
    <3>1. b.due # 0
      BY <2>4 DEF PauseForApproval
    <3> QED BY <2>2, <2>4, <3>1, PauseKeepsIInv
  <2>5. CASE FinishByCall(b, how, usage)
    BY <2>5, FinishKeepsIInv
  <2>6. CASE \E crossed \in BOOLEAN : KeepWorking(b, how, usage, crossed)
    BY <2>6, WorkKeepsIInv
  <2> QED BY <2>3, <2>4, <2>5, <2>6
<1> QED BY <1>1, <1>2, <1>3 DEF Applying

LEMMA NextPreservesIInv == IInv /\ [Next]_vars => IInv'
<1> SUFFICES ASSUME IInv, [Next]_vars PROVE IInv'
  OBVIOUS
<1>1. CASE Moving
  BY <1>1, MovingKeepsIInv
<1>2. CASE RequestProtocolRepair \/ \E found \in BOOLEAN : GiveUpRepair(found)
  BY <1>2, RepairKeepsIInv, GiveUpKeepsIInv
<1>3. CASE Applying
  BY <1>3, ApplyingKeepsIInv
<1>4. CASE RequestManualCompaction \/ ContinueAfterRoundLimit \/ CancelTurn
  BY <1>4, ManualKeepsIInv, ContinueKeepsIInv, CancelKeepsIInv
<1>5. CASE \E yes, always, crossed \in BOOLEAN : AnswerApproval(yes, always, crossed)
  BY <1>5, ApprovalKeepsIInv
<1>6. CASE \E crossed \in BOOLEAN : DenyByStop(crossed)
  BY <1>6, DenialKeepsIInv
<1>7. CASE \E crossed \in BOOLEAN : BeginTurn(crossed)
  BY <1>7, BeginKeepsIInv
<1>8. Next \/ UNCHANGED vars
  OBVIOUS
<1> QED
  BY <1>1, <1>2, <1>3, <1>4, <1>5, <1>6, <1>7, <1>8, Zenon
     DEF Next, Loop, Environment, Repairing, Failing, Deciding, Ending, Dispatching, Moving

LEMMA LoopInvariant == Spec => []IInv
BY InitEstablishesIInv, NextPreservesIInv, PTL DEF Spec

-----------------------------------------------------------------------------
(* A turn with a round budget uses no more rounds than the budget, one for *)
(* each repair and one for each supplement that took the place of a        *)
(* question, and every variable keeps its type.                            *)
THEOREM RoundsAreBudgeted == Spec => []TurnInv
<1>1. IInv => TurnInv
  <2> SUFFICES ASSUME IInv PROVE TurnInv
    OBVIOUS
  <2>1. RoundsWithinBudget
    BY DEF IInv, InBudget, RoundsWithinBudget
  <2> QED BY <2>1 DEF IInv, TurnInv
<1> QED BY <1>1, LoopInvariant, PTL

(* A turn that finished, was answered or was cancelled leaves no memo.     *)
THEOREM NoMemoIsLeft == Spec => []MemoEndsWithItsTurn
<1>1. IInv => MemoEndsWithItsTurn
  BY DEF IInv, MemoFits, MemoEndsWithItsTurn, Failures
<1> QED BY <1>1, LoopInvariant, PTL

(* Finishes are intercepted no more often than tokens were given or earned *)
(* by rounds of work.                                                      *)
THEOREM TheGuardIsBounded == Spec => []InterceptionsAreEarned
<1>1. IInv => InterceptionsAreEarned
  BY DEF IInv, Earned, InterceptionsAreEarned
<1> QED BY <1>1, LoopInvariant, PTL

(* The context is compacted by force at most twice before something shows  *)
(* it to be small enough or the user asks for it.                          *)
THEOREM CompactionEnds == Spec => []NoCompactionLoop
<1>1. IInv => NoCompactionLoop
  BY DEF IInv, Bounded, NoCompactionLoop
<1> QED BY <1>1, LoopInvariant, PTL

(* Whatever the model asks for and the user decides, no call of a batch is *)
(* given the result of another, unless the batch publishes a tool.         *)
THEOREM ResultsAreTheirCalls == Spec => []ResultsFollowTheirCalls
<1>1. IInv => ResultsFollowTheirCalls
  BY DEF IInv, Excused, Published, ResultsFollowTheirCalls
<1> QED BY <1>1, LoopInvariant, PTL

(* A turn that ends as finished ends on the response that said so, or one  *)
(* of its responses stopped at an approval.                                *)
THEOREM FinishIsItsResponses == Spec => []FinishedOnItsOwnResponse
<1>1. IInv => FinishedOnItsOwnResponse
  BY DEF IInv, FinishFits, FinishedOnItsOwnResponse
<1> QED BY <1>1, LoopInvariant, PTL
=============================================================================
