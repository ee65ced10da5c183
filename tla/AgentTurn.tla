------------------------------ MODULE AgentTurn ------------------------------
(***************************************************************************)
(* One Core context running its turns: the loop of                         *)
(* core/agent/src/session_runtime.rs, which at each pass looks for a Stop  *)
(* and then carries out the step Core asked for, and the decisions of      *)
(* core/agent/src/lib.rs about a model response: suppress it while a       *)
(* compaction is required, repair it, compact, run its tool calls, ask for *)
(* approval, intercept a finish while a memo is active, or end the turn.   *)
(* The model, the user and the Host are the environment; prompts and token *)
(* counts are abstracted to the outcomes the code tests them for.          *)
(***************************************************************************)
EXTENDS ToolBatch

CONSTANTS
  Modes,         \* settings of a turn: how calls are made, and whether shell calls ask
  Batches,       \* call sequences the model may ask for
  Budget,        \* configured_round_budget
  Unlimited,     \* UNLIMITED_ROUND_BUDGET
  MaxRepairs,    \* MAX_PROTOCOL_REPAIR_ATTEMPTS
  GuardCap,      \* MEMO_FINISH_GUARD_TOKEN_CAP
  MaxRequests,   \* bound: model requests
  MaxUpdates,    \* bound: settings changes and requested compactions
  MaxTurns       \* bound: turns

ASSUME TurnAssumption ==
  /\ Modes \subseteq [native : BOOLEAN, parallel : BOOLEAN, ask : BOOLEAN]
  /\ Batches \subseteq Seq(Kinds) \ {<<>>}
  /\ {Budget, Unlimited, MaxRepairs, GuardCap, MaxRequests, MaxUpdates, MaxTurns} \subseteq Nat
  /\ Budget > 0 /\ Unlimited > MaxRequests

VARIABLES
  at,       \* the step the loop is at
  mode,     \* tool-call mode, parallel native calls, and bash_approval_mode is Ask
  rounds,   \* current_round, round_budget and repair_attempts
  goal,     \* active_memo and turn_finished_summary
  guard,    \* memo_finish_guard_tokens and the note for the next turn
  compact,  \* what compaction is required and how the last one turned out
  batch,    \* the tool calls of the last response
  exchange, \* pending_native_exchange: none, that of the batch, or an older one
  tail,     \* whether the last prompt delta holds tool results
  stop,     \* the Stop flag
  mail,     \* supplements wait in the mailbox
  outcome,  \* how the last turn ended
  hist      \* history of the turn

core == <<mode, rounds, goal, guard, compact, batch, exchange, tail>>
vars == <<at, core, stop, mail, outcome, hist>>

NoBatch == Started(<<>>, FALSE, FALSE)

FreshHist == [requests |-> 0, updates |-> 0, overrides |-> 0, intercepted |-> 0,
              worked |-> 0, forced |-> 0, paused |-> FALSE, own |-> TRUE,
              wrong |-> {}]

Init ==
  /\ at = "idle" /\ outcome = "none"
  /\ mode \in Modes
  /\ rounds = [n |-> 0, budget |-> Budget, repairs |-> 0]
  /\ goal = [memo |-> FALSE, finishing |-> FALSE]
  /\ guard = [tokens |-> GuardCap, note |-> "none", turns |-> 0]
  /\ compact = [required |-> FALSE, threshold |-> FALSE, manual |-> FALSE,
                followup |-> "available", verify |-> "none"]
  /\ batch = NoBatch /\ exchange = "none" /\ tail = "other"
  /\ stop = FALSE /\ mail = FALSE
  /\ hist = FreshHist

-----------------------------------------------------------------------------
(* Rounds. *)

Remaining(r) == IF r.budget = Unlimited THEN Unlimited
                ELSE IF r.n < r.budget THEN r.budget - r.n ELSE 0

Counted == [rounds EXCEPT !.n = @ + 1]

(* Mutant: a round is left although the budget is used up. *)
AfterWorkLate(r) == IF r.budget # Unlimited /\ r.n > r.budget THEN "limit" ELSE "dispatch"

AfterWork(r) == IF Remaining(r) = 0 THEN "limit" ELSE "dispatch"

-----------------------------------------------------------------------------
(* Compaction: c is the compaction state. *)

(* require_context_compress_if_needed: crossed says whether the estimate   *)
(* is over the threshold.  After a follow-up that did not help, crossing   *)
(* again is no reason for another one.                                     *)
Reviewed(c, crossed) ==
  IF ~crossed THEN IF c.required THEN c ELSE [c EXCEPT !.followup = "available"]
  ELSE IF ~c.manual /\ ~c.required /\ c.followup = "exhausted" THEN c
  ELSE [c EXCEPT !.required = TRUE, !.threshold = TRUE]

(* verify_post_compaction_provider_usage: what the provider counted for    *)
(* the first response after a forced compaction; nothing if it does not    *)
(* say.                                                                    *)
UsageVerified(c, usage) ==
  CASE c.verify = "none" \/ usage = "unknown" -> c
    [] c.verify # "none" /\ usage = "low" ->
         [c EXCEPT !.verify = "none", !.followup = "available"]
    [] c.verify = "initial" /\ usage = "high" ->
         [c EXCEPT !.verify = "none", !.followup = "pending",
                   !.required = TRUE, !.threshold = TRUE]
    [] c.verify = "followup" /\ usage = "high" ->
         [c EXCEPT !.verify = "none", !.followup = "exhausted"]

(* Mutant: a poor compaction asks for another one whatever came before it. *)
CompactedAgain(c, poor) ==
  [required |-> c.threshold /\ poor, threshold |-> c.threshold /\ poor, manual |-> FALSE,
   followup |-> IF c.threshold /\ poor THEN "pending" ELSE "available",
   verify |-> "none"]

(* threshold_compaction_quality_note and the state a successful compaction *)
(* leaves: poor says that the estimate stays above the target.             *)
Compacted(c, poor) ==
  LET again == c.threshold /\ poor /\ c.followup = "available"
  IN  [required |-> again, threshold |-> again, manual |-> FALSE,
       followup |-> IF ~c.threshold THEN c.followup
                    ELSE IF ~poor THEN "available"
                    ELSE IF again THEN "pending" ELSE "exhausted",
       verify |-> IF ~c.threshold \/ poor THEN "none"
                  ELSE IF c.followup = "pending" THEN "followup" ELSE "initial"]

(* The compaction a response carries, or the check of the previous one. *)
AfterCompaction(c, how, usage) ==
  CASE how = "none" -> UsageVerified(c, usage)
    [] how = "bad"  -> [c EXCEPT !.verify = "none"]
    [] OTHER        -> Compacted(c, how = "poor")

(* Forced compactions since something showed the context to be small       *)
(* enough, or the user asked for one.                                      *)
ForcedAfter(n, c, how) ==
  CASE how \in {"good", "poor"} /\ c.threshold -> IF how = "good" THEN 0 ELSE n + 1
    [] OTHER -> n

-----------------------------------------------------------------------------
(* Where the loop goes after a response or an answer.  Supplements that    *)
(* wait are put into the prompt and replace whatever step was due, but for *)
(* a final answer.                                                         *)

Heard(next) == mail /\ next # "final"

Goto(next, t) ==
  /\ at' = IF Heard(next) THEN "dispatch" ELSE next
  /\ mail' = (mail /\ next = "final")
  /\ tail' = IF Heard(next) THEN "other" ELSE t

Overriding(h, next) ==
  IF Heard(next) /\ next \in {"approval", "limit"}
  THEN [h EXCEPT !.overrides = @ + 1]
  ELSE h

(* The pending exchange of a batch whose approval was dropped stays. *)
ExchangeAfter(e, next) == IF Heard(next) /\ next = "approval" /\ e = "own"
                          THEN "stale" ELSE e

ResultTail == IF mode.native THEN "other" ELSE "results"

-----------------------------------------------------------------------------
(* Mutant: the summary of a turn that was cancelled stays. *)
SummaryKept(g) == g

WithoutSummary(g) == [g EXCEPT !.finishing = FALSE]

(* begin_turn_with_input_kind.  The worker clears the Stop flag and opens  *)
(* the mailbox before it.                                                  *)
BeginTurn(crossed) ==
  /\ at = "idle" /\ guard.turns < MaxTurns
  /\ at' = "dispatch" /\ stop' = FALSE /\ mail' = FALSE /\ outcome' = "none"
  /\ rounds' = [n |-> 0, budget |-> Budget, repairs |-> 0]
  /\ goal' = WithoutSummary(goal)
  /\ guard' = [tokens |-> GuardCap, note |-> "none", turns |-> guard.turns + 1]
  /\ compact' = Reviewed(compact, crossed)
  /\ batch' = NoBatch
  /\ exchange' = IF exchange = "none" THEN "none" ELSE "stale"
  /\ hist' = [FreshHist EXCEPT !.requests = hist.requests, !.updates = hist.updates,
                                !.forced = IF crossed THEN hist.forced ELSE 0]
  /\ tail' = "other"
  /\ UNCHANGED mode

(* A settings change of the Host, taken at a dispatch boundary; leaving    *)
(* native mode turns the registered exchanges into text.                   *)
ApplyRuntimeUpdates ==
  /\ at = "dispatch" /\ ~stop /\ hist.updates < MaxUpdates
  /\ \E m \in Modes \ {mode} : mode' = m
  /\ tail' = "other" /\ hist' = [hist EXCEPT !.updates = @ + 1]
  /\ UNCHANGED <<at, rounds, goal, guard, compact, batch, exchange, stop, mail, outcome>>

(* request_manual_context_compress *)
RequestManualCompaction ==
  /\ at = "dispatch" /\ ~stop /\ ~compact.manual /\ hist.updates < MaxUpdates
  /\ compact' = [compact EXCEPT !.manual = TRUE, !.required = TRUE]
  /\ hist' = [hist EXCEPT !.forced = 0, !.updates = @ + 1]
  /\ UNCHANGED <<at, mode, rounds, goal, guard, batch, exchange, tail, stop, mail, outcome>>

(* Supplements found at a dispatch boundary go into the prompt. *)
AppendSupplements ==
  /\ at = "dispatch" /\ ~stop /\ mail
  /\ mail' = FALSE /\ tail' = "other"
  /\ UNCHANGED <<at, mode, rounds, goal, guard, compact, batch, exchange, stop, outcome, hist>>

RequestModel ==
  /\ at = "dispatch" /\ ~stop /\ ~mail /\ hist.requests < MaxRequests
  /\ at' = "request"
  /\ hist' = [hist EXCEPT !.requests = @ + 1]
  /\ UNCHANGED <<core, stop, mail, outcome>>

-----------------------------------------------------------------------------
(* The response (apply_model_response_with_action_runtime). *)

Responding == at = "request" /\ ~stop

(* While a compaction is required, a response without exactly one well     *)
(* formed compaction is asked for again, and its round is not counted.     *)
SuppressResponse ==
  /\ Responding /\ compact.required
  /\ Goto("dispatch", tail)
  /\ UNCHANGED <<mode, rounds, goal, guard, compact, batch, exchange, stop, outcome, hist>>

(* A response cut short, or one the parser rejects, is asked for again     *)
(* with a description of what is wrong.                                    *)
RequestProtocolRepair ==
  /\ Responding /\ rounds.repairs < MaxRepairs
  /\ rounds' = [Counted EXCEPT !.repairs = @ + 1]
  /\ Goto("dispatch", tail)
  /\ UNCHANGED <<mode, goal, guard, compact, batch, exchange, stop, outcome, hist>>

(* After the last repair the text found in the response is the answer; a   *)
(* response without any text stops the turn.                               *)
GiveUpRepair(found) ==
  /\ Responding /\ ~compact.required /\ rounds.repairs >= MaxRepairs
  /\ rounds' = Counted
  /\ Goto("final", tail)
  /\ outcome' = IF found THEN "salvaged" ELSE "repair_failed"
  /\ UNCHANGED <<mode, goal, guard, compact, batch, exchange, stop, hist>>

(* memo_finish_guard: a finish is held back while a memo is active, rounds *)
(* remain and a token is left.                                             *)
GuardHolds(memo, r) == memo /\ guard.tokens > 0 /\ Remaining(r) > 0

(* Mutant: the finish is held back and no token is spent. *)
InterceptedFree == guard

Intercepted == [guard EXCEPT !.tokens = @ - 1]

(* force_close_memo_on_finish *)
MemoClosed(memo) == IF memo THEN [guard EXCEPT !.note = "forced"] ELSE guard

(* An inline response with status ALL_FINISHED. *)
AnswerInline(usage) ==
  /\ Responding /\ ~mode.native /\ ~compact.required
  /\ rounds' = Counted
  /\ compact' = UsageVerified(compact, usage)
  /\ IF GuardHolds(goal.memo, Counted)
     THEN /\ guard' = Intercepted
          /\ goal' = goal /\ outcome' = outcome
          /\ Goto("dispatch", "other")
          /\ hist' = [hist EXCEPT !.intercepted = @ + 1]
     ELSE /\ guard' = MemoClosed(goal.memo)
          /\ goal' = [goal EXCEPT !.memo = FALSE]
          /\ outcome' = "answered"
          /\ Goto("final", tail)
          /\ hist' = hist
  /\ UNCHANGED <<mode, batch, exchange, stop>>

(* A native response of text alone does not finish the turn. *)
TextAlone(usage) ==
  /\ Responding /\ mode.native /\ ~compact.required
  /\ rounds' = Counted
  /\ compact' = UsageVerified(compact, usage)
  /\ Goto(AfterWork(Counted), "other")
  /\ hist' = Overriding(hist, AfterWork(Counted))
  /\ UNCHANGED <<mode, goal, guard, batch, exchange, stop, outcome>>

(* A response whose compaction fails runs none of its calls, one that only *)
(* compacts has none.                                                      *)
CompactAlone(how, crossed) ==
  /\ Responding
  /\ rounds' = Counted
  /\ compact' = Reviewed(AfterCompaction(compact, how, "unknown"), crossed)
  /\ Goto(AfterWork(Counted), IF how = "bad" THEN "results" ELSE "other")
  /\ hist' = [Overriding(hist, AfterWork(Counted)) EXCEPT !.forced =
                IF crossed THEN ForcedAfter(@, compact, how) ELSE 0]
  /\ UNCHANGED <<mode, goal, guard, batch, exchange, stop, outcome>>

-----------------------------------------------------------------------------
(* The tool calls of a response. *)

(* What the response is allowed to be, and the batch and compaction state  *)
(* that running its calls leaves.                                          *)
MayBe(calls, parallel) ==
  /\ parallel => Len(calls) > 1
  /\ mode.native => (parallel <=> mode.parallel /\ Len(calls) > 1)

MayCarry(how) == Responding /\ (how = "none" => ~compact.required)

RunGoal(b) == Effects(goal, b.calls, {k \in DOMAIN b.calls : b.ran[k] > 0})

(* A call needs the user: what ran so far is kept, the rest waits. *)
PauseForApproval(b, how, usage) ==
  /\ MayCarry(how) /\ b.due # 0
  /\ rounds' = Counted
  /\ compact' = AfterCompaction(compact, how, usage)
  /\ batch' = IF Heard("approval") THEN NoBatch ELSE b
  /\ goal' = RunGoal(b)
  /\ exchange' = ExchangeAfter(IF mode.native THEN "own" ELSE exchange, "approval")
  /\ Goto("approval", IF b.lines = <<>> THEN "other" ELSE ResultTail)
  /\ hist' = [Overriding(hist, "approval") EXCEPT !.paused = TRUE,
                !.forced = ForcedAfter(@, compact, how)]
  /\ UNCHANGED <<mode, guard, stop, outcome>>

(* task_finished left its summary: the turn ends, or the guard holds it    *)
(* back.                                                                   *)
FinishByCall(b, how, usage) ==
  /\ MayCarry(how) /\ b.due = 0 /\ RunGoal(b).finishing
  /\ rounds' = Counted
  /\ compact' = AfterCompaction(compact, how, usage)
  /\ IF GuardHolds(RunGoal(b).memo, Counted)
     THEN /\ guard' = Intercepted
          /\ goal' = WithoutSummary(RunGoal(b))
          /\ outcome' = outcome
          /\ Goto("dispatch", ResultTail)
          /\ hist' = [hist EXCEPT !.intercepted = @ + 1,
                        !.forced = ForcedAfter(@, compact, how)]
     ELSE /\ guard' = MemoClosed(RunGoal(b).memo)
          /\ goal' = [memo |-> FALSE, finishing |-> FALSE]
          /\ outcome' = "finished"
          /\ Goto("final", tail)
          /\ hist' = [hist EXCEPT !.forced = ForcedAfter(@, compact, how),
                        !.own = "finish" \in Range(b.calls)]
  /\ UNCHANGED <<mode, batch, exchange, stop>>

(* recharge_memo_guard_tokens *)
Recharged == [guard EXCEPT !.tokens = IF @ < GuardCap THEN @ + 1 ELSE GuardCap]

(* The calls ran and the turn goes on. *)
KeepWorking(b, how, usage, crossed) ==
  /\ MayCarry(how) /\ b.due = 0 /\ ~RunGoal(b).finishing
  /\ rounds' = Counted
  /\ compact' = Reviewed(AfterCompaction(compact, how, usage), crossed)
  /\ goal' = RunGoal(b) /\ guard' = Recharged
  /\ Goto(AfterWork(Counted), ResultTail)
  /\ hist' = [Overriding(hist, AfterWork(Counted)) EXCEPT !.worked = @ + 1,
                !.forced = IF crossed THEN ForcedAfter(@, compact, how) ELSE 0]
  /\ UNCHANGED <<mode, batch, exchange, stop, outcome>>

-----------------------------------------------------------------------------
(* The model call fails. *)

(* recover_from_model_input_too_large: the last delta is dropped if it     *)
(* holds tool results, and the model is asked again.                       *)
RecoverInputTooLarge ==
  /\ Responding /\ tail = "results"
  /\ at' = "dispatch" /\ tail' = "other"
  /\ UNCHANGED <<mode, rounds, goal, guard, compact, batch, exchange, stop, mail, outcome, hist>>

ModelFails ==
  /\ Responding
  /\ at' = "idle" /\ mail' = FALSE /\ outcome' = "model_error"
  /\ UNCHANGED <<core, stop, hist>>

-----------------------------------------------------------------------------
(* Approvals and the round limit. *)

AskUser ==
  /\ at \in {"approval", "limit"} /\ ~stop
  /\ at' = IF at = "approval" THEN "asked" ELSE "limit_asked"
  /\ UNCHANGED <<core, stop, mail, outcome, hist>>

(* The batch after the user's answer: it asks for its next call, or it is  *)
(* complete and its exchange is registered.                                *)
Answering(b, crossed) ==
  /\ goal' = Effects(goal, b.calls, NewlyRun(batch, b))
  /\ compact' = IF b.due # 0 THEN compact ELSE Reviewed(compact, crossed)

Judged(h, b, crossed) ==
  [h EXCEPT !.wrong = IF b.due = 0 /\ Misdirected(b) THEN {b.calls} ELSE @,
            !.forced = IF b.due = 0 /\ ~crossed THEN 0 ELSE @]

StepAfter(b) == IF b.due # 0 THEN "approval" ELSE AfterWork(rounds)

ExchangeLeft(b) == IF b.due # 0 THEN exchange ELSE "none"

TailAfter(b) == IF b.group THEN tail ELSE ResultTail

(* resolve_user_approval_with_runtime.  "Always allow" is no part of what  *)
(* Core learns here: TurnActionRuntime does not pass it on.                *)
AnswerApproval(yes, always, crossed) ==
  LET b == [Answered(batch, yes, mode.ask) EXCEPT !.always = @ \/ always]
  IN  /\ at = "asked" /\ ~stop /\ (always => yes)
      /\ Answering(b, crossed)
      /\ batch' = IF b.due = 0 \/ Heard("approval") THEN NoBatch ELSE b
      /\ exchange' = ExchangeAfter(ExchangeLeft(b), StepAfter(b))
      /\ Goto(StepAfter(b), TailAfter(b))
      /\ hist' = Judged(Overriding(hist, StepAfter(b)), b, crossed)
      /\ UNCHANGED <<mode, rounds, guard, stop, outcome>>

(* A Stop while the user is asked is spent on denying the call.  The       *)
(* mailbox is not looked at.                                               *)
DenyByStop(crossed) ==
  LET b == Answered(batch, FALSE, mode.ask)
  IN  /\ at = "asked" /\ stop /\ stop' = FALSE
      /\ Answering(b, crossed)
      /\ batch' = IF b.due = 0 THEN NoBatch ELSE b
      /\ exchange' = ExchangeLeft(b)
      /\ at' = StepAfter(b) /\ tail' = TailAfter(b)
      /\ hist' = Judged(hist, b, crossed)
      /\ UNCHANGED <<mode, rounds, guard, mail, outcome>>

(* resolve_round_limit_with_audit: the turn goes on without a limit. *)
ContinueAfterRoundLimit ==
  /\ at = "limit_asked" /\ ~stop
  /\ rounds' = [rounds EXCEPT !.n = 0, !.budget = Unlimited]
  /\ at' = "dispatch" /\ tail' = "results"
  /\ UNCHANGED <<mode, goal, guard, compact, batch, exchange, stop, mail, outcome, hist>>

(* Mutant: the question waits for the user alone. *)
WaitAtRoundLimit ==
  /\ at = "limit_asked" /\ ~stop
  /\ at' = "idle" /\ mail' = FALSE /\ outcome' = "round_limit"
  /\ UNCHANGED <<core, stop, hist>>

(* The user ends the turn, or a Stop answers the question with its safe    *)
(* default.                                                                *)
StopAtRoundLimit ==
  /\ at = "limit_asked"
  /\ at' = "idle" /\ mail' = FALSE /\ outcome' = "round_limit"
  /\ UNCHANGED <<core, stop, hist>>

-----------------------------------------------------------------------------
(* The end of the turn: the worker closes the mailbox, what it holds is    *)
(* the Host's again. *)

FinishTurn ==
  /\ at = "final" /\ ~stop
  /\ at' = "idle" /\ mail' = FALSE
  /\ UNCHANGED <<core, stop, outcome, hist>>

(* Mutant: the cancelled turn leaves its memo. *)
CancelQuietly ==
  /\ at \in {"dispatch", "request", "approval", "limit", "final"} /\ stop
  /\ stop' = FALSE /\ at' = "idle" /\ mail' = FALSE /\ outcome' = "cancelled"
  /\ UNCHANGED <<mode, rounds, goal, guard, compact, batch, exchange, tail, hist>>

(* The Stop flag is taken at the top of the loop or when a model call      *)
(* comes back: the memo does not outlive the turn.                         *)
CancelTurn ==
  /\ at \in {"dispatch", "request", "approval", "limit", "final"} /\ stop
  /\ stop' = FALSE /\ at' = "idle" /\ mail' = FALSE /\ outcome' = "cancelled"
  /\ guard' = IF goal.memo THEN [guard EXCEPT !.note = "interrupted"] ELSE guard
  /\ goal' = [goal EXCEPT !.memo = FALSE]
  /\ UNCHANGED <<mode, rounds, compact, batch, exchange, tail, hist>>

-----------------------------------------------------------------------------
(* The user and the Host. *)

RequestStop ==
  /\ at # "idle" /\ ~stop
  /\ stop' = TRUE
  /\ UNCHANGED <<at, core, mail, outcome, hist>>

SubmitSupplement ==
  /\ at # "idle" /\ ~mail
  /\ mail' = TRUE
  /\ UNCHANGED <<at, core, stop, outcome, hist>>

-----------------------------------------------------------------------------

(* What the provider may report matters only to a pending verification. *)
Usages == IF compact.verify = "none" THEN {"unknown"} ELSE {"unknown", "low", "high"}

RunCalls(b) ==
  \E how \in {"none", "good", "poor"}, usage \in Usages :
    \/ PauseForApproval(b, how, usage)
    \/ FinishByCall(b, how, usage)
    \/ \E crossed \in BOOLEAN : KeepWorking(b, how, usage, crossed)

Dispatching == ApplyRuntimeUpdates \/ RequestManualCompaction
                 \/ AppendSupplements \/ RequestModel

Repairing == SuppressResponse \/ RequestProtocolRepair
               \/ \E found \in BOOLEAN : GiveUpRepair(found)

Applying ==
  \/ \E usage \in Usages : AnswerInline(usage) \/ TextAlone(usage)
  \/ \E how \in {"good", "poor", "bad"}, crossed \in BOOLEAN : CompactAlone(how, crossed)
  \/ \E calls \in Batches, parallel \in BOOLEAN :
       MayBe(calls, parallel) /\ RunCalls(Started(calls, parallel, mode.ask))

Failing == RecoverInputTooLarge \/ ModelFails

Deciding ==
  \/ AskUser \/ ContinueAfterRoundLimit \/ StopAtRoundLimit
  \/ \E yes, always, crossed \in BOOLEAN : AnswerApproval(yes, always, crossed)
  \/ \E crossed \in BOOLEAN : DenyByStop(crossed)

Ending == FinishTurn \/ CancelTurn

Loop == Repairing \/ Applying \/ Failing \/ Deciding \/ Ending \/ Dispatching

Environment == (\E crossed \in BOOLEAN : BeginTurn(crossed)) \/ RequestStop \/ SubmitSupplement

Next == Loop \/ Environment

(* How a Stop is taken: the model call and the wait for the user's answer  *)
(* poll the flag every 50 ms, the loop looks at it at each pass.           *)
ObeyingStop == CancelTurn \/ StopAtRoundLimit \/ (\E crossed \in BOOLEAN : DenyByStop(crossed))

Spec == Init /\ [][Next]_vars

-----------------------------------------------------------------------------
(* Properties *)

(* Type invariant of a context and the turn it runs. *)
TypeOK ==
  /\ at \in {"idle", "dispatch", "request", "approval", "asked", "limit",
             "limit_asked", "final"}
  /\ mode \in Modes
  /\ rounds \in [n : Nat, budget : {Budget, Unlimited}, repairs : 0 .. MaxRepairs]
  /\ goal \in [memo : BOOLEAN, finishing : BOOLEAN]
  /\ guard \in [tokens : 0 .. GuardCap, note : {"none", "forced", "interrupted"},
                turns : 0 .. MaxTurns]
  /\ compact \in [required : BOOLEAN, threshold : BOOLEAN, manual : BOOLEAN,
                  followup : {"available", "pending", "exhausted"},
                  verify : {"none", "initial", "followup"}]
  /\ exchange \in {"none", "own", "stale"} /\ tail \in {"results", "other"}
  /\ stop \in BOOLEAN /\ mail \in BOOLEAN
  /\ outcome \in {"none", "answered", "finished", "salvaged", "repair_failed",
                  "model_error", "round_limit", "cancelled"}

(* However responses are repaired, finishes intercepted, approvals         *)
(* answered and supplements heard, a turn with a round budget uses no more *)
(* rounds than the budget, one for each protocol repair, and one for each  *)
(* time a supplement took the place of the round-limit question or of an   *)
(* approval.                                                               *)
RoundsWithinBudget ==
  rounds.budget # Unlimited
    => rounds.n <= rounds.budget + rounds.repairs + hist.overrides

TurnInv == TypeOK /\ RoundsWithinBudget

(* A memo is the model's claim that work is left.  It is gone once the     *)
(* turn is reported as finished, answered or cancelled, whichever of the   *)
(* ends of the loop was taken.  Only turns that failed, or that the user   *)
(* ended at the round limit, leave it to the next one.                     *)
MemoEndsWithItsTurn ==
  (at = "idle" /\ goal.memo)
    => outcome \in {"salvaged", "repair_failed", "model_error", "round_limit"}

(* The memo guard cannot hold a turn for ever: the finishes it intercepts  *)
(* are covered by its initial tokens and the rounds of real work since.    *)
InterceptionsAreEarned == hist.intercepted + guard.tokens <= GuardCap + hist.worked

(* Automatic compaction does not loop: without the user asking, and        *)
(* without anything that showed the context to be small enough, at most    *)
(* two forced compactions are carried out, the first and one follow-up.    *)
NoCompactionLoop == hist.forced <= 2

(* A result goes to the call that produced it, whatever part of a batch    *)
(* was approved or denied, unless a publish of a parallel group is asked   *)
(* for after the shell commands of the group.                              *)
ResultsFollowTheirCalls ==
  \A calls \in hist.wrong : "publish" \in Range(calls) /\ Len(calls) > 1

(* A turn ends as finished on the response that calls task_finished.  The  *)
(* summary of an earlier response ends it only if that response stopped at *)
(* an approval.                                                            *)
FinishedOnItsOwnResponse ==
  (outcome = "finished" /\ ~hist.own) => hist.paused

(* "If the host signaled "always allow", update bash approval mode before  *)
(* processing subsequent actions in this parallel group"                   *)
(* (core/agent/src/lib.rs:5267): after such an answer the user is not      *)
(* asked again for a call of the same batch.                               *)
AlwaysAllowEndsTheAsking == at = "asked" => ~batch.always

(* Wherever a turn waits, for the model, for the user or for nobody, a     *)
(* Stop that was requested can be taken without any of them moving.        *)
StopCanBeTaken == (stop /\ at # "idle") => ENABLED ObeyingStop
=============================================================================
