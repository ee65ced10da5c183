------------------------------ MODULE ToolBatch ------------------------------
(***************************************************************************)
(* How Core runs the tool calls of one model response                      *)
(* (core/agent/src/lib.rs, execute_action_groups and what it calls): in    *)
(* order until a call needs the user's approval, or as a parallel group    *)
(* whose approvals are collected first.  Of a call only its kind matters:  *)
(* what it changes in the turn, and whether Ask mode asks before it.       *)
(*                                                                         *)
(* A batch is a record                                                     *)
(*   calls, parallel   what the model asked for                            *)
(*   ran               how often each call was executed                    *)
(*   due               the call that waits for the user, 0 for none        *)
(*   group             the wait is that of a parallel group                *)
(*   approved, denied  calls of the group the user decided on              *)
(*   done              calls of the group with a result                    *)
(*   lines             the results reported so far, by their calls         *)
(*   always            the user answered "always allow"                     *)
(***************************************************************************)
EXTENDS Naturals, FiniteSets, Sequences, SequencesExt, FiniteSetsExt

Kinds == {"readfile", "bash", "publish", "finish", "memo", "unmemo"}

IsShell(kind) == kind = "bash"

(* run_bash and the publishing of a generated tool ask in Ask mode. *)
NeedsApproval(kind, ask) == ask /\ kind \in {"bash", "publish"}

(* Mutant: shell commands end last, and so do their results. *)
AsTheyEnd(calls, ks) ==
  LET order == [k \in DOMAIN calls |-> k]
  IN  SelectSeq(order, LAMBDA k : k \in ks /\ ~IsShell(calls[k]))
        \o SelectSeq(order, LAMBDA k : k \in ks /\ IsShell(calls[k]))

(* Calls of the batch in the order the model gave them: the n-th is the   *)
(* one with n of them up to it.                                            *)
InOrder(calls, ks) ==
  [n \in 1 .. Cardinality(ks) |->
    CHOOSE k \in DOMAIN calls : k \in ks /\ Cardinality({j \in ks : j <= k}) = n]

(* What executed calls change in the turn: the last that sets or deletes   *)
(* the memo decides, and the first task_finished leaves its summary.       *)
Effects(goal, calls, ks) ==
  LET marks == {k \in ks : calls[k] \in {"memo", "unmemo"}}
  IN  [memo |-> IF marks = {} THEN goal.memo ELSE calls[Max(marks)] = "memo",
       finishing |-> goal.finishing \/ \E k \in ks : calls[k] = "finish"]

Executed(ran, ks) == [k \in DOMAIN ran |-> ran[k] + IF k \in ks THEN 1 ELSE 0]

(* The first of ks, or past the batch. *)
FirstOf(ks, calls) == IF ks = {} THEN Len(calls) + 1 ELSE Min(ks)

-----------------------------------------------------------------------------
(* Both kinds of group run up to the first call that needs approval.  A    *)
(* parallel group keeps its results until all its approvals are in, a      *)
(* sequence reports those it has.                                          *)
Started(calls, parallel, ask) ==
  LET due == FirstOf({k \in DOMAIN calls : NeedsApproval(calls[k], ask)}, calls)
      ks  == {k \in DOMAIN calls : k < due}
      paused == due <= Len(calls)
  IN  [calls |-> calls, parallel |-> parallel,
       ran |-> Executed([k \in DOMAIN calls |-> 0], ks),
       due |-> IF paused THEN due ELSE 0,
       group |-> parallel /\ paused, approved |-> {}, denied |-> {},
       done |-> ks, always |-> FALSE,
       lines |-> IF parallel /\ paused THEN <<>> ELSE InOrder(calls, ks)]

(* The approved calls are spawned, then every other call that is no shell  *)
(* command and has no result yet is executed in order.  An approved        *)
(* publish has no result yet either.                                       *)
Unexecuted(b) ==
  {k \in DOMAIN b.calls : k \notin b.denied \cup b.done /\ ~IsShell(b.calls[k])}

GroupFinished(b, ask) ==
  LET again == FirstOf({k \in Unexecuted(b) : NeedsApproval(b.calls[k], ask)}, b.calls)
      ks    == {k \in Unexecuted(b) : k < again}
      all   == b.denied \cup b.done \cup b.approved \cup ks
  IN  [b EXCEPT !.ran = Executed(Executed(@, b.approved), ks),
                !.done = all, !.lines = InOrder(b.calls, all), !.group = FALSE,
                !.due = IF again <= Len(b.calls) THEN again ELSE 0]

(* The user's answer for a call of a parallel group: the next shell        *)
(* command asks, and after the last one the group runs.                    *)
GroupAnswered(b, yes, ask) ==
  LET b1   == IF yes THEN [b EXCEPT !.approved = @ \cup {b.due}]
                     ELSE [b EXCEPT !.denied = @ \cup {b.due}]
      next == FirstOf({k \in DOMAIN b.calls : k > b.due /\ IsShell(b.calls[k])}, b.calls)
  IN  IF next <= Len(b.calls) THEN [b1 EXCEPT !.due = next]
                              ELSE GroupFinished(b1, ask)

(* The user's answer for a call on its own: its result follows those       *)
(* reported so far, the calls after it are not executed.                   *)
CallAnswered(b, yes) ==
  [b EXCEPT !.ran = Executed(@, IF yes THEN {b.due} ELSE {}),
            !.lines = Append(@, b.due), !.due = 0]

Answered(b, yes, ask) == IF b.group THEN GroupAnswered(b, yes, ask)
                                    ELSE CallAnswered(b, yes)

(* The calls whose effects a step of the batch added. *)
NewlyRun(b1, b2) == {k \in DOMAIN b1.ran : b2.ran[k] > b1.ran[k]}

(* complete_pending_native_exchange: the n-th result is given to the n-th  *)
(* call, a call past the last result is told it was not executed.          *)
Misdirected(b) == \E k \in DOMAIN b.calls : k <= Len(b.lines) /\ b.lines[k] # k
=============================================================================
