----------------------------- MODULE McpServers -----------------------------
(***************************************************************************)
(* How the Host keeps an MCP server connected and its tools with a Session *)
(* (server.rs; the connections are those of core/agent/src/mcp.rs).  The   *)
(* definition of the server belongs to the MEM, its use to the Session.  A *)
(* change is only marked, by raising the Session's revision; it reaches    *)
(* the worker when the next turn begins.  Threads connect in the           *)
(* background and without a lock, and what they find is taken only if the  *)
(* definition is still the one they connected with.                        *)
(* One server and one Session.  The mcp:<id> lane runs one upsert at a     *)
(* time, the Session's lane one toggle, reconnection or turn; the event    *)
(* thread and the scheduler of the timers begin turns, too; a delete runs  *)
(* alone among the commands.  A handler that cannot save the Session puts  *)
(* back a copy from before its change, the MCP revisions included.         *)
(***************************************************************************)
EXTENDS Naturals, FiniteSets

CONSTANTS
    Configs,        \* definitions of the server
    Enabled,        \* those of them with enabled = true
    Refreshes,      \* the threads that connect (bound: how many there will be)
    MaxCommands,    \* bound: commands
    MaxTurns        \* bound: turns that begin with something pending, and saves that may fail

VARIABLES
    config,     \* mcp_configs: the definition of the server, or None
    report,     \* mcp_reports: its state; tools the thread that found them
    connection, \* McpRuntime::inner: the definition it was made with, and by whom
    refresh,    \* the threads
    session,    \* is the server selected; the Session's two revisions
    worker,     \* what the worker was sent last
    upsert, lane, delete,   \* how far the commands are
    apply,      \* how far the threads are that begin turns and save the Session
    asked, begun,   \* how many commands, and such turns and saves, there have been
    sent,       \* history: the revision the worker was sent last, and the newest
    unmarked,   \* history: a definition changed and its save failed
    dropped,    \* history: a report was left connecting without a thread
    renewed     \* history: the first revision no put-back has made ambiguous

vars == <<config, report, connection, refresh, session, worker, upsert, lane, delete,
          apply, asked, begun, sent, unmarked, dropped, renewed>>

None == "none"
NoReport == [config |-> None, state |-> "disconnected", tools |-> None]
NoConnection == [config |-> None, by |-> "nobody"]
NoTools == [config |-> None, tools |-> None]
NotStarted == [pc |-> "not started", config |-> None]
Gone == [pc |-> "gone", config |-> None]
NoCopy == [selected |-> FALSE, revision |-> 0, applied |-> 0]
Applies == [pc |-> "idle", target |-> 0, selected |-> FALSE, view |-> NoTools, missing |-> FALSE,
            copy |-> NoCopy]
Appliers == {"lane", "events", "timers"}

(* A restored Session with a selection starts pending (initial_mcp_revisions). *)
Init ==
    /\ config \in Configs \cup {None}
    /\ report = NoReport /\ connection = NoConnection
    /\ refresh = [r \in Refreshes |-> NotStarted]
    /\ session = [selected |-> config # None, revision |-> IF config # None THEN 1 ELSE 0,
                  applied |-> 0]
    /\ worker = NoTools
    /\ upsert = "idle" /\ lane = "idle" /\ delete = "idle"
    /\ apply = [a \in Appliers |-> Applies]
    /\ asked = 0 /\ begun = 0 /\ sent = [last |-> 0, newest |-> 0]
    /\ unmarked = FALSE /\ dropped = FALSE /\ renewed = 0

memory == <<config, report, connection>>
commands == <<upsert, lane, delete, asked, begun>>
-----------------------------------------------------------------------------
Marked(s) == [s EXCEPT !.revision = @ + 1]
NewCommand == asked < MaxCommands /\ asked' = asked + 1 /\ UNCHANGED begun

SessionBecomes(s) ==
    /\ session' = s
    /\ unmarked' = (unmarked /\ s.revision = session.revision)

(* mark_sessions_using_mcp_server                                          *)
MarkIfSelected ==
    IF session.selected THEN SessionBecomes(Marked(session))
                        ELSE UNCHANGED <<session, unmarked>>

Underway == report.config = config /\ report.state = "connecting"

Unstarted == {r \in Refreshes : refresh[r] = NotStarted}
NextThread == CHOOSE r \in Unstarted : TRUE

(* schedule_mcp_server_refresh; a server that is not enabled or that is    *)
(* being connected is left alone.  The thread may fail to start, after the *)
(* report was written.                                                     *)
Schedule ==
    IF config = None \/ config \notin Enabled \/ Underway
    THEN /\ dropped' = (dropped \/ (report.state = "connecting" /\ ~Underway))
         /\ UNCHANGED <<report, refresh>>
    ELSE /\ report' = [config |-> config, state |-> "connecting", tools |-> None]
         /\ \/ /\ Unstarted # {}
               /\ refresh' = [refresh EXCEPT ![NextThread] = [pc |-> "connects", config |-> config]]
               /\ dropped' = FALSE
            \/ dropped' = TRUE /\ UNCHANGED refresh
-----------------------------------------------------------------------------
(* McpServerUpsert: the definition is replaced and saved; when the save    *)
(* fails the command ends there.                                           *)
Upsert(c) ==
    /\ NewCommand /\ upsert = "idle" /\ delete = "idle"
    /\ config' = c
    /\ \/ upsert' = "enable" /\ UNCHANGED <<unmarked, dropped>>
       \/ /\ unmarked' = TRUE
          /\ dropped' = (dropped \/ (report.state = "connecting" /\ config # c))
          /\ UNCHANGED upsert
    /\ UNCHANGED <<report, connection, refresh, session, worker, lane, delete, apply, sent,
                   renewed>>

(* enable_mcp_for_session with the Session of the command                  *)
Toggled(s, on) == IF s.selected = on THEN s ELSE Marked([s EXCEPT !.selected = on])

UpsertEnables ==
    /\ upsert = "enable"
    /\ SessionBecomes(Toggled(session, TRUE))
    /\ upsert' = "mark"
    /\ UNCHANGED <<memory, refresh, worker, lane, delete, apply, asked, begun, sent, dropped,
                   renewed>>

UpsertMarks ==
    /\ upsert = "mark"
    /\ MarkIfSelected
    /\ upsert' = "schedule"
    /\ UNCHANGED <<memory, refresh, worker, lane, delete, apply, asked, begun, sent, dropped,
                   renewed>>

UpsertSchedules ==
    /\ upsert = "schedule"
    /\ Schedule
    /\ upsert' = "idle"
    /\ UNCHANGED <<config, connection, session, worker, lane, delete, apply, asked, begun, sent,
                   unmarked, renewed>>

LaneIsFree == lane = "idle" /\ apply["lane"].pc = "idle" /\ delete = "idle"

(* McpSessionToggle; it fails for a server that is not defined.            *)
Toggle(on) ==
    /\ NewCommand /\ LaneIsFree /\ config # None
    /\ SessionBecomes(Toggled(session, on))
    /\ lane' = IF on THEN "schedule" ELSE "idle"
    /\ UNCHANGED <<memory, refresh, worker, upsert, delete, apply, sent, dropped, renewed>>

(* McpServerReconnect                                                      *)
Reconnect ==
    /\ NewCommand /\ LaneIsFree
    /\ SessionBecomes(Marked(session))
    /\ lane' = "disconnect"
    /\ UNCHANGED <<memory, refresh, worker, upsert, delete, apply, sent, dropped, renewed>>

LaneDisconnects ==
    /\ lane = "disconnect"
    /\ connection' = NoConnection
    /\ lane' = "schedule"
    /\ UNCHANGED <<config, report, refresh, session, worker, upsert, delete, apply, asked, begun,
                   sent,
                   unmarked, dropped, renewed>>

LaneSchedules ==
    /\ lane = "schedule"
    /\ Schedule
    /\ lane' = "idle"
    /\ UNCHANGED <<config, connection, session, worker, upsert, delete, apply, asked, begun,
                   sent, unmarked, renewed>>

(* McpServerDelete: first the MEM, and if that was saved the Sessions.     *)
Delete ==
    /\ NewCommand /\ LaneIsFree /\ upsert = "idle"
    /\ config' = None /\ report' = NoReport /\ connection' = NoConnection
    /\ \/ delete' = "sessions" /\ UNCHANGED unmarked
       \/ unmarked' = TRUE /\ UNCHANGED delete
    /\ dropped' = FALSE
    /\ UNCHANGED <<refresh, session, worker, upsert, lane, apply, sent, renewed>>

DeleteDeselects ==
    /\ delete = "sessions"
    /\ SessionBecomes(Toggled(session, FALSE))
    /\ delete' = "idle"
    /\ UNCHANGED <<memory, refresh, worker, upsert, lane, apply, asked, begun, sent, dropped,
                   renewed>>
-----------------------------------------------------------------------------
(* connect_with_capabilities on a thread: only at the end is the           *)
(* connection put where the calls find it, in place of any other.          *)
Connects(r) ==
    /\ refresh[r].pc = "connects"
    /\ \/ /\ connection' = [config |-> refresh[r].config, by |-> "refresh"]
          /\ refresh' = [refresh EXCEPT ![r].pc = "found"]
       \/ refresh' = [refresh EXCEPT ![r].pc = "failed"] /\ UNCHANGED connection
    /\ UNCHANGED <<config, report, session, worker, commands, apply, sent, unmarked, dropped,
                   renewed>>

(* Its result is taken only for the definition there is.                   *)
Accepted(r) == config = refresh[r].config

Result(r) ==
    [config |-> refresh[r].config,
     state |-> IF refresh[r].pc = "found" THEN "connected" ELSE "error",
     tools |-> IF refresh[r].pc = "found" THEN r ELSE None]

(* Of a failure the Sessions hear, but nothing is pending for them.        *)
AfterAcceptance(r) == IF refresh[r].pc = "found" THEN [refresh[r] EXCEPT !.pc = "marks"] ELSE Gone

Settles(r) ==
    /\ refresh[r].pc \in {"found", "failed"}
    /\ IF Accepted(r)
       THEN /\ report' = Result(r)
            /\ refresh' = [refresh EXCEPT ![r] = AfterAcceptance(r)]
            /\ dropped' = FALSE
       ELSE /\ refresh' = [refresh EXCEPT ![r].pc = "withdraws"]
            /\ UNCHANGED <<report, dropped>>
    /\ UNCHANGED <<config, connection, session, worker, commands, apply, sent, unmarked, renewed>>

Marks(r) ==
    /\ refresh[r].pc = "marks"
    /\ MarkIfSelected
    /\ refresh' = [refresh EXCEPT ![r] = Gone]
    /\ UNCHANGED <<memory, worker, commands, apply, sent, dropped, renewed>>

(* Mutant: the connection stays. *)
LeftOpen(c) == c

(* disconnect of whatever connection there is                              *)
Disconnected(c) == NoConnection

Withdraws(r) ==
    /\ refresh[r].pc = "withdraws"
    /\ connection' = Disconnected(connection)
    /\ refresh' = [refresh EXCEPT ![r] = Gone]
    /\ UNCHANGED <<config, report, session, worker, commands, apply, sent, unmarked, dropped,
                   renewed>>

(* A tool call of the worker connects by itself when it finds no           *)
(* connection of its definition (McpRuntime::connection).                  *)
CallConnects ==
    /\ worker.config # None /\ connection.config # worker.config
    /\ connection' = [config |-> worker.config, by |-> "call"]
    /\ UNCHANGED <<config, report, refresh, session, worker, commands, apply, sent,
                   unmarked, dropped, renewed>>

(* A failed call takes down whatever connection there is.                  *)
CallFails ==
    /\ worker.config # None /\ connection # NoConnection
    /\ connection' = NoConnection
    /\ UNCHANGED <<config, report, refresh, session, worker, commands, apply, sent,
                   unmarked, dropped, renewed>>
-----------------------------------------------------------------------------
Becomes(a, v) == apply' = [apply EXCEPT ![a] = v]
rest == <<refresh, commands>>

(* A turn begins: apply_pending_session_mcp, and the first look of         *)
(* sync_session_mcp.                                                       *)
ReadSession(a) ==
    /\ apply[a].pc = "idle" /\ session.revision # session.applied
    /\ a = "lane" => LaneIsFree
    /\ begun < MaxTurns /\ begun' = begun + 1
    /\ Becomes(a, [Applies EXCEPT !.pc = "servers", !.target = session.revision,
                                  !.selected = session.selected])
    /\ UNCHANGED <<memory, session, worker, refresh, upsert, lane, delete, asked, sent, unmarked,
                   dropped, renewed>>

Known == report.config = config /\ report.state = "connected"

View(selected) ==
    IF selected /\ config \in Enabled
    THEN [config |-> config, tools |-> IF Known THEN report.tools ELSE None]
    ELSE NoTools

ReadServers(a) ==
    /\ apply[a].pc = "servers"
    /\ Becomes(a, [apply[a] EXCEPT !.pc = "push", !.selected = FALSE,
                                   !.view = View(apply[a].selected),
                                   !.missing = apply[a].selected /\ config \in Enabled /\ ~Known])
    /\ UNCHANGED <<memory, session, worker, rest, sent, unmarked, dropped, renewed>>

Push(a) ==
    /\ apply[a].pc = "push"
    /\ worker' = apply[a].view
    /\ sent' = [last |-> apply[a].target,
                newest |-> IF apply[a].target > sent.newest THEN apply[a].target ELSE sent.newest]
    /\ Becomes(a, [Applies EXCEPT !.pc = "applied", !.target = apply[a].target,
                                  !.missing = apply[a].missing])
    /\ UNCHANGED <<memory, session, rest, unmarked, dropped, renewed>>

(* Mutant: whatever the revision is by now is called applied. *)
AppliedNow(s, target) == [s EXCEPT !.applied = s.revision]

Applied(s, target) == IF s.revision = target THEN [s EXCEPT !.applied = target] ELSE s

(* The Session is saved afterwards; when that fails no server is scheduled. *)
MarkApplied(a) ==
    /\ apply[a].pc = "applied"
    /\ session' = Applied(session, apply[a].target)
    /\ \/ apply[a].missing /\ Becomes(a, [Applies EXCEPT !.pc = "schedule"])
       \/ Becomes(a, Applies)
    /\ UNCHANGED <<memory, worker, rest, sent, unmarked, dropped, renewed>>

ApplySchedules(a) ==
    /\ apply[a].pc = "schedule"
    /\ Schedule
    /\ Becomes(a, Applies)
    /\ UNCHANGED <<config, connection, session, worker, commands, sent, unmarked, renewed>>

(* A turn, a message or a Stop changes other parts of the Session, and it  *)
(* is saved without the lock; a copy of what it was before is kept.        *)
BeginSave(a) ==
    /\ apply[a].pc = "idle"
    /\ a = "lane" => LaneIsFree
    /\ begun < MaxTurns /\ begun' = begun + 1
    /\ Becomes(a, [Applies EXCEPT !.pc = "saves", !.copy = session])
    /\ UNCHANGED <<memory, session, worker, refresh, upsert, lane, delete, asked, sent, unmarked,
                   dropped,
                   renewed>>

(* When it was not saved the whole Session of before is put back, without  *)
(* a look at what other threads have changed meanwhile.                    *)
PutBack(s) ==
    /\ session' = s
    /\ renewed' = IF s.revision # session.revision /\ renewed <= session.revision
                  THEN session.revision + 1 ELSE renewed

Saved(a) ==
    /\ apply[a].pc = "saves"
    /\ PutBack(apply[a].copy) \/ UNCHANGED <<session, renewed>>
    /\ Becomes(a, Applies)
    /\ UNCHANGED <<memory, worker, rest, sent, unmarked, dropped>>

Next ==
    \/ \E c \in Configs : Upsert(c)
    \/ UpsertEnables \/ UpsertMarks \/ UpsertSchedules
    \/ \E on \in BOOLEAN : Toggle(on)
    \/ Reconnect \/ LaneDisconnects \/ LaneSchedules
    \/ Delete \/ DeleteDeselects
    \/ \E r \in Refreshes : Connects(r) \/ Settles(r) \/ Marks(r) \/ Withdraws(r)
    \/ CallConnects \/ CallFails
    \/ \E a \in Appliers :
          \/ ReadSession(a) \/ ReadServers(a) \/ Push(a) \/ MarkApplied(a) \/ ApplySchedules(a)
          \/ BeginSave(a) \/ Saved(a)

Spec == Init /\ [][Next]_vars
-----------------------------------------------------------------------------
Quiet == upsert = "idle" /\ lane = "idle" /\ delete = "idle"

(* A Session whose revision is applied has in its worker what is selected  *)
(* and defined: its definition and, of a server that is connected, the     *)
(* tools of its last discovery.  (mem, sessions and the worker are changed *)
(* under different locks, by commands, refreshes and two appliers.)  It    *)
(* holds unless the worker got an older revision after a newer one, from   *)
(* two turns that began at once, the save of a definition failed, or the   *)
(* save of a Session put back an older revision and no later one is due:   *)
(* the numbers that were lost are given again, for something else.         *)
AppliedMeansCurrent ==
    /\ session.applied = session.revision /\ Quiet /\ ~unmarked
    /\ \A r \in Refreshes : refresh[r].pc # "marks"
    /\ sent.last = sent.newest /\ session.revision >= renewed
    => /\ worker.config = View(session.selected).config
       /\ Known => worker.tools = View(session.selected).tools

(* What a refresh began it ends, whatever happened to the server: a report *)
(* does not stay connecting for its definition without a thread (nothing   *)
(* would ever be scheduled again), except after an upsert whose save       *)
(* failed or that did not enable the server, or a thread that did not      *)
(* start; and a server that was deleted is connected only by a call of a   *)
(* turn that still had it.                                                 *)
RefreshesEndWhatTheyBegin ==
    /\ Underway /\ ~dropped =>
          \E r \in Refreshes :
             refresh[r].pc \in {"connects", "found", "failed"} /\ refresh[r].config = config
    /\ config = None /\ connection.by = "refresh" =>
          \E r \in Refreshes : refresh[r].pc \in {"found", "withdraws"}
-----------------------------------------------------------------------------
(* The inductive invariants.                                               *)
Definitions == Configs \cup {None}
Finders == Refreshes \cup {None}
ViewType == [config : Definitions, tools : Finders]

SessionType == [selected : BOOLEAN, revision : Nat, applied : Nat]
ConnectionType == [config : Definitions, by : {"nobody", "refresh", "call"}]

ReportType ==
    [config : Definitions, tools : Finders,
     state : {"disconnected", "connecting", "connected", "error"}]

ThreadType ==
    [pc : {"not started", "connects", "found", "failed", "marks", "withdraws", "gone"},
     config : Definitions]

ApplyType ==
    [pc : {"idle", "servers", "push", "applied", "schedule", "saves"}, target : Nat,
     selected : BOOLEAN, view : ViewType, missing : BOOLEAN, copy : SessionType]

TypeOK ==
    /\ config \in Definitions
    /\ report \in ReportType
    /\ connection \in ConnectionType
    /\ refresh \in [Refreshes -> ThreadType]
    /\ session \in SessionType
    /\ worker \in ViewType
    /\ upsert \in {"idle", "enable", "mark", "schedule"}
    /\ lane \in {"idle", "disconnect", "schedule"} /\ delete \in {"idle", "sessions"}
    /\ apply \in [Appliers -> ApplyType]
    /\ asked \in Nat /\ begun \in Nat
    /\ sent \in [last : Nat, newest : Nat]
    /\ unmarked \in BOOLEAN /\ dropped \in BOOLEAN /\ renewed \in Nat

(* A thread connects with a definition that is enabled.                    *)
ThreadsHaveConfigs ==
    \A r \in Refreshes :
        refresh[r].pc \notin {"not started", "gone"} => refresh[r].config \in Enabled

(* The report is connecting for another definition only until the upsert   *)
(* schedules its own.                                                      *)
ConnectsTheCurrent ==
    report.state = "connecting" /\ ~dropped /\ upsert = "idle" => report.config = config

RefreshInv == TypeOK /\ ThreadsHaveConfigs /\ ConnectsTheCurrent /\ RefreshesEndWhatTheyBegin

(* Whatever has a revision has that of the Session, an older one, or one   *)
(* that a put-back has undone.                                             *)
Noted(n) == n <= session.revision \/ n < renewed

RevisionsInOrder ==
    /\ session.applied <= sent.newest /\ sent.last <= sent.newest
    /\ Noted(sent.newest)
    /\ \A a \in Appliers :
          /\ Noted(apply[a].target)
          /\ apply[a].pc = "applied" => apply[a].target <= sent.newest
          /\ Noted(apply[a].copy.revision) /\ apply[a].copy.applied <= sent.newest

(* Something has changed and the revision is not raised yet.               *)
MarkToCome ==
    \/ upsert \in {"enable", "mark"} \/ delete = "sessions" \/ unmarked
    \/ \E r \in Refreshes : refresh[r].pc = "marks"

Current(v) ==
    /\ v.config = View(session.selected).config
    /\ Known \/ v.config = None => v.tools = View(session.selected).tools

Matches(v) == (session.selected /\ MarkToCome) \/ Current(v)

(* What was read, or copied, at the revision there is now is what there is *)
(* now, unless a mark is still to come or the revision is ambiguous.       *)
Fits(a) ==
    /\ apply[a].target = session.revision =>
          /\ apply[a].pc = "servers" => apply[a].selected = session.selected
          /\ apply[a].pc = "push" => Matches(apply[a].view)
    /\ apply[a].pc = "saves" /\ apply[a].copy.revision = session.revision =>
          apply[a].copy.selected = session.selected

ViewsMatch ==
    session.revision >= renewed =>
        /\ \A a \in Appliers : Fits(a)
        /\ sent.last = session.revision => Matches(worker)

RevisionInv == TypeOK /\ RevisionsInOrder /\ ViewsMatch
=============================================================================
