------------------------------- MODULE Timers -------------------------------
(***************************************************************************)
(* The timers of one Session.  The Host has them, fires them and keeps     *)
(* them in timers.json (server.rs); Core has a copy for the model's timer  *)
(* tool (core/agent, timer.rs).  Each tells the other all of its timers:   *)
(* the Host by a TimerSync, which the worker takes between turns, Core by  *)
(* a topic when the model creates or deletes one.  The Host changes them   *)
(* under the sessions lock and then, without it, takes a copy to write and *)
(* a copy to send, in its command lane, its scheduler and its event        *)
(* threads at once.  Whoever saves another change of the Session keeps a   *)
(* copy of it, and puts it back, timers and all, when it cannot be saved.  *)
(***************************************************************************)
EXTENDS Naturals, Sequences, FiniteSets

CONSTANTS
    UserTimers, ModelTimers,    \* the timers that may be created, by whom
    Unusable,       \* those of the model whose time the Host cannot read
    Repeats,        \* those of them that repeat; the others fire once
    Handlers,       \* threads that handle the events of the worker
    MaxEvents,      \* bound: commands, calls of the tool, fires, other saves and crashes together
    MaxAccidents    \* bound: kinds of accident in a behaviour

VARIABLES
    host,       \* Session.timers
    file,       \* timers.json
    core,       \* AgentCore.timers: of each timer, which prompt it has
    busy,       \* is a turn running?
    syncs,      \* TimerSync commands on their way to the worker
    topics,     \* core.timer topics on their way to the Host
    thread,     \* what each thread of the Host has to do yet
    due,        \* what the scheduler found due and has not delivered
    events,     \* how many there have been of what MaxEvents bounds
    created,    \* history: timers that were created
    fired,      \* history: how often each timer was delivered
    ended,      \* history: timers that were deleted, or delivered for good
    accidents   \* history: what went wrong between the threads

vars == <<host, file, core, busy, syncs, topics, thread, due,
          events, created, fired, ended, accidents>>

Timers == UserTimers \cup ModelTimers
Lane == "lane"
Scheduler == "scheduler"
Actors == {Lane, Scheduler} \cup Handlers

Absent == [prompt |-> 0, enabled |-> FALSE]
Idle == [pc |-> "idle", copy |-> <<>>, delivered |-> FALSE, syncs |-> FALSE]
Specs(timers) == [t \in Timers |-> timers[t].prompt]

New == [prompt |-> 1, enabled |-> TRUE]

(* The Session may have timers already. *)
Init ==
    /\ created \in SUBSET (Timers \ Unusable)
    /\ host = [t \in Timers |-> IF t \in created THEN New ELSE Absent]
    /\ file = host
    /\ core = Specs(host)
    /\ busy = FALSE
    /\ syncs = <<>> /\ topics = <<>>
    /\ thread = [x \in Actors |-> Idle]
    /\ due = {}
    /\ events = 0
    /\ fired = [t \in Timers |-> 0]
    /\ ended = {} /\ accidents = {}

coreVars == <<core, busy, topics>>
history == <<created, fired, ended>>

TopicsUnderWay == topics # <<>> \/ \E h \in Handlers : thread[h].pc = "merges"
SyncsUnderWay == syncs # <<>> \/ \E x \in Actors : thread[x].syncs

Event ==
    /\ events < MaxEvents
    /\ events' = events + 1

Happen(what) ==
    /\ accidents' = accidents \cup what
    /\ Cardinality(accidents') <= MaxAccidents
Happens(what, when) == Happen({a \in {what} : when})

(* x takes a copy, or a topic, while another thread holds one of its kind. *)
Races(x, pc) == \E y \in Actors \ {x} : thread[y].pc = pc
-----------------------------------------------------------------------------
(* A command changes the timers under the lock and persists them; all but  *)
(* toggle_session_timer then tell Core.                                    *)
Command(timers, tells) ==
    /\ thread[Lane].pc = "idle"
    /\ Event
    /\ host' = timers
    /\ thread' = [thread EXCEPT ![Lane] = [Idle EXCEPT !.pc = "persists", !.syncs = tells]]
    /\ Happens("crossed", tells /\ TopicsUnderWay)
    /\ UNCHANGED <<file, coreVars, syncs, due, fired>>

CreateTimer(t) ==
    /\ t \notin created
    /\ Command([host EXCEPT ![t] = New], TRUE)
    /\ created' = created \cup {t}
    /\ UNCHANGED ended

DeleteTimer(t) ==
    /\ host[t] # Absent
    /\ Command([host EXCEPT ![t] = Absent], TRUE)
    /\ ended' = ended \cup {t}
    /\ UNCHANGED created

ToggleTimer(t) ==
    /\ host[t] # Absent
    /\ Command([host EXCEPT ![t].enabled = ~@], FALSE)
    /\ UNCHANGED <<created, ended>>

UpdateTimer(t) ==
    /\ host[t].prompt = 1
    /\ Command([host EXCEPT ![t].prompt = 2], TRUE)
    /\ UNCHANGED <<created, ended>>
-----------------------------------------------------------------------------
(* What x has left to do when it has persisted, or sent, its copy.         *)
AfterPersist(x) ==
    IF thread[x].syncs THEN [thread[x] EXCEPT !.pc = "syncs", !.copy = <<>>]
    ELSE Idle

(* persist_timers: a copy under the lock, ...                              *)
Persist(x) ==
    /\ thread[x].pc = "persists"
    /\ thread' = [thread EXCEPT ![x].pc = "writes", ![x].copy = host]
    /\ Happens("raced", Races(x, "writes"))
    /\ UNCHANGED <<host, file, coreVars, syncs, due, events, history>>

(* ... and the file.  A command or a merge whose write fails ends there;   *)
(* the scheduler goes on.                                                  *)
Write(x) ==
    /\ thread[x].pc = "writes"
    /\ \/ /\ file' = thread[x].copy
          /\ thread' = [thread EXCEPT ![x] = AfterPersist(x)]
          /\ UNCHANGED accidents
       \/ /\ thread' = [thread EXCEPT ![x] = IF x = Scheduler THEN AfterPersist(x) ELSE Idle]
          /\ Happen({"unsaved"})
          /\ UNCHANGED file
    /\ UNCHANGED <<host, coreVars, syncs, due, events, history>>

(* sync_worker_timers, likewise *)
Sync(x) ==
    /\ thread[x].pc = "syncs"
    /\ thread' = [thread EXCEPT ![x].pc = "sends", ![x].copy = Specs(host)]
    /\ Happens("raced", Races(x, "sends"))
    /\ UNCHANGED <<host, file, coreVars, syncs, due, events, history>>

Send(x) ==
    /\ thread[x].pc = "sends"
    /\ syncs' = Append(syncs, thread[x].copy)
    /\ thread' = [thread EXCEPT ![x] = Idle]
    /\ UNCHANGED <<host, file, coreVars, due, events, history, accidents>>
-----------------------------------------------------------------------------
(* fire_due_timers notes what is due, ...                                  *)
Tick ==
    /\ thread[Scheduler].pc = "idle" /\ due = {} /\ Event
    /\ due' \in SUBSET {t \in Timers : host[t].enabled} \ {{}}
    /\ UNCHANGED <<host, file, coreVars, syncs, thread, history, accidents>>

(* ... and delivers one after the other, without another look at the       *)
(* Session's timers.  A turn is submitted or the prompt is queued; when    *)
(* the queue cannot be saved the Session of before is put back.            *)
Deliver ==
    /\ thread[Scheduler].pc = "idle" /\ due # {}
    /\ thread' = [thread EXCEPT ![Scheduler] = [@ EXCEPT !.pc = "delivers", !.copy = host]]
    /\ UNCHANGED <<host, file, coreVars, syncs, due, events, history, accidents>>

Delivered(t) ==
    /\ thread[Scheduler].pc = "delivers" /\ t \in due
    /\ due' = due \ {t}
    /\ \/ /\ fired' = [fired EXCEPT ![t] = @ + 1]
          /\ thread' = [thread EXCEPT ![Scheduler] = [Idle EXCEPT !.pc = t, !.delivered = TRUE]]
          /\ UNCHANGED <<host, accidents>>
       \/ /\ host' \in {host, thread[Scheduler].copy}
          /\ Happens("raced", host' # host)
          /\ thread' = [thread EXCEPT ![Scheduler] = [Idle EXCEPT !.pc = t]]
          /\ UNCHANGED fired
    /\ UNCHANGED <<file, coreVars, syncs, events, created, ended>>

(* Mutant: a timer that fired once stays, and is disabled. *)
DisabledAfterFire(t, delivered) ==
    IF delivered /\ t \in Repeats THEN host[t] ELSE [host[t] EXCEPT !.enabled = FALSE]

(* What becomes of a timer that was delivered, or was not. *)
AfterFire(t, delivered) ==
    IF ~delivered THEN [host[t] EXCEPT !.enabled = FALSE]
    ELSE IF t \in Repeats THEN host[t] ELSE Absent

Settle(t) ==
    /\ thread[Scheduler].pc = t
    /\ IF host[t] = Absent
       THEN thread' = [thread EXCEPT ![Scheduler] = Idle] /\ UNCHANGED <<host, ended, accidents>>
       ELSE /\ host' = [host EXCEPT ![t] = AfterFire(t, thread[Scheduler].delivered)]
            /\ ended' = IF thread[Scheduler].delivered /\ t \notin Repeats THEN ended \cup {t} ELSE ended
            /\ thread' = [thread EXCEPT ![Scheduler] = [Idle EXCEPT !.pc = "persists", !.syncs = TRUE]]
            /\ Happens("crossed", TopicsUnderWay)
    /\ UNCHANGED <<file, coreVars, syncs, due, events, created, fired>>
-----------------------------------------------------------------------------
(* The worker takes a sync between two turns: replace_timers.              *)
TakeSync ==
    /\ ~busy /\ syncs # <<>>
    /\ core' = Head(syncs) /\ syncs' = Tail(syncs)
    /\ UNCHANGED <<host, file, busy, topics, thread, due, events, history, accidents>>

(* A turn begins, or ends.  The worker takes its commands in their order:  *)
(* a turn that begins was submitted before every sync under way.           *)
Turn ==
    /\ busy \/ syncs = <<>>
    /\ busy' = ~busy
    /\ UNCHANGED <<host, file, core, topics, syncs, thread, due, events, history, accidents>>

(* A call of the timer tool tells the Host all of Core's timers.           *)
Call(timers) ==
    /\ busy /\ Event
    /\ core' = timers
    /\ topics' = Append(topics, timers)
    /\ UNCHANGED <<host, file, busy, syncs, thread, due, fired>>

ModelCreates(t) ==
    /\ t \notin created
    /\ Call([core EXCEPT ![t] = 1])
    /\ Happens("crossed", SyncsUnderWay)
    /\ created' = created \cup {t}
    /\ UNCHANGED ended

(* execute_del deletes by name, a timer of the user too. *)
ModelDeletes(t) ==
    /\ core[t] # 0
    /\ Call([core EXCEPT ![t] = 0])
    /\ Happen({a \in {"crossed"} : SyncsUnderWay} \cup {a \in {"defied"} : t \in UserTimers})
    /\ ended' = ended \cup {t}
    /\ UNCHANGED created
-----------------------------------------------------------------------------
(* Two threads may take events of the worker, and handle them in any order. *)
TakeTopic(h) ==
    /\ thread[h].pc = "idle" /\ topics # <<>>
    /\ thread' = [thread EXCEPT ![h] = [Idle EXCEPT !.pc = "merges", !.copy = Head(topics)]]
    /\ topics' = Tail(topics)
    /\ Happens("raced", Races(h, "merges"))
    /\ UNCHANGED <<host, file, core, busy, syncs, due, events, history>>

(* The timers of Core that the Host has or can have: a new one whose time  *)
(* cannot be read is left out, and Core is not told.                       *)
Taken(specs) == {t \in Timers : specs[t] # 0 /\ (t \in Unusable => host[t] # Absent)}

(* Mutant: every timer that Core does not know is gone. *)
ReplacedBy(specs) ==
    [t \in Timers |->
        IF t \in Taken(specs)
        THEN [prompt |-> specs[t], enabled |-> host[t] = Absent \/ host[t].enabled]
        ELSE Absent]

(* merge_session_timers_from_core: Core's timers with the Host's schedule, *)
(* and the timers of the user that Core does not know.                     *)
Merged(specs) ==
    [t \in Timers |->
        IF t \in Taken(specs)
        THEN [prompt |-> specs[t], enabled |-> host[t] = Absent \/ host[t].enabled]
        ELSE IF t \in UserTimers THEN host[t] ELSE Absent]

Merge(h) ==
    /\ thread[h].pc = "merges"
    /\ host' = Merged(thread[h].copy)
    /\ thread' = [thread EXCEPT ![h] = [Idle EXCEPT !.pc = "persists"]]
    /\ UNCHANGED <<file, coreVars, syncs, due, events, history, accidents>>
-----------------------------------------------------------------------------
(* A command, or a handler of events, changes something else of the        *)
(* Session and saves it without the lock; a copy of before is kept, ...    *)
Change(x) ==
    /\ x # Scheduler /\ thread[x].pc = "idle"
    /\ Event
    /\ thread' = [thread EXCEPT ![x] = [Idle EXCEPT !.pc = "saves", !.copy = host]]
    /\ UNCHANGED <<host, file, coreVars, syncs, due, history, accidents>>

(* ... and is put back when the save fails, whatever has happened to the   *)
(* timers since.                                                           *)
Saved(x) ==
    /\ thread[x].pc = "saves"
    /\ host' \in {host, thread[x].copy}
    /\ Happens("raced", host' # host)
    /\ thread' = [thread EXCEPT ![x] = Idle]
    /\ UNCHANGED <<file, coreVars, syncs, due, events, history>>
-----------------------------------------------------------------------------
(* The Host ends at any point.  A restored Session has the timers of the   *)
(* file, and its worker is told them before its first turn.                *)
Restart ==
    /\ Event
    /\ Happens("crashed", file # host \/ TopicsUnderWay \/ thread[Scheduler].delivered)
    /\ host' = file /\ core' = Specs(file) /\ UNCHANGED file
    /\ busy' = FALSE /\ syncs' = <<>> /\ topics' = <<>>
    /\ thread' = [x \in Actors |-> Idle]
    /\ due' = {}
    /\ UNCHANGED <<history>>

Next ==
    \/ \E t \in UserTimers : CreateTimer(t)
    \/ \E t \in Timers : DeleteTimer(t) \/ ToggleTimer(t) \/ UpdateTimer(t)
    \/ \E x \in Actors : Persist(x) \/ Write(x) \/ Sync(x) \/ Send(x) \/ Change(x) \/ Saved(x)
    \/ Tick \/ Deliver \/ \E t \in Timers : Delivered(t) \/ Settle(t)
    \/ TakeSync \/ Turn
    \/ \E t \in ModelTimers : ModelCreates(t)
    \/ \E t \in Timers : ModelDeletes(t)
    \/ \E h \in Handlers : TakeTopic(h) \/ Merge(h)
    \/ Restart

Spec == Init /\ [][Next]_vars
-----------------------------------------------------------------------------
AtRest ==
    /\ \A x \in Actors : thread[x] = Idle
    /\ ~TopicsUnderWay /\ ~SyncsUnderWay

Without(what) == accidents \cap what = {}

SameTimers(specs) == \A t \in Timers \ Unusable : specs[t] = host[t].prompt

(* When nothing is under way Host, Core and timers.json have the same      *)
(* timers with the same prompts, whoever changed them and in whichever     *)
(* order, unless a change of the Host and a call of the model crossed, two *)
(* threads raced (a put-back that undoes a change of the timers is one), a *)
(* write failed, or the model deleted a timer of the user (which the Host  *)
(* keeps).  Core may also have a timer of the model with a time that the   *)
(* Host could not read, which nobody will ever fire.                       *)
ReplicasAgree ==
    AtRest /\ Without({"raced", "unsaved"}) =>
        /\ file = host
        /\ Without({"crossed", "defied"}) => SameTimers(core)

(* A timer that was deleted, or fired for good, does not come back, and a  *)
(* timer that fires once is delivered once, unless something crossed or    *)
(* raced, the model deleted a timer of the user, or the Host crashed, or   *)
(* could not write, before the file said so.                               *)
EndedStaysEnded ==
    accidents = {} =>
        /\ \A t \in ended : host[t] = Absent \/ TopicsUnderWay
        /\ \A t \in Timers \ Repeats : fired[t] <= 1

(* The guard of merge_session_timers_from_core: a timer of the user stays  *)
(* until it is deleted or has fired, also when Core did not know it yet    *)
(* when it last told its timers; unless two threads raced, or the Host     *)
(* crashed before the file said so.                                        *)
UserTimersStay ==
    Without({"raced", "crashed"}) =>
        \A t \in UserTimers \cap created : host[t] # Absent \/ t \in ended

TimersInv == ReplicasAgree /\ EndedStaysEnded /\ UserTimersStay

(* "The runtime will deliver this prompt when due; it survives compression *)
(* and restart" is what the model is told of a timer it has created        *)
(* (timer.rs, 91): whatever crosses, the Host has the timer until it was   *)
(* delivered or deleted, if no thread raced and no crash was in the way.   *)
PromisesAreKept ==
    Without({"raced", "crashed"}) =>
        \A t \in ModelTimers \cap created :
            host[t] # Absent \/ t \in ended \/ fired[t] > 0 \/ TopicsUnderWay
-----------------------------------------------------------------------------
(* The inductive invariant.                                                *)
TimersType == [Timers -> {Absent} \cup [prompt : 1..2, enabled : BOOLEAN]]
SpecsType == [Timers -> 0..2]

Pcs == {"idle", "persists", "writes", "syncs", "sends", "merges", "delivers", "saves"} \cup Timers

Shape(v) == [pc |-> v.pc, copy |-> v.copy, delivered |-> v.delivered, syncs |-> v.syncs]

HasTimers(x) == thread[x].pc \in {"writes", "delivers", "saves"}
HasSpecs(x) == thread[x].pc \in {"sends", "merges"}

TypeOK ==
    /\ host \in TimersType /\ file \in TimersType /\ core \in SpecsType /\ busy \in BOOLEAN
    /\ syncs \in Seq(SpecsType) /\ topics \in Seq(SpecsType)
    /\ thread = [x \in Actors |-> Shape(thread[x])]
    /\ \A x \in Actors :
          /\ thread[x].pc \in Pcs /\ thread[x].delivered \in BOOLEAN /\ thread[x].syncs \in BOOLEAN
          /\ HasTimers(x) => thread[x].copy \in TimersType
          /\ HasSpecs(x) => thread[x].copy \in SpecsType
          /\ thread[x].pc \in {"syncs", "sends"} => thread[x].syncs
          /\ thread[x].syncs => thread[x].pc \in {"persists", "writes", "syncs", "sends"}
          /\ thread[x].pc = "merges" => x \in Handlers
          /\ thread[x].pc = "delivers" => x = Scheduler
    /\ due \subseteq Timers /\ events \in Nat
    /\ created \subseteq Timers /\ ended \subseteq Timers
    /\ fired \in [Timers -> Nat]

(* Only what was created is anywhere, and what is unusable only in Core    *)
(* and in its topics.                                                      *)
Known(specs) == \A t \in Timers : specs[t] # 0 => t \in created
Usable(specs) == \A t \in Timers : specs[t] # 0 => t \in created \ Unusable

AllKnown ==
    /\ Usable(Specs(host)) /\ Usable(Specs(file)) /\ Known(core)
    /\ \A i \in DOMAIN syncs : Usable(syncs[i])
    /\ \A i \in DOMAIN topics : Known(topics[i])
    /\ \A x \in Actors :
          /\ HasTimers(x) => Usable(Specs(thread[x].copy))
          /\ thread[x].pc = "sends" => Usable(thread[x].copy)
          /\ thread[x].pc = "merges" => Known(thread[x].copy)
    /\ due \subseteq created \ Unusable /\ ended \subseteq created
    /\ \A t \in Timers : fired[t] # 0 => t \in created \ Unusable

(* Where nothing raced one thread at a time has a copy of a kind.          *)
OneAtATime ==
    Without({"raced"}) =>
        \A x, y \in Actors :
            thread[x].pc = thread[y].pc /\ thread[x].pc \in {"writes", "sends", "merges"} => x = y

(* A change of the Host's timers is still to be persisted, is being        *)
(* written, or is in the file.                                             *)
FileFollows ==
    Without({"raced", "unsaved"}) /\ (\A x \in Actors : thread[x].pc # "persists") =>
        /\ \A x \in Actors : thread[x].pc = "writes" => thread[x].copy = host
        /\ (\A x \in Actors : thread[x].pc # "writes") => file = host

(* Syncs and topics are not under way at once; the last of each that is    *)
(* has what its sender has; and Core does not know more, or less, of the   *)
(* user's timers than the Host.                                            *)
OneWay == ~(SyncsUnderWay /\ TopicsUnderWay)

LastSyncIsHost ==
    SyncsUnderWay /\ (\A x \in Actors : thread[x].syncs => thread[x].pc = "sends") =>
        /\ \A x \in Actors : thread[x].syncs => thread[x].copy = Specs(host)
        /\ (\A x \in Actors : ~thread[x].syncs) => syncs[Len(syncs)] = Specs(host)

LastTopicIsCore ==
    /\ topics # <<>> => topics[Len(topics)] = core
    /\ topics = <<>> => \A h \in Handlers : thread[h].pc = "merges" => thread[h].copy = core

SameForUser(specs) == \A t \in UserTimers : specs[t] = host[t].prompt

TopicsKeepTheUsers ==
    TopicsUnderWay =>
        /\ SameForUser(core)
        /\ \A i \in DOMAIN topics : SameForUser(topics[i])
        /\ \A h \in Handlers : thread[h].pc = "merges" => SameForUser(thread[h].copy)

CoreFollows ==
    Without({"raced", "unsaved", "crossed", "defied"}) =>
        /\ OneWay /\ LastSyncIsHost /\ LastTopicIsCore /\ TopicsKeepTheUsers
        /\ ~SyncsUnderWay /\ ~TopicsUnderWay => SameTimers(core)

(* A timer that Core no longer has when it sends the ith topic is in no    *)
(* later one.                                                              *)
GoneFrom(t, i) == core[t] = 0 /\ \A j \in DOMAIN topics : j >= i => topics[j][t] = 0

GoneForGood ==
    \A t \in Timers : \A i \in DOMAIN topics : topics[i][t] = 0 =>
        /\ host[t] # Absent => GoneFrom(t, i)
        /\ \A h \in Handlers :
              thread[h].pc = "merges" /\ thread[h].copy[t] # 0 => GoneFrom(t, i)
        /\ \A j \in DOMAIN topics : j < i /\ topics[j][t] # 0 => GoneFrom(t, i)

GoneWithTheNext ==
    \A t \in Timers : \A h \in Handlers :
        host[t] # Absent /\ thread[h].pc = "merges" /\ thread[h].copy[t] = 0 => GoneFrom(t, 1)

(* What was to be delivered, or was, and is no longer there, does not      *)
(* come back.                                                              *)
Gone(t) ==
    TopicsUnderWay =>
        /\ GoneFrom(t, 1)
        /\ \A h \in Handlers : thread[h].pc = "merges" => thread[h].copy[t] = 0

PastIsGone ==
    \A t \in Timers \ Repeats : (t \in due \/ fired[t] # 0) /\ host[t] = Absent => Gone(t)

FiredOnce ==
    \A t \in Timers \ Repeats :
        /\ fired[t] <= 1
        /\ t \in due => fired[t] = 0
        /\ fired[t] # 0 =>
              host[t] = Absent \/ (thread[Scheduler].pc = t /\ thread[Scheduler].delivered)

EndedIsGone ==
    \A t \in ended :
        /\ host[t] = Absent \/ TopicsUnderWay
        /\ TopicsUnderWay \/ t \in Unusable => core[t] = 0
        /\ t \in UserTimers => host[t] = Absent

EndedInv ==
    accidents = {} =>
        GoneForGood /\ GoneWithTheNext /\ PastIsGone /\ FiredOnce /\ EndedIsGone

TimersIInv ==
    TypeOK /\ AllKnown /\ OneAtATime /\ FileFollows /\ CoreFollows /\ EndedInv /\ UserTimersStay
=============================================================================
