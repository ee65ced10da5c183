----------------------------- MODULE ShellJobs -----------------------------
(***************************************************************************)
(* ShellJobManager (resources/capabilities/tools/run_bash.rs): the shell   *)
(* commands a Session runs.  Each has a supervisor thread that waits for   *)
(* its processes to end; the call that started it waits for it, or leaves  *)
(* it in the background, where the next look at the Session finds its end. *)
(* The manager keeps the jobs by process id.  A signal only makes the      *)
(* processes end, which they may do at any time.                           *)
(***************************************************************************)
EXTENDS Naturals, FiniteSets

CONSTANTS
    Jobs,   \* the jobs that may be started
    Pids    \* process ids

VARIABLES
    job,        \* what there is to each job
    tracked,    \* ShellJobManagerState::jobs, by process id
    lock,       \* who holds completion_publication: a job's supervisor, or a
                \* look at the Session
    batch,      \* the ends this look has taken, their jobs not yet removed
    listening,  \* is there an exit listener?
    announced,  \* the jobs whose end the listener was told
    told        \* how often the end of each job was reported to the model

vars == <<job, tracked, lock, batch, listening, announced, told>>

Free == "free"
Look == "look"
NoPid == "none"

(* life is running, gone (reaped, nothing of it left: its process id may   *)
(* be given to another), or Finished; caller is the call that started it.  *)
New == [life |-> "new", pid |-> NoPid, delivery |-> "Direct", published |-> FALSE,
        caller |-> "none"]

Init ==
    /\ job = [j \in Jobs |-> New]
    /\ tracked = [p \in {} |-> "none"]
    /\ lock = Free
    /\ batch = {}
    /\ listening \in BOOLEAN
    /\ announced = {}
    /\ told = [j \in Jobs |-> 0]
-----------------------------------------------------------------------------
InUse == {job[j].pid : j \in {k \in Jobs : job[k].life = "running"}}

(* spawn_managed starts the process and its supervisor ...                 *)
Spawn(j, p, delivery) ==
    /\ job[j].life = "new" /\ p \notin InUse
    /\ job' = [job EXCEPT ![j] = [New EXCEPT !.life = "running", !.pid = p,
                                      !.delivery = delivery, !.caller = "starts"]]
    /\ UNCHANGED <<tracked, lock, batch, listening, announced, told>>

(* ... and then has the manager keep the job, in place of any other that   *)
(* had the process id.  A background job's call returns here.              *)
Track(j) ==
    /\ job[j].caller = "starts"
    /\ tracked' = [p \in DOMAIN tracked \cup {job[j].pid} |->
                      IF p = job[j].pid THEN j ELSE tracked[p]]
    /\ job' = [job EXCEPT ![j].caller = IF @ = "starts" /\ job[j].delivery = "Direct"
                                        THEN "waits" ELSE "gone"]
    /\ UNCHANGED <<lock, batch, listening, announced, told>>

(* The processes have ended and the supervisor has reaped them.            *)
ProcessesEnd(j) ==
    /\ job[j].life = "running"
    /\ job' = [job EXCEPT ![j].life = "gone"]
    /\ UNCHANGED <<tracked, lock, batch, listening, announced, told>>

(* supervise_shell_job publishes the end of a job in the background.       *)
Publishes(j) == job[j].delivery = "Background" /\ listening

(* The supervisor takes the publication lock and finishes the job; the     *)
(* listener is called before the lock is released.                         *)
Finish(j) ==
    /\ job[j].life = "gone" /\ lock = Free
    /\ lock' = j
    /\ job' = [job EXCEPT ![j].life = "Finished", ![j].published = Publishes(j)]
    /\ UNCHANGED <<tracked, batch, listening, announced, told>>

Announce(j) ==
    /\ lock = j
    /\ lock' = Free
    /\ announced' = IF job[j].published THEN announced \cup {j} ELSE announced
    /\ UNCHANGED <<job, tracked, batch, listening, told>>

SupervisorEnded(j) == job[j].life = "Finished" /\ lock # j
-----------------------------------------------------------------------------
(* The waiting call sees the job finished, whether or not it meant to      *)
(* cancel it or to leave it in the background.                             *)
TakeDirect(j) ==
    /\ job[j].caller = "waits" /\ job[j].life = "Finished"
    /\ told' = [told EXCEPT ![j] = @ + 1]
    /\ job' = [job EXCEPT ![j].caller = "takes"]
    /\ UNCHANGED <<tracked, lock, batch, listening, announced>>

(* promote_or_take_direct_result of a running job: its time is up.         *)
Promote(j) ==
    /\ job[j].caller = "waits" /\ job[j].life # "Finished"
    /\ job' = [job EXCEPT ![j].delivery = "Background", ![j].caller = "gone"]
    /\ UNCHANGED <<tracked, lock, batch, listening, announced, told>>

(* cancel_or_take_direct_result of a running job: it is signalled, and the *)
(* call ends as cancelled when the supervisor has.                         *)
Cancel(j) ==
    /\ job[j].caller = "waits" /\ job[j].life # "Finished"
    /\ told' = [told EXCEPT ![j] = @ + 1]
    /\ job' = [job EXCEPT ![j].delivery = "Delivered", ![j].caller = "cancels"]
    /\ UNCHANGED <<tracked, lock, batch, listening, announced>>

(* remove_job: whatever job has the process id.                            *)
Remove(p) == tracked' = [q \in DOMAIN tracked \ {p} |-> tracked[q]]

CallReturns(j) ==
    /\ \/ job[j].caller = "takes"
       \/ job[j].caller = "cancels" /\ SupervisorEnded(j)
    /\ Remove(job[j].pid)
    /\ job' = [job EXCEPT ![j].caller = "gone"]
    /\ UNCHANGED <<lock, batch, listening, announced, told>>
-----------------------------------------------------------------------------
TrackedJobs == {tracked[p] : p \in DOMAIN tracked}

(* Mutant: the end of a job that its call waits for is taken, too. *)
EndedAtAll == {j \in TrackedJobs : job[j].delivery # "Delivered" /\ job[j].life = "Finished"}

Ended == {j \in TrackedJobs : job[j].delivery = "Background" /\ job[j].life = "Finished"}

(* Mutant: the look does not take the publication lock. *)
LooksAtAnyTime == batch = {}

(* The look at the Session needs the publication lock.                     *)
MayLook == lock = Free

(* consume_completed_for_session: it takes the ends of the jobs in the     *)
(* background, and then removes them.                                      *)
Consume ==
    /\ MayLook /\ Ended # {}
    /\ lock' = Look
    /\ batch' = Ended
    /\ told' = [j \in Jobs |-> IF j \in Ended THEN told[j] + 1 ELSE told[j]]
    /\ job' = [j \in Jobs |-> IF j \in Ended THEN [job[j] EXCEPT !.delivery = "Delivered"]
                                             ELSE job[j]]
    /\ UNCHANGED <<tracked, listening, announced>>

RemoveConsumed(j) ==
    /\ j \in batch /\ SupervisorEnded(j)
    /\ Remove(job[j].pid)
    /\ batch' = batch \ {j}
    /\ lock' = IF batch' = {} THEN Free ELSE lock
    /\ UNCHANGED <<job, listening, announced, told>>

SetExitListener ==
    /\ ~listening
    /\ listening' = TRUE
    /\ UNCHANGED <<job, tracked, lock, batch, announced, told>>

Next ==
    \/ \E j \in Jobs :
          \/ \E p \in Pids : \E d \in {"Direct", "Background"} : Spawn(j, p, d)
          \/ Track(j)
          \/ ProcessesEnd(j) \/ Finish(j) \/ Announce(j)
          \/ TakeDirect(j) \/ Promote(j) \/ Cancel(j) \/ CallReturns(j)
          \/ RemoveConsumed(j)
    \/ Consume
    \/ SetExitListener

Spec == Init /\ [][Next]_vars
-----------------------------------------------------------------------------
(* Another job was given the same process id.                              *)
PidReused(j) == \E k \in Jobs \ {j} : job[k].pid = job[j].pid

(* The end of a job is reported to the model once: by the call that waits  *)
(* for it or by one look at the Session, however the end, the time limit   *)
(* and Stop race.  A job that the call has left stays in the manager until *)
(* it was reported, unless a process id was used again: jobs are kept and  *)
(* removed by process id, which is free before the job is taken out.       *)
EachEndIsToldOnce ==
    \A j \in Jobs :
        /\ told[j] <= 1
        /\ job[j].caller = "gone" /\ told[j] = 0 /\ ~PidReused(j) =>
              job[j].pid \in DOMAIN tracked /\ tracked[job[j].pid] = j

(* An update that a look takes and marks topic_published is one the        *)
(* listener was told before, and a job answered by its own call is not     *)
(* announced as well: the worker drops marked updates as already delivered *)
(* (core/agent/src/lib.rs, 2454 and 2741).                                 *)
MarkedUpdatesWereAnnounced ==
    \A j \in Jobs :
        /\ told[j] = 1 /\ job[j].caller = "gone" /\ job[j].published => j \in announced
        /\ job[j].caller \in {"waits", "takes", "cancels"} => ~job[j].published
-----------------------------------------------------------------------------
(* The inductive invariant. *)
JobType ==
    [life : {"new", "running", "gone", "Finished"}, pid : Pids \cup {NoPid},
     delivery : {"Direct", "Background", "Delivered"}, published : BOOLEAN,
     caller : {"none", "starts", "waits", "takes", "cancels", "gone"}]

TypeOK ==
    /\ job \in [Jobs -> JobType]
    /\ \A p \in DOMAIN tracked : tracked[p] \in Jobs
    /\ lock \in Jobs \cup {Free, Look}
    /\ batch \subseteq Jobs /\ announced \subseteq Jobs
    /\ listening \in BOOLEAN
    /\ told \in [Jobs -> Nat]

(* A job has a process id and a call from its start on.                    *)
Started(j) ==
    IF job[j].life = "new" THEN job[j] = New ELSE job[j].pid \in Pids /\ job[j].caller # "none"

(* What became of the call says how the end is to be delivered, and so     *)
(* whether it was.                                                         *)
Delivery(j) ==
    CASE job[j].caller = "starts" -> job[j].delivery # "Delivered"
      [] job[j].caller = "waits" -> job[j].delivery = "Direct"
      [] job[j].caller = "takes" -> job[j].delivery = "Direct" /\ job[j].life = "Finished"
      [] job[j].caller = "cancels" -> job[j].delivery = "Delivered"
      [] OTHER -> TRUE

Delivered(j) ==
    \/ job[j].delivery = "Delivered" \/ job[j].caller = "takes"
    \/ job[j].caller = "gone" /\ job[j].delivery = "Direct"

ToldWhenDelivered(j) == told[j] = IF Delivered(j) THEN 1 ELSE 0

(* Only the end of a job in the background is published, and the listener  *)
(* hears of it before the lock is free again.                              *)
Published(j) ==
    /\ job[j].published =>
          /\ job[j].life = "Finished" /\ job[j].caller \in {"starts", "gone"}
          /\ \/ j \in announced /\ job[j].delivery # "Direct"
             \/ lock = j /\ job[j].delivery = "Background"
    /\ lock = j => job[j].life = "Finished"
    /\ j \in batch => Delivered(j)

(* The manager keeps a job under its process id once it knows it, until    *)
(* its end was told, or another job was given that id.                     *)
Tracked(j) ==
    job[j].caller \notin {"none", "starts"} /\ told[j] = 0 /\ ~PidReused(j) =>
        job[j].pid \in DOMAIN tracked /\ tracked[job[j].pid] = j

TrackedHaveCalls == \A p \in DOMAIN tracked : job[tracked[p]].caller \notin {"none", "starts"}

(* The publication lock is a look's while there are ends it has taken.     *)
LookHasBatch == lock = Look <=> batch # {}

JobInv(j) == Started(j) /\ Delivery(j) /\ ToldWhenDelivered(j) /\ Published(j) /\ Tracked(j)

IInv == TypeOK /\ TrackedHaveCalls /\ LookHasBatch /\ \A j \in Jobs : JobInv(j)
=============================================================================
