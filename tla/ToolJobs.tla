------------------------------ MODULE ToolJobs ------------------------------
(***************************************************************************)
(* FileToolJobStore (core/agent/src/tool_jobs.rs): command tools that run  *)
(* in the background and outlive the Host.  A job is its process, a line   *)
(* in the index and a status file that is created once, by the supervisor  *)
(* thread of the Host that started it or by whoever cancels it, and        *)
(* written afterwards.  Sweeps cancel the jobs of this Host when a Session *)
(* is stopped or the Host ends (cancel_unfinished_for_session,             *)
(* terminate_owned_running); both look at the index once and then go       *)
(* through its jobs.  A restarted Host finds index and files as they are.  *)
(***************************************************************************)
EXTENDS Naturals, Sequences, SequencesExt

CONSTANTS
    Jobs,           \* the jobs that may be started
    Cancellers,     \* threads that cancel
    MaxRestarts     \* bound: crashes of the Host

VARIABLES
    process,    \* of each job: new, running, signalled, ended
    spawner,    \* the call that starts it: none, records, returned
    supervisor, \* its supervisor thread: none, waits, writes
    index,      \* jobs.jsonl
    owned,      \* the jobs of this incarnation of the Host
    status,     \* the status file of each job
    canceller,  \* what each has to do yet
    restarts,
    told,       \* history: what the model was first told of the end of a job
    cut,        \* history: jobs between whose steps a write failed or the Host crashed
    swept       \* history: the jobs a sweep of this Host has gone through

vars == <<process, spawner, supervisor, index, owned, status, canceller, restarts, told, cut, swept>>

Nobody == "nobody"
Rests == [pc |-> "idle", todo |-> <<>>, sweep |-> FALSE]

Init ==
    /\ process = [j \in Jobs |-> "new"]
    /\ spawner = [j \in Jobs |-> "none"]
    /\ supervisor = [j \in Jobs |-> "none"]
    /\ index = <<>> /\ owned = {}
    /\ status = [j \in Jobs |-> "absent"]
    /\ canceller = [c \in Cancellers |-> Rests]
    /\ restarts = 0
    /\ told = [j \in Jobs |-> "nothing"]
    /\ cut = {} /\ swept = {}

host == <<owned, restarts>>
history == <<told, cut, swept>>
-----------------------------------------------------------------------------
(* spawn_outcome: the process and its supervisor are started, ...          *)
Spawn(j) ==
    /\ process[j] = "new"
    /\ process' = [process EXCEPT ![j] = "running"]
    /\ supervisor' = [supervisor EXCEPT ![j] = "waits"]
    /\ spawner' = [spawner EXCEPT ![j] = "records"]
    /\ owned' = owned \cup {j}
    /\ UNCHANGED <<index, status, canceller, restarts, history>>

(* ... and then the job is recorded; an error is not looked at, and the    *)
(* model is told that the job has started.                                 *)
Record(j) ==
    /\ spawner[j] = "records"
    /\ \/ index' = Append(index, j)
       \/ UNCHANGED index
    /\ spawner' = [spawner EXCEPT ![j] = "returned"]
    /\ UNCHANGED <<process, supervisor, host, status, canceller, history>>

ProcessEnds(j) ==
    /\ process[j] \in {"running", "signalled"}
    /\ process' = [process EXCEPT ![j] = "ended"]
    /\ UNCHANGED <<spawner, supervisor, index, host, status, canceller, history>>

(* Mutant: a file that says nothing may be claimed. *)
ClaimsUnwritten(j) == status[j] \in {"absent", "empty"}

(* write_status_once creates the file only when there is none ...          *)
Claims(j) == status[j] = "absent"

(* ... and then writes it.  When it fails the file is empty, or it is      *)
(* written and was only not synchronized.                                  *)
Writes(j, how) == status' = [status EXCEPT ![j] = how] /\ UNCHANGED cut

FailsToWrite(j, how) ==
    /\ status' \in {status, [status EXCEPT ![j] = how]}
    /\ cut' = cut \cup {j}

SupervisorWakes(j) ==
    /\ supervisor[j] = "waits" /\ process[j] = "ended"
    /\ IF Claims(j)
       THEN /\ status' = [status EXCEPT ![j] = "empty"]
            /\ supervisor' = [supervisor EXCEPT ![j] = "writes"]
       ELSE supervisor' = [supervisor EXCEPT ![j] = "none"] /\ UNCHANGED status
    /\ UNCHANGED <<process, spawner, index, host, canceller, history>>

SupervisorWrites(j) ==
    /\ supervisor[j] = "writes"
    /\ Writes(j, "exit code") \/ FailsToWrite(j, "exit code")
    /\ supervisor' = [supervisor EXCEPT ![j] = "none"]
    /\ UNCHANGED <<process, spawner, index, host, canceller, told, swept>>
-----------------------------------------------------------------------------
Completed(j) == status[j] \in {"exit code", "cancelled"}

(* A sweep reads the index once and goes through its jobs.                 *)
Sweep(c) ==
    /\ canceller[c].pc = "idle"
    /\ canceller' = [canceller EXCEPT ![c] = [pc |-> "looks", todo |-> index, sweep |-> TRUE]]
    /\ UNCHANGED <<process, spawner, supervisor, index, host, status, history>>

(* job_cancel of one job, whichever Host started it                        *)
CancelOne(c, j) ==
    /\ canceller[c].pc = "idle" /\ j \in ToSet(index) /\ ~Completed(j)
    /\ canceller' = [canceller EXCEPT ![c] = [pc |-> "looks", todo |-> <<j>>, sweep |-> FALSE]]
    /\ UNCHANGED <<process, spawner, supervisor, index, host, status, history>>

Job(c) == Head(canceller[c].todo)
Busy(c) == canceller[c].todo # <<>>

(* The canceller is done with a job.                                       *)
Passed(c) ==
    LET rest == Tail(canceller[c].todo) IN
    /\ canceller' = [canceller EXCEPT ![c] =
          IF rest = <<>> THEN Rests ELSE [@ EXCEPT !.pc = "looks", !.todo = rest]]
    /\ swept' = IF canceller[c].sweep THEN swept \cup ({Job(c)} \cap owned) ELSE swept

EmptySweepEnds(c) ==
    /\ canceller[c].pc = "looks" /\ ~Busy(c)
    /\ canceller' = [canceller EXCEPT ![c] = Rests]
    /\ UNCHANGED <<process, spawner, supervisor, index, host, status, history>>

(* The jobs of another Host are left alone by a sweep, those that have     *)
(* ended by everybody.                                                     *)
Skipped(c) == Completed(Job(c)) \/ (canceller[c].sweep /\ Job(c) \notin owned)

Look(c) ==
    /\ canceller[c].pc = "looks" /\ Busy(c)
    /\ IF Skipped(c) \/ ~Claims(Job(c))
       THEN Passed(c) /\ UNCHANGED status
       ELSE /\ status' = [status EXCEPT ![Job(c)] = "empty"]
            /\ canceller' = [canceller EXCEPT ![c].pc = "writes"]
            /\ UNCHANGED swept
    /\ UNCHANGED <<process, spawner, supervisor, index, host, told, cut>>

(* A cancellation whose write failed does not signal the job.              *)
Write(c) ==
    /\ canceller[c].pc = "writes"
    /\ \/ /\ Writes(Job(c), "cancelled")
          /\ canceller' = [canceller EXCEPT ![c].pc = "signals"]
          /\ UNCHANGED swept
       \/ FailsToWrite(Job(c), "cancelled") /\ Passed(c)
    /\ UNCHANGED <<process, spawner, supervisor, index, host, told>>

(* terminate_process, of a process that may have ended meanwhile           *)
Signal(c) ==
    /\ canceller[c].pc = "signals"
    /\ process' = [process EXCEPT ![Job(c)] = IF @ = "running" THEN "signalled" ELSE @]
    /\ Passed(c)
    /\ UNCHANGED <<spawner, supervisor, index, host, status, told, cut>>
-----------------------------------------------------------------------------
(* status_outcome, of a job whose file says something                      *)
Ask(j) ==
    /\ j \in ToSet(index) /\ Completed(j) /\ told[j] = "nothing"
    /\ told' = [told EXCEPT ![j] = status[j]]
    /\ UNCHANGED <<process, spawner, supervisor, index, host, status, canceller, cut, swept>>

(* The Host ends at any point and is started again: its threads are gone,  *)
(* the processes go on.                                                    *)
Restart ==
    /\ restarts < MaxRestarts
    /\ restarts' = restarts + 1
    /\ cut' = cut \cup {j \in Jobs : supervisor[j] # "none"}
                  \cup {Job(c) : c \in {d \in Cancellers : canceller[d].pc \in {"writes", "signals"}}}
    /\ spawner' = [j \in Jobs |-> IF spawner[j] = "records" THEN "returned" ELSE spawner[j]]
    /\ supervisor' = [j \in Jobs |-> "none"]
    /\ canceller' = [c \in Cancellers |-> Rests]
    /\ owned' = {} /\ swept' = {}
    /\ UNCHANGED <<process, index, status, told>>

Next ==
    \/ \E j \in Jobs :
          Spawn(j) \/ Record(j) \/ ProcessEnds(j) \/ SupervisorWakes(j) \/ SupervisorWrites(j) \/ Ask(j)
    \/ \E c \in Cancellers :
          \/ Sweep(c) \/ EmptySweepEnds(c) \/ Look(c) \/ Write(c) \/ Signal(c)
          \/ \E j \in Jobs : CancelOne(c, j)
    \/ Restart

Spec == Init /\ [][Next]_vars
-----------------------------------------------------------------------------
HasHand(c, j) == Busy(c) /\ Job(c) = j /\ canceller[c].pc \in {"writes", "signals"}

(* A job ends once.  What the model was told of its end stays true, across *)
(* restarts and whoever else supervises, cancels or sweeps.  A job that is *)
(* called cancelled was signalled or had ended, one whose supervisor is    *)
(* done has a status, and one that a sweep has passed is over or is being  *)
(* ended by another: all but the jobs between whose steps a write failed   *)
(* or the Host crashed (their file stays as it is, for ever).              *)
EachJobEndsOnce ==
    \A j \in Jobs :
        /\ told[j] # "nothing" => status[j] = told[j]
        /\ j \notin cut =>
              /\ status[j] = "cancelled" /\ process[j] = "running" =>
                    \E c \in Cancellers : HasHand(c, j)
              /\ process[j] = "ended" /\ supervisor[j] = "none" =>
                    Completed(j) \/ \E c \in Cancellers : HasHand(c, j)
              /\ j \in swept /\ process[j] = "running" =>
                    \E c \in Cancellers : HasHand(c, j)
=============================================================================
