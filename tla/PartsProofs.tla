---------------------------- MODULE PartsProofs ----------------------------
(***************************************************************************)
(* The machines that MCParts runs: the tool jobs, the shell jobs, the      *)
(* command cache and the MCP servers.  The last three are instances, and   *)
(* what holds of one holds of the behaviours in which it runs.             *)
(***************************************************************************)
EXTENDS MCParts, SequenceTheorems, FiniteSetTheorems, WellFoundedInduction, TLAPS

(* A tool job ends once, whatever supervises, cancels, sweeps and restarts *)
(* beside it, for any number of jobs and cancellers.                       *)

(***************************************************************************)
(* The inductive invariant.  A status file that is empty has one writer,   *)
(* the supervisor or one canceller, unless the writer was lost (cut); a    *)
(* supervisor is there while the process is.                               *)
(***************************************************************************)
CancellerType == [pc : {"idle", "looks", "writes", "signals"}, todo : Seq(Jobs), sweep : BOOLEAN]

Types ==
    /\ process \in [Jobs -> {"new", "running", "signalled", "ended"}]
    /\ spawner \in [Jobs -> {"none", "records", "returned"}]
    /\ supervisor \in [Jobs -> {"none", "waits", "writes"}]
    /\ index \in Seq(Jobs)
    /\ status \in [Jobs -> {"absent", "empty", "exit code", "cancelled"}]
    /\ canceller \in [Cancellers -> CancellerType]
    /\ told \in [Jobs -> {"nothing", "exit code", "cancelled"}]
    /\ cut \subseteq Jobs /\ swept \subseteq Jobs

(* The cancellers that are at a job: about to write its status, to signal. *)
Writers(j) == {c \in Cancellers : canceller[c].pc = "writes" /\ Busy(c) /\ Job(c) = j}
Signallers(j) == {c \in Cancellers : canceller[c].pc = "signals" /\ Busy(c) /\ Job(c) = j}

(* The jobs that can be found: nothing is known of one before it starts.   *)
Listed(c) == ToSet(canceller[c].todo)
Mentioned == {j \in Jobs : j \in ToSet(index) \/ \E c \in Cancellers : j \in Listed(c)}

NewIsUnknown(j) ==
    process[j] = "new" =>
        /\ status[j] = "absent" /\ supervisor[j] = "none" /\ spawner[j] = "none"
        /\ j \notin swept /\ j \notin Mentioned

OneWriter(j) ==
    /\ supervisor[j] = "writes" =>
          status[j] = "empty" /\ process[j] = "ended" /\ Writers(j) = {}
    /\ Writers(j) # {} => status[j] = "empty"
    /\ \A c, d \in Writers(j) : c = d
    /\ Signallers(j) # {} => status[j] = "cancelled"

Supervised(j) ==
    /\ status[j] = "exit code" => process[j] = "ended"
    /\ process[j] \in {"running", "signalled"} /\ j \notin cut => supervisor[j] = "waits"
    /\ process[j] = "ended" /\ supervisor[j] = "none" /\ j \notin cut => status[j] # "absent"
    /\ status[j] = "empty" /\ j \notin cut => supervisor[j] = "writes" \/ Writers(j) # {}

(* What was told stays; a job that is called cancelled, or that a sweep    *)
(* has passed, is not left running while no step is lost.                  *)
Settled(j) ==
    /\ told[j] # "nothing" => status[j] = told[j]
    /\ j \notin cut /\ process[j] = "running" /\ (status[j] = "cancelled" \/ j \in swept) =>
          Writers(j) \cup Signallers(j) # {}

JobInv(j) == NewIsUnknown(j) /\ OneWriter(j) /\ Supervised(j) /\ Settled(j)

(* Who writes or signals is at a job.                                      *)
Placed == \A c \in Cancellers : canceller[c].pc \in {"writes", "signals"} => Busy(c)

IInv == Types /\ Placed /\ \A j \in Jobs : JobInv(j)
-----------------------------------------------------------------------------
(* The first job of a list, and what is left.                              *)
LEMMA ListFacts ==
    ASSUME NEW s \in Seq(Jobs), s # <<>>
    PROVE  /\ Head(s) \in Jobs /\ Head(s) \in ToSet(s)
           /\ Tail(s) \in Seq(Jobs) /\ ToSet(Tail(s)) \subseteq ToSet(s)
<1>1. Len(s) \in Nat /\ Len(s) # 0 /\ DOMAIN s = 1 .. Len(s)
  BY LenProperties, EmptySeq
<1>2. Head(s) = s[1] /\ 1 \in DOMAIN s
  BY <1>1
<1>3. /\ Tail(s) \in Seq(Jobs) /\ Len(Tail(s)) = Len(s) - 1
      /\ \A i \in 1 .. Len(s) - 1 : Tail(s)[i] = s[i + 1]
  BY <1>1, HeadTailProperties
<1>4. DOMAIN Tail(s) = 1 .. Len(s) - 1
  BY <1>3, LenProperties
<1>5. ASSUME NEW i \in DOMAIN Tail(s) PROVE Tail(s)[i] \in ToSet(s)
  <2>1. i + 1 \in DOMAIN s /\ Tail(s)[i] = s[i + 1]
    BY <1>1, <1>3, <1>4
  <2> QED BY <2>1 DEF ToSet
<1>6. ToSet(Tail(s)) \subseteq ToSet(s)
  BY <1>5 DEF ToSet
<1>7. s[1] \in Jobs /\ s[1] \in ToSet(s)
  BY <1>2, ElementOfSeq, <1>1 DEF ToSet
<1> QED BY <1>2, <1>3, <1>6, <1>7

(* A list with one more job.                                               *)
LEMMA AppendFacts ==
    ASSUME NEW s \in Seq(Jobs), NEW j \in Jobs
    PROVE  Append(s, j) \in Seq(Jobs) /\ ToSet(Append(s, j)) \subseteq ToSet(s) \cup {j}
<1>1. /\ Append(s, j) \in Seq(Jobs) /\ Len(Append(s, j)) = Len(s) + 1
      /\ \A i \in 1 .. Len(s) : Append(s, j)[i] = s[i]
      /\ Append(s, j)[Len(s) + 1] = j
  BY AppendProperties
<1>2. DOMAIN Append(s, j) = 1 .. Len(s) + 1 /\ DOMAIN s = 1 .. Len(s) /\ Len(s) \in Nat
  BY <1>1, LenProperties
<1> QED BY <1>1, <1>2 DEF ToSet

(* A canceller that has something to do is at a job there is.              *)
LEMMA AtItsJob ==
    ASSUME Types, NEW c \in Cancellers, Busy(c)
    PROVE  Job(c) \in Jobs /\ Job(c) \in Mentioned
<1>1. canceller[c].todo \in Seq(Jobs) /\ canceller[c].todo # <<>>
  BY DEF Types, CancellerType, Busy
<1> QED BY <1>1, ListFacts DEF Job, Listed, Mentioned

(* A step that does not touch a job keeps what is known of it.             *)
Untouched(j) ==
    /\ process'[j] = process[j] /\ supervisor'[j] = supervisor[j]
    /\ spawner'[j] # "none" => spawner[j] # "none"
    /\ status'[j] = status[j] /\ told'[j] = told[j]
    /\ Writers(j)' = Writers(j) /\ Signallers(j)' = Signallers(j)
    /\ j \in cut => j \in cut'
    /\ j \in swept' => j \in swept
    /\ j \in Mentioned' => j \in Mentioned

(* A job that a step leaves alone keeps its invariant. *)
LEMMA UntouchedKeepsJobInv ==
    ASSUME NEW j \in Jobs, JobInv(j), Untouched(j)
    PROVE  JobInv(j)'
<1>1. NewIsUnknown(j)'
  BY DEF JobInv, Untouched, NewIsUnknown
<1>2. OneWriter(j)'
  BY DEF JobInv, Untouched, OneWriter
<1>3. Supervised(j)'
  BY DEF JobInv, Untouched, Supervised
<1>4. Settled(j)'
  BY DEF JobInv, Untouched, Settled
<1> QED BY <1>1, <1>2, <1>3, <1>4 DEF JobInv

(* A step without a canceller leaves all of them where they are.           *)
LEMMA SameCancellers ==
    ASSUME canceller' = canceller
    PROVE  /\ \A j : Writers(j)' = Writers(j) /\ Signallers(j)' = Signallers(j)
           /\ index' = index => Mentioned' = Mentioned
           /\ Placed' <=> Placed
<1>1. \A j : Writers(j)' = Writers(j) /\ Signallers(j)' = Signallers(j)
  BY DEF Writers, Signallers, Busy, Job
<1>2. Placed' <=> Placed
  BY DEF Placed, Busy
<1>3. index' = index => Mentioned' = Mentioned
  BY DEF Mentioned, Listed, ToSet
<1> QED BY <1>1, <1>2, <1>3

(* Nothing has been started.                                               *)
LEMMA InitEstablishesIInv == Init => IInv
<1> SUFFICES ASSUME Init PROVE IInv
  OBVIOUS
<1>1. Types
  BY EmptySeq DEF Init, Types, Rests, CancellerType
<1>2. Placed /\ \A j \in Jobs : Writers(j) = {} /\ Signallers(j) = {}
  BY DEF Init, Placed, Writers, Signallers, Rests
<1>3. ToSet(<<>>) = {}
  BY DEF ToSet
<1>4. Mentioned = {}
  BY <1>3 DEF Init, Mentioned, Listed, Rests
<1>5. ASSUME NEW j \in Jobs PROVE JobInv(j)
  BY <1>2, <1>4 DEF Init, JobInv, NewIsUnknown, OneWriter, Supervised, Settled
<1> QED BY <1>1, <1>2, <1>5 DEF IInv

(* spawn_outcome starts a process that nothing is known of yet.            *)
LEMMA SpawnPreservesIInv ==
    ASSUME IInv, NEW j \in Jobs, Spawn(j)
    PROVE  IInv'
<1>0. Types /\ Placed /\ \A k \in Jobs : JobInv(k)
  BY DEF IInv
<1>1. canceller' = canceller
  BY DEF Spawn, host, history
<1>2. Placed' /\ \A k : Writers(k)' = Writers(k) /\ Signallers(k)' = Signallers(k)
  BY <1>0, <1>1, SameCancellers
<1>3. Types'
  BY <1>0, AppendFacts DEF Types, Spawn, host, history
<1>4. Mentioned' \subseteq Mentioned
  BY <1>1, SameCancellers DEF Spawn, host, history
<1>5. ASSUME NEW k \in Jobs, k # j PROVE JobInv(k)'
  <2>1. Untouched(k)
    BY <1>0, <1>2, <1>4, <1>5 DEF Types, Untouched, Spawn, host, history
  <2> QED BY <2>1, <1>0, UntouchedKeepsJobInv
<1>6. JobInv(j)'
  <2>0. NewIsUnknown(j) /\ OneWriter(j) /\ Supervised(j) /\ Settled(j)
    BY <1>0 DEF JobInv
  <2>1. NewIsUnknown(j)'
    BY <2>0, <1>0, <1>4 DEF Types, NewIsUnknown, OneWriter, Spawn, host, history
  <2>2. OneWriter(j)'
    BY <2>0, <1>0, <1>2 DEF Types, NewIsUnknown, OneWriter, Spawn, host, history
  <2>3. Supervised(j)'
    BY <2>0, <1>0, <1>2 DEF Types, NewIsUnknown, OneWriter, Supervised, Spawn, host, history
  <2>4. Settled(j)'
    BY <2>0, <1>0, <1>2 DEF Types, NewIsUnknown, OneWriter, Settled, Spawn, host, history
  <2> QED BY <2>1, <2>2, <2>3, <2>4 DEF JobInv
<1> QED BY <1>2, <1>3, <1>5, <1>6 DEF IInv

(* The line in the index is added, or lost with an ignored error.          *)
LEMMA RecordPreservesIInv ==
    ASSUME IInv, NEW j \in Jobs, Record(j)
    PROVE  IInv'
<1>0. Types /\ Placed /\ \A k \in Jobs : JobInv(k)
  BY DEF IInv
<1>1. canceller' = canceller
  BY DEF Record, host, history
<1>2. Placed' /\ \A k : Writers(k)' = Writers(k) /\ Signallers(k)' = Signallers(k)
  BY <1>0, <1>1, SameCancellers
<1>3. Types'
  BY <1>0, AppendFacts DEF Types, Record, host, history
<1>4. Mentioned' \subseteq Mentioned \cup {j}
  <2>1. index' \in {index, Append(index, j)}
    BY DEF Record
  <2>2. ToSet(index') \subseteq ToSet(index) \cup {j}
    BY <1>0, <2>1, AppendFacts DEF Types
  <2> QED BY <1>1, <2>2 DEF Mentioned, Listed, ToSet
<1>5. ASSUME NEW k \in Jobs, k # j PROVE JobInv(k)'
  <2>1. Untouched(k)
    BY <1>0, <1>2, <1>4, <1>5 DEF Types, Untouched, Record, host, history
  <2> QED BY <2>1, <1>0, UntouchedKeepsJobInv
<1>6. JobInv(j)'
  <2>0. NewIsUnknown(j) /\ OneWriter(j) /\ Supervised(j) /\ Settled(j)
    BY <1>0 DEF JobInv
  <2>1. NewIsUnknown(j)'
    BY <2>0, <1>0, <1>4 DEF Types, NewIsUnknown, OneWriter, Record, host, history
  <2>2. OneWriter(j)'
    BY <2>0, <1>0, <1>2 DEF Types, NewIsUnknown, OneWriter, Record, host, history
  <2>3. Supervised(j)'
    BY <2>0, <1>0, <1>2 DEF Types, NewIsUnknown, OneWriter, Supervised, Record, host, history
  <2>4. Settled(j)'
    BY <2>0, <1>0, <1>2 DEF Types, NewIsUnknown, OneWriter, Settled, Record, host, history
  <2> QED BY <2>1, <2>2, <2>3, <2>4 DEF JobInv
<1> QED BY <1>2, <1>3, <1>5, <1>6 DEF IInv

(* A process ends by itself or as it was signalled.                        *)
LEMMA ProcessEndsPreservesIInv ==
    ASSUME IInv, NEW j \in Jobs, ProcessEnds(j)
    PROVE  IInv'
<1>0. Types /\ Placed /\ \A k \in Jobs : JobInv(k)
  BY DEF IInv
<1>1. canceller' = canceller
  BY DEF ProcessEnds, host, history
<1>2. Placed' /\ \A k : Writers(k)' = Writers(k) /\ Signallers(k)' = Signallers(k)
  BY <1>0, <1>1, SameCancellers
<1>3. Types'
  BY <1>0, AppendFacts DEF Types, ProcessEnds, host, history
<1>4. Mentioned' \subseteq Mentioned
  BY <1>1, SameCancellers DEF ProcessEnds, host, history
<1>5. ASSUME NEW k \in Jobs, k # j PROVE JobInv(k)'
  <2>1. Untouched(k)
    BY <1>0, <1>2, <1>4, <1>5 DEF Types, Untouched, ProcessEnds, host, history
  <2> QED BY <2>1, <1>0, UntouchedKeepsJobInv
<1>6. JobInv(j)'
  <2>0. NewIsUnknown(j) /\ OneWriter(j) /\ Supervised(j) /\ Settled(j)
    BY <1>0 DEF JobInv
  <2>1. NewIsUnknown(j)'
    BY <2>0, <1>0, <1>4 DEF Types, NewIsUnknown, OneWriter, ProcessEnds, host, history
  <2>2. OneWriter(j)'
    BY <2>0, <1>0, <1>2 DEF Types, NewIsUnknown, OneWriter, ProcessEnds, host, history
  <2>3. Supervised(j)'
    BY <2>0, <1>0, <1>2
      DEF Types, NewIsUnknown, OneWriter, Supervised, ProcessEnds, host, history
  <2>4. Settled(j)'
    BY <2>0, <1>0, <1>2 DEF Types, NewIsUnknown, OneWriter, Settled, ProcessEnds, host, history
  <2> QED BY <2>1, <2>2, <2>3, <2>4 DEF JobInv
<1> QED BY <1>2, <1>3, <1>5, <1>6 DEF IInv

(* The supervisor creates the status file only when there is none.         *)
LEMMA SupervisorWakesPreservesIInv ==
    ASSUME IInv, NEW j \in Jobs, SupervisorWakes(j)
    PROVE  IInv'
<1>0. Types /\ Placed /\ \A k \in Jobs : JobInv(k)
  BY DEF IInv
<1>1. canceller' = canceller
  BY DEF SupervisorWakes, host, history, Claims
<1>2. Placed' /\ \A k : Writers(k)' = Writers(k) /\ Signallers(k)' = Signallers(k)
  BY <1>0, <1>1, SameCancellers
<1>3. Types'
  BY <1>0, AppendFacts, ZenonT(60) DEF Types, SupervisorWakes, host, history, Claims
<1>4. Mentioned' \subseteq Mentioned
  BY <1>1, SameCancellers DEF SupervisorWakes, host, history, Claims
<1>5. ASSUME NEW k \in Jobs, k # j PROVE JobInv(k)'
  <2>1. Untouched(k)
    BY <1>0, <1>2, <1>4, <1>5 DEF Types, Untouched, SupervisorWakes, host, history, Claims
  <2> QED BY <2>1, <1>0, UntouchedKeepsJobInv
<1>6. JobInv(j)'
  <2>0. NewIsUnknown(j) /\ OneWriter(j) /\ Supervised(j) /\ Settled(j)
    BY <1>0 DEF JobInv
  <2>1. NewIsUnknown(j)'
    BY <2>0, <1>0, <1>4
      DEF Types, NewIsUnknown, OneWriter, SupervisorWakes, host, history, Claims
  <2>2. OneWriter(j)'
    BY <2>0, <1>0, <1>2, ZenonT(60)
      DEF Types, NewIsUnknown, OneWriter, SupervisorWakes, host, history, Claims
  <2>3. Supervised(j)'
    BY <2>0, <1>0, <1>2
      DEF Types, NewIsUnknown, OneWriter, Supervised, SupervisorWakes, host, history, Claims
  <2>4. Settled(j)'
    BY <2>0, <1>0, <1>2
      DEF Types, NewIsUnknown, OneWriter, Settled, SupervisorWakes, host, history, Claims
  <2> QED BY <2>1, <2>2, <2>3, <2>4 DEF JobInv
<1> QED BY <1>2, <1>3, <1>5, <1>6 DEF IInv

(* The supervisor is the one writer of the file it has created.            *)
LEMMA SupervisorWritesPreservesIInv ==
    ASSUME IInv, NEW j \in Jobs, SupervisorWrites(j)
    PROVE  IInv'
<1>0. Types /\ Placed /\ \A k \in Jobs : JobInv(k)
  BY DEF IInv
<1>1. canceller' = canceller
  BY DEF SupervisorWrites, host, history, Writes, FailsToWrite
<1>2. Placed' /\ \A k : Writers(k)' = Writers(k) /\ Signallers(k)' = Signallers(k)
  BY <1>0, <1>1, SameCancellers
<1>3. Types'
  BY <1>0, AppendFacts DEF Types, SupervisorWrites, host, history, Writes, FailsToWrite
<1>4. Mentioned' \subseteq Mentioned
  BY <1>1, SameCancellers DEF SupervisorWrites, host, history, Writes, FailsToWrite
<1>5. ASSUME NEW k \in Jobs, k # j PROVE JobInv(k)'
  <2>1. Untouched(k)
    BY <1>0, <1>2, <1>4, <1>5
      DEF Types, Untouched, SupervisorWrites, host, history, Writes, FailsToWrite
  <2> QED BY <2>1, <1>0, UntouchedKeepsJobInv
<1>6. JobInv(j)'
  <2>0. NewIsUnknown(j) /\ OneWriter(j) /\ Supervised(j) /\ Settled(j)
    BY <1>0 DEF JobInv
  <2>1. NewIsUnknown(j)'
    BY <2>0, <1>0, <1>4
      DEF Types, NewIsUnknown, OneWriter, SupervisorWrites, host, history, Writes, FailsToWrite
  <2>2. OneWriter(j)'
    BY <2>0, <1>0, <1>2
      DEF Types, NewIsUnknown, OneWriter, SupervisorWrites, host, history, Writes, FailsToWrite
  <2>3. Supervised(j)'
    BY <2>0, <1>0, <1>2
      DEF Types, NewIsUnknown, OneWriter, Supervised, SupervisorWrites, host, history, Writes, FailsToWrite
  <2>4. Settled(j)'
    BY <2>0, <1>0, <1>2
      DEF Types, NewIsUnknown, OneWriter, Settled, SupervisorWrites, host, history, Writes, FailsToWrite
  <2> QED BY <2>1, <2>2, <2>3, <2>4 DEF JobInv
<1> QED BY <1>2, <1>3, <1>5, <1>6 DEF IInv

(* The model is told what the file says.                                   *)
LEMMA AskPreservesIInv ==
    ASSUME IInv, NEW j \in Jobs, Ask(j)
    PROVE  IInv'
<1>0. Types /\ Placed /\ \A k \in Jobs : JobInv(k)
  BY DEF IInv
<1>1. canceller' = canceller
  BY DEF Ask, host, history, Completed
<1>2. Placed' /\ \A k : Writers(k)' = Writers(k) /\ Signallers(k)' = Signallers(k)
  BY <1>0, <1>1, SameCancellers
<1>3. Types'
  BY <1>0, AppendFacts DEF Types, Ask, host, history, Completed
<1>4. Mentioned' \subseteq Mentioned
  BY <1>1, SameCancellers DEF Ask, host, history, Completed
<1>5. ASSUME NEW k \in Jobs, k # j PROVE JobInv(k)'
  <2>1. Untouched(k)
    BY <1>0, <1>2, <1>4, <1>5 DEF Types, Untouched, Ask, host, history, Completed
  <2> QED BY <2>1, <1>0, UntouchedKeepsJobInv
<1>6. JobInv(j)'
  <2>0. NewIsUnknown(j) /\ OneWriter(j) /\ Supervised(j) /\ Settled(j)
    BY <1>0 DEF JobInv
  <2>1. NewIsUnknown(j)'
    BY <2>0, <1>0, <1>4 DEF Types, NewIsUnknown, OneWriter, Ask, host, history, Completed
  <2>2. OneWriter(j)'
    BY <2>0, <1>0, <1>2 DEF Types, NewIsUnknown, OneWriter, Ask, host, history, Completed
  <2>3. Supervised(j)'
    BY <2>0, <1>0, <1>2
      DEF Types, NewIsUnknown, OneWriter, Supervised, Ask, host, history, Completed
  <2>4. Settled(j)'
    BY <2>0, <1>0, <1>2
      DEF Types, NewIsUnknown, OneWriter, Settled, Ask, host, history, Completed
  <2> QED BY <2>1, <2>2, <2>3, <2>4 DEF JobInv
<1> QED BY <1>2, <1>3, <1>5, <1>6 DEF IInv

-----------------------------------------------------------------------------
(* A canceller that neither writes nor signals after a step of its own,    *)
(* and has been given no job that could not be found, is at no job.        *)
LEMMA LeavesItsJob ==
    ASSUME Types, Placed, NEW c \in Cancellers, index' = index,
           NEW r \in CancellerType, r.pc \in {"idle", "looks"},
           \A j \in Jobs : j \in ToSet(r.todo) => j \in Mentioned,
           canceller' = [canceller EXCEPT ![c] = r]
    PROVE  /\ canceller' \in [Cancellers -> CancellerType] /\ Placed'
           /\ \A j : Writers(j)' = Writers(j) \ {c} /\ Signallers(j)' = Signallers(j) \ {c}
           /\ Mentioned' \subseteq Mentioned
<1>1. /\ canceller' \in [Cancellers -> CancellerType] /\ canceller'[c] = r
      /\ \A d \in Cancellers \ {c} : canceller'[d] = canceller[d]
  BY DEF Types
<1>2. Placed'
  BY <1>1 DEF Placed, Busy
<1>3. \A j : Writers(j)' = Writers(j) \ {c} /\ Signallers(j)' = Signallers(j) \ {c}
  BY <1>1 DEF Writers, Signallers, Busy, Job
<1>4. \A d \in Cancellers \ {c} : Listed(d)' = Listed(d)
  BY <1>1 DEF Listed
<1>5. Listed(c)' = ToSet(r.todo)
  BY <1>1 DEF Listed
<1>6. ToSet(index)' = ToSet(index)
  OBVIOUS
<1>7. Mentioned' \subseteq Mentioned
  BY <1>4, <1>5, <1>6 DEF Mentioned
<1> QED BY <1>1, <1>2, <1>3, <1>7

(* A canceller that goes on to write or to signal.                         *)
LEMMA TakesItsJob ==
    ASSUME Types, Placed, NEW c \in Cancellers, Busy(c), index' = index,
           NEW p \in {"writes", "signals"}, canceller' = [canceller EXCEPT ![c].pc = p]
    PROVE  /\ canceller' \in [Cancellers -> CancellerType] /\ Placed'
           /\ \A j : Writers(j)' = (Writers(j) \ {c})
                                      \cup (IF p = "writes" /\ j = Job(c) THEN {c} ELSE {})
           /\ \A j : Signallers(j)' = (Signallers(j) \ {c})
                                      \cup (IF p = "signals" /\ j = Job(c) THEN {c} ELSE {})
           /\ Mentioned' = Mentioned
<1>1. /\ canceller' \in [Cancellers -> CancellerType]
      /\ canceller'[c].pc = p /\ canceller'[c].todo = canceller[c].todo
      /\ \A d \in Cancellers \ {c} : canceller'[d] = canceller[d]
  BY ZenonT(60) DEF Types, CancellerType
<1>2. Placed'
  BY <1>1 DEF Placed, Busy
<1>3. \A j : Writers(j)' = (Writers(j) \ {c})
                              \cup (IF p = "writes" /\ j = Job(c) THEN {c} ELSE {})
  BY <1>1 DEF Writers, Busy, Job
<1>4. \A j : Signallers(j)' = (Signallers(j) \ {c})
                              \cup (IF p = "signals" /\ j = Job(c) THEN {c} ELSE {})
  BY <1>1 DEF Signallers, Busy, Job
<1>5. \A d \in Cancellers : canceller'[d].todo = canceller[d].todo
  BY <1>1
<1>6. Mentioned' = Mentioned
  BY <1>5 DEF Mentioned, Listed, ToSet
<1> QED BY <1>1, <1>2, <1>3, <1>4, <1>6

(* A canceller that is done with its job.                                  *)
LEMMA PassedFacts ==
    ASSUME Types, Placed, NEW c \in Cancellers, Busy(c), index' = index, Passed(c)
    PROVE  /\ canceller' \in [Cancellers -> CancellerType] /\ Placed'
           /\ \A j : Writers(j)' = Writers(j) \ {c} /\ Signallers(j)' = Signallers(j) \ {c}
           /\ Mentioned' \subseteq Mentioned
           /\ swept' \subseteq swept \cup {Job(c)}
           /\ Job(c) \in swept' => Job(c) \in swept \/ (canceller[c].sweep /\ Job(c) \in owned)
<1> DEFINE rest == Tail(canceller[c].todo)
           r == IF rest = <<>> THEN Rests
                ELSE [canceller[c] EXCEPT !.pc = "looks", !.todo = rest]
<1>1. canceller[c] \in CancellerType /\ canceller[c].todo \in Seq(Jobs) /\ canceller[c].todo # <<>>
  BY DEF Types, CancellerType, Busy
<1>2. rest \in Seq(Jobs) /\ ToSet(rest) \subseteq ToSet(canceller[c].todo)
  BY <1>1, ListFacts
<1>3. canceller' = [canceller EXCEPT ![c] = r]
  BY DEF Passed
<1> HIDE DEF rest
<1>4. r \in CancellerType /\ r.pc \in {"idle", "looks"} /\ r.todo = rest
  BY <1>1, <1>2, EmptySeq DEF Rests, CancellerType
<1>5. \A j \in Jobs : j \in ToSet(r.todo) => j \in Mentioned
  BY <1>2, <1>4 DEF Mentioned, Listed
<1> HIDE DEF r
<1>6. /\ swept' \subseteq swept \cup {Job(c)}
      /\ Job(c) \in swept' => Job(c) \in swept \/ (canceller[c].sweep /\ Job(c) \in owned)
  BY DEF Passed
<1> QED BY <1>3, <1>4, <1>5, <1>6, LeavesItsJob

(* A sweep takes the jobs the index lists.                                 *)
LEMMA SweepPreservesIInv ==
    ASSUME IInv, NEW c \in Cancellers, Sweep(c)
    PROVE  IInv'
<1> DEFINE r == [pc |-> "looks", todo |-> index, sweep |-> TRUE]
<1>0. Types /\ Placed /\ \A k \in Jobs : JobInv(k)
  BY DEF IInv
<1>1. /\ canceller' = [canceller EXCEPT ![c] = r] /\ canceller[c].pc \in {"idle", "looks"}
      /\ UNCHANGED <<process, spawner, supervisor, index, status, told, cut, swept>>
  BY DEF Sweep, host, history
<1>2. r \in CancellerType /\ r.pc \in {"idle", "looks"}
  BY <1>0, EmptySeq DEF Types, CancellerType, Rests
<1>3. \A k \in Jobs : k \in ToSet(r.todo) => k \in Mentioned
  BY DEF Mentioned
<1> HIDE DEF r
<1>4. /\ canceller' \in [Cancellers -> CancellerType] /\ Placed'
      /\ \A k : Writers(k)' = Writers(k) \ {c} /\ Signallers(k)' = Signallers(k) \ {c}
      /\ Mentioned' \subseteq Mentioned
  BY <1>0, <1>1, <1>2, <1>3, LeavesItsJob
<1>5. \A k : c \notin Writers(k) /\ c \notin Signallers(k)
  BY <1>1 DEF Writers, Signallers
<1>6. Types'
  BY <1>0, <1>1, <1>4 DEF Types
<1>7. ASSUME NEW k \in Jobs PROVE JobInv(k)'
  <2>1. Untouched(k)
    BY <1>1, <1>4, <1>5 DEF Untouched
  <2> QED BY <2>1, <1>0, UntouchedKeepsJobInv
<1> QED BY <1>4, <1>6, <1>7 DEF IInv

(* job_cancel takes one job the index lists.                               *)
LEMMA CancelOnePreservesIInv ==
    ASSUME IInv, NEW c \in Cancellers, NEW j \in Jobs, CancelOne(c, j)
    PROVE  IInv'
<1> DEFINE r == [pc |-> "looks", todo |-> <<j>>, sweep |-> FALSE]
<1>0. Types /\ Placed /\ \A k \in Jobs : JobInv(k)
  BY DEF IInv
<1>1. /\ canceller' = [canceller EXCEPT ![c] = r] /\ canceller[c].pc \in {"idle", "looks"}
      /\ UNCHANGED <<process, spawner, supervisor, index, status, told, cut, swept>>
  BY DEF CancelOne, host, history
<1>2. r \in CancellerType /\ r.pc \in {"idle", "looks"}
  <2>1. <<j>> \in Seq(Jobs)
    OBVIOUS
  <2> QED BY <2>1 DEF CancellerType
<1>3. \A k \in Jobs : k \in ToSet(r.todo) => k \in Mentioned
  <2>1. ToSet(r.todo) = {j}
    BY DEF ToSet
  <2> QED BY <2>1 DEF CancelOne, Mentioned
<1> HIDE DEF r
<1>4. /\ canceller' \in [Cancellers -> CancellerType] /\ Placed'
      /\ \A k : Writers(k)' = Writers(k) \ {c} /\ Signallers(k)' = Signallers(k) \ {c}
      /\ Mentioned' \subseteq Mentioned
  BY <1>0, <1>1, <1>2, <1>3, LeavesItsJob
<1>5. \A k : c \notin Writers(k) /\ c \notin Signallers(k)
  BY <1>1 DEF Writers, Signallers
<1>6. Types'
  BY <1>0, <1>1, <1>4 DEF Types
<1>7. ASSUME NEW k \in Jobs PROVE JobInv(k)'
  <2>1. Untouched(k)
    BY <1>1, <1>4, <1>5 DEF Untouched
  <2> QED BY <2>1, <1>0, UntouchedKeepsJobInv
<1> QED BY <1>4, <1>6, <1>7 DEF IInv

(* A sweep of an empty index is over.                                      *)
LEMMA EmptySweepEndsPreservesIInv ==
    ASSUME IInv, NEW c \in Cancellers, EmptySweepEnds(c)
    PROVE  IInv'
<1> DEFINE r == Rests
<1>0. Types /\ Placed /\ \A k \in Jobs : JobInv(k)
  BY DEF IInv
<1>1. /\ canceller' = [canceller EXCEPT ![c] = r] /\ canceller[c].pc \in {"idle", "looks"}
      /\ UNCHANGED <<process, spawner, supervisor, index, status, told, cut, swept>>
  BY DEF EmptySweepEnds, host, history
<1>2. r \in CancellerType /\ r.pc \in {"idle", "looks"}
  BY <1>0, EmptySeq DEF Types, CancellerType, Rests
<1>3. \A k \in Jobs : k \in ToSet(r.todo) => k \in Mentioned
  <2>1. ToSet(r.todo) = {}
    BY DEF ToSet, Rests
  <2> QED BY <2>1
<1> HIDE DEF r
<1>4. /\ canceller' \in [Cancellers -> CancellerType] /\ Placed'
      /\ \A k : Writers(k)' = Writers(k) \ {c} /\ Signallers(k)' = Signallers(k) \ {c}
      /\ Mentioned' \subseteq Mentioned
  BY <1>0, <1>1, <1>2, <1>3, LeavesItsJob
<1>5. \A k : c \notin Writers(k) /\ c \notin Signallers(k)
  BY <1>1 DEF Writers, Signallers
<1>6. Types'
  BY <1>0, <1>1, <1>4 DEF Types
<1>7. ASSUME NEW k \in Jobs PROVE JobInv(k)'
  <2>1. Untouched(k)
    BY <1>1, <1>4, <1>5 DEF Untouched
  <2> QED BY <2>1, <1>0, UntouchedKeepsJobInv
<1> QED BY <1>4, <1>6, <1>7 DEF IInv

(* A canceller passes its job, or creates its file and will write it.      *)
LEMMA LookPreservesIInv ==
    ASSUME IInv, NEW c \in Cancellers, Look(c), NEW j \in Jobs, j = Job(c)
    PROVE  IInv'
<1>0. Types /\ Placed /\ \A k \in Jobs : JobInv(k)
  BY DEF IInv
<1>1. Busy(c) /\ canceller[c].pc = "looks" /\ j \in Jobs
      /\ UNCHANGED <<process, spawner, supervisor, index, told, cut>>
  BY <1>0, AtItsJob DEF Look, host
<1>2. NewIsUnknown(j) /\ OneWriter(j) /\ Supervised(j) /\ Settled(j) /\ j \in Mentioned
  BY <1>0, <1>1, AtItsJob DEF JobInv
<1>3. \A k : c \notin Writers(k) /\ c \notin Signallers(k)
  BY <1>1 DEF Writers, Signallers
<1>4. CASE (Skipped(c) \/ ~Claims(j)) /\ Passed(c) /\ status' = status
  <2>0. /\ canceller' \in [Cancellers -> CancellerType] /\ Placed'
        /\ \A k : Writers(k)' = Writers(k) \ {c} /\ Signallers(k)' = Signallers(k) \ {c}
        /\ Mentioned' \subseteq Mentioned
        /\ swept' \subseteq swept \cup {Job(c)}
        /\ Job(c) \in swept' => Job(c) \in swept \/ (canceller[c].sweep /\ Job(c) \in owned)
    BY <1>0, <1>1, <1>4, PassedFacts
  <2>1. /\ canceller' \in [Cancellers -> CancellerType] /\ Placed'
        /\ \A k : Writers(k)' = Writers(k) /\ Signallers(k)' = Signallers(k)
        /\ Mentioned' \subseteq Mentioned
        /\ swept' \subseteq swept \cup {j}
        /\ j \in swept' => j \in swept \/ (canceller[c].sweep /\ j \in owned)
    BY <2>0, <1>3
  <2>2. Types'
    BY <1>0, <1>1, <1>4, <2>1 DEF Types
  <2>3. ASSUME NEW k \in Jobs, k # j PROVE JobInv(k)'
    <3>1. Untouched(k)
      BY <1>1, <1>4, <2>1, <2>3 DEF Untouched
    <3> QED BY <3>1, <1>0, UntouchedKeepsJobInv
  <2>4. j \in swept' => j \in swept \/ Completed(j) \/ status[j] # "absent"
    BY <1>4, <2>1 DEF Skipped, Claims
  <2>5. NewIsUnknown(j)' /\ OneWriter(j)' /\ Supervised(j)'
    BY <1>1, <1>2, <1>4, <2>1 DEF NewIsUnknown, OneWriter, Supervised
  <2>6. Settled(j)'
    <3>1. status[j] \in {"empty", "exit code", "cancelled"} /\ j \notin cut /\ process[j] = "running"
            => Writers(j) \cup Signallers(j) # {}
      BY <1>2 DEF OneWriter, Supervised, Settled
    <3>2. Completed(j) => status[j] \in {"exit code", "cancelled"}
      BY DEF Completed
    <3>3. status[j] \in {"absent", "empty", "exit code", "cancelled"}
      BY <1>0, <1>1 DEF Types
    <3> QED BY <3>1, <3>2, <3>3, <1>1, <1>2, <1>4, <2>1, <2>4 DEF Settled
  <2>7. JobInv(j)'
    BY <2>5, <2>6 DEF JobInv
  <2> QED BY <2>1, <2>2, <2>3, <2>7 DEF IInv
<1>5. CASE /\ Claims(j) /\ status' = [status EXCEPT ![j] = "empty"] /\ swept' = swept
           /\ canceller' = [canceller EXCEPT ![c].pc = "writes"]
  <2>0. /\ canceller' \in [Cancellers -> CancellerType] /\ Placed'
        /\ \A k : Writers(k)' = (Writers(k) \ {c})
                                   \cup (IF "writes" = "writes" /\ k = Job(c) THEN {c} ELSE {})
        /\ \A k : Signallers(k)' = (Signallers(k) \ {c})
                                      \cup (IF "writes" = "signals" /\ k = Job(c) THEN {c} ELSE {})
        /\ Mentioned' = Mentioned
    BY <1>0, <1>1, <1>5, TakesItsJob
  <2>1. /\ canceller' \in [Cancellers -> CancellerType] /\ Placed'
        /\ \A k : Writers(k)' = (Writers(k) \ {c}) \cup (IF k = j THEN {c} ELSE {})
        /\ \A k : Signallers(k)' = Signallers(k) \ {c}
        /\ Mentioned' = Mentioned
    BY <2>0
  <2>2. Types'
    BY <1>0, <1>1, <1>5, <2>1 DEF Types
  <2>3. ASSUME NEW k \in Jobs, k # j PROVE JobInv(k)'
    <3>1. Untouched(k)
      BY <1>0, <1>1, <1>3, <1>5, <2>1, <2>3 DEF Untouched, Types
    <3> QED BY <3>1, <1>0, UntouchedKeepsJobInv
  <2>4. /\ status[j] = "absent" /\ status'[j] = "empty"
        /\ Writers(j) = {} /\ Writers(j)' = {c} /\ Signallers(j) = {} /\ Signallers(j)' = {}
    BY <1>0, <1>1, <1>2, <1>5, <2>1 DEF Claims, OneWriter, Types
  <2>5. NewIsUnknown(j)' /\ OneWriter(j)' /\ Supervised(j)'
    BY <1>1, <1>2, <1>5, <2>1, <2>4 DEF NewIsUnknown, OneWriter, Supervised
  <2>6. Settled(j)'
    BY <1>0, <1>1, <1>2, <1>5, <2>4 DEF Settled, Types
  <2>7. JobInv(j)'
    BY <2>5, <2>6 DEF JobInv
  <2> QED BY <2>1, <2>2, <2>3, <2>7 DEF IInv
<1> QED BY <1>4, <1>5 DEF Look

(* A canceller writes the file it has created, or fails and goes on.       *)
LEMMA WritePreservesIInv ==
    ASSUME IInv, NEW c \in Cancellers, Write(c), NEW j \in Jobs, j = Job(c)
    PROVE  IInv'
<1>0. Types /\ Placed /\ \A k \in Jobs : JobInv(k)
  BY DEF IInv
<1>1. Busy(c) /\ canceller[c].pc = "writes" /\ j \in Jobs
      /\ UNCHANGED <<process, spawner, supervisor, index, told>>
  BY <1>0, AtItsJob DEF Write, Placed, host
<1>2. NewIsUnknown(j) /\ OneWriter(j) /\ Supervised(j) /\ Settled(j) /\ j \in Mentioned
  BY <1>0, <1>1, AtItsJob DEF JobInv
<1>3. /\ c \in Writers(j) /\ \A k : k # j => c \notin Writers(k)
      /\ \A k : c \notin Signallers(k)
  BY <1>1 DEF Writers, Signallers
<1>4. status[j] = "empty" /\ Writers(j) = {c} /\ supervisor[j] # "writes" /\ told[j] = "nothing"
  <2>1. status[j] = "empty" /\ Writers(j) = {c} /\ supervisor[j] # "writes"
    BY <1>2, <1>3 DEF OneWriter
  <2>2. told[j] \in {"nothing", "exit code", "cancelled"}
    BY <1>0, <1>1 DEF Types
  <2> QED BY <2>1, <2>2, <1>2 DEF Settled
<1>5. CASE /\ status' = [status EXCEPT ![j] = "cancelled"] /\ UNCHANGED <<cut, swept>>
           /\ canceller' = [canceller EXCEPT ![c].pc = "signals"]
  <2>0. /\ canceller' \in [Cancellers -> CancellerType] /\ Placed'
        /\ \A k : Writers(k)' = (Writers(k) \ {c})
                                   \cup (IF "signals" = "writes" /\ k = Job(c) THEN {c} ELSE {})
        /\ \A k : Signallers(k)' = (Signallers(k) \ {c})
                                      \cup (IF "signals" = "signals" /\ k = Job(c) THEN {c} ELSE {})
        /\ Mentioned' = Mentioned
    BY <1>0, <1>1, <1>5, TakesItsJob
  <2>1. /\ canceller' \in [Cancellers -> CancellerType] /\ Placed'
        /\ \A k : Writers(k)' = Writers(k) \ {c}
        /\ \A k : Signallers(k)' = (Signallers(k) \ {c}) \cup (IF k = j THEN {c} ELSE {})
        /\ Mentioned' = Mentioned
    BY <2>0
  <2>2. Types'
    BY <1>0, <1>1, <1>5, <2>1 DEF Types
  <2>3. ASSUME NEW k \in Jobs, k # j PROVE JobInv(k)'
    <3>1. Untouched(k)
      BY <1>0, <1>1, <1>3, <1>5, <2>1, <2>3 DEF Untouched, Types
    <3> QED BY <3>1, <1>0, UntouchedKeepsJobInv
  <2>4. status'[j] = "cancelled" /\ Writers(j)' = {} /\ Signallers(j)' # {}
    BY <1>0, <1>1, <1>4, <1>5, <2>1 DEF Types
  <2>5. NewIsUnknown(j)' /\ OneWriter(j)'
    BY <1>1, <1>2, <1>4, <1>5, <2>1, <2>4 DEF NewIsUnknown, OneWriter
  <2>6. Supervised(j)' /\ Settled(j)'
    BY <1>1, <1>2, <1>4, <1>5, <2>4 DEF Supervised, Settled
  <2>7. JobInv(j)'
    BY <2>5, <2>6 DEF JobInv
  <2> QED BY <2>1, <2>2, <2>3, <2>7 DEF IInv
<1>6. CASE /\ status' \in {status, [status EXCEPT ![j] = "cancelled"]} /\ cut' = cut \cup {j}
           /\ Passed(c)
  <2>0. /\ canceller' \in [Cancellers -> CancellerType] /\ Placed'
        /\ \A k : Writers(k)' = Writers(k) \ {c} /\ Signallers(k)' = Signallers(k) \ {c}
        /\ Mentioned' \subseteq Mentioned
        /\ swept' \subseteq swept \cup {Job(c)}
        /\ Job(c) \in swept' => Job(c) \in swept \/ (canceller[c].sweep /\ Job(c) \in owned)
    BY <1>0, <1>1, <1>6, PassedFacts
  <2>1. /\ canceller' \in [Cancellers -> CancellerType] /\ Placed'
        /\ \A k : Writers(k)' = Writers(k) \ {c} /\ Signallers(k)' = Signallers(k)
        /\ Mentioned' \subseteq Mentioned
        /\ swept' \subseteq swept \cup {j}
    BY <2>0, <1>3
  <2>2. Types'
    BY <1>0, <1>1, <1>6, <2>1 DEF Types
  <2>3. ASSUME NEW k \in Jobs, k # j PROVE JobInv(k)'
    <3>1. status'[k] = status[k]
      BY <1>0, <1>6, <2>3 DEF Types
    <3>2. Untouched(k)
      BY <3>1, <1>1, <1>3, <1>6, <2>1, <2>3 DEF Untouched
    <3> QED BY <3>2, <1>0, UntouchedKeepsJobInv
  <2>4. status'[j] \in {"empty", "cancelled"} /\ Writers(j)' = {} /\ j \in cut'
    BY <1>0, <1>1, <1>4, <1>6, <2>1 DEF Types
  <2>5. NewIsUnknown(j)'
    BY <1>1, <1>2, <1>4, <2>1, <2>4 DEF NewIsUnknown
  <2>6. OneWriter(j)'
    BY <1>1, <1>2, <1>4, <2>1, <2>4 DEF OneWriter
  <2>7. Supervised(j)' /\ Settled(j)'
    BY <1>1, <1>2, <1>4, <2>4 DEF Supervised, Settled
  <2>8. JobInv(j)'
    BY <2>5, <2>6, <2>7 DEF JobInv
  <2> QED BY <2>1, <2>2, <2>3, <2>8 DEF IInv
<1> QED BY <1>5, <1>6 DEF Write, Writes, FailsToWrite

(* A job whose file says cancelled is signalled.                           *)
LEMMA SignalPreservesIInv ==
    ASSUME IInv, NEW c \in Cancellers, Signal(c), NEW j \in Jobs, j = Job(c)
    PROVE  IInv'
<1>0. Types /\ Placed /\ \A k \in Jobs : JobInv(k)
  BY DEF IInv
<1>1. Busy(c) /\ canceller[c].pc = "signals" /\ j \in Jobs
      /\ UNCHANGED <<spawner, supervisor, index, status, told, cut>>
      /\ process' = [process EXCEPT ![j] = IF @ = "running" THEN "signalled" ELSE @]
  BY <1>0, AtItsJob DEF Signal, Placed, host
<1>2. NewIsUnknown(j) /\ OneWriter(j) /\ Supervised(j) /\ Settled(j) /\ j \in Mentioned
  BY <1>0, <1>1, AtItsJob DEF JobInv
<1>3. /\ c \in Signallers(j) /\ \A k : k # j => c \notin Signallers(k)
      /\ \A k : c \notin Writers(k)
  BY <1>1 DEF Writers, Signallers
<1>4. status[j] = "cancelled"
  BY <1>2, <1>3 DEF OneWriter
<1>5. Passed(c)
  BY DEF Signal
<1>6. /\ canceller' \in [Cancellers -> CancellerType] /\ Placed'
      /\ \A k : Writers(k)' = Writers(k) /\ Signallers(k)' = Signallers(k) \ {c}
      /\ Mentioned' \subseteq Mentioned
      /\ swept' \subseteq swept \cup {j}
  BY <1>0, <1>1, <1>3, <1>5, PassedFacts, SMTT(30)
<1>7. Types'
  BY <1>0, <1>1, <1>6 DEF Types
<1>8. ASSUME NEW k \in Jobs, k # j PROVE JobInv(k)'
  <2>1. Untouched(k)
    BY <1>0, <1>1, <1>3, <1>6, <1>8 DEF Untouched, Types
  <2> QED BY <2>1, <1>0, UntouchedKeepsJobInv
<1>9. process'[j] = IF process[j] = "running" THEN "signalled" ELSE process[j]
  BY <1>0, <1>1 DEF Types
<1>10. NewIsUnknown(j)' /\ OneWriter(j)'
  BY <1>1, <1>2, <1>4, <1>6, <1>9 DEF NewIsUnknown, OneWriter
<1>11. Supervised(j)' /\ Settled(j)'
  BY <1>1, <1>2, <1>4, <1>6, <1>9 DEF Supervised, Settled
<1>12. JobInv(j)'
  BY <1>10, <1>11 DEF JobInv
<1> QED BY <1>6, <1>7, <1>8, <1>12 DEF IInv

(* The Host ends: whoever was between two steps is noted in cut.           *)
LEMMA RestartPreservesIInv ==
    ASSUME IInv, Restart
    PROVE  IInv'
<1>0. Types /\ Placed /\ \A j \in Jobs : JobInv(j)
  BY DEF IInv
<1>1. Rests \in CancellerType /\ canceller' = [c \in Cancellers |-> Rests]
  BY EmptySeq DEF Restart, Rests, CancellerType
<1>2. Placed' /\ \A j : Writers(j)' = {} /\ Signallers(j)' = {}
  BY <1>1 DEF Placed, Writers, Signallers, Rests
<1>3. ToSet(<<>>) = {}
  BY DEF ToSet
<1>4. \A c \in Cancellers : Listed(c)' = {}
  BY <1>1, <1>3 DEF Listed, Rests
<1>5. Mentioned' \subseteq Mentioned
  <2>1. ToSet(index)' = ToSet(index)
    BY DEF Restart
  <2> QED BY <2>1, <1>4 DEF Mentioned
<1>6. cut' \subseteq Jobs /\ cut \subseteq cut'
  <2> DEFINE cancelled == {Job(c) : c \in {d \in Cancellers : canceller[d].pc \in {"writes", "signals"}}}
  <2>1. \A c \in Cancellers : canceller[c].pc \in {"writes", "signals"} => Job(c) \in Jobs
    BY <1>0, AtItsJob DEF Placed
  <2>2. cancelled \subseteq Jobs
    BY <2>1
  <2>3. cut' = cut \cup {j \in Jobs : supervisor[j] # "none"} \cup cancelled
    BY DEF Restart
  <2>4. cut \subseteq Jobs
    BY <1>0 DEF Types
  <2> HIDE DEF cancelled
  <2> QED BY <2>2, <2>3, <2>4
<1>7. Types'
  BY <1>0, <1>1, <1>6 DEF Restart, Types
<1>8. ASSUME NEW j \in Jobs PROVE JobInv(j)'
  <2>0. NewIsUnknown(j) /\ OneWriter(j) /\ Supervised(j) /\ Settled(j)
    BY <1>0 DEF JobInv
  <2>1. j \notin cut' =>
           supervisor[j] = "none" /\ j \notin cut /\ Writers(j) = {} /\ Signallers(j) = {}
    BY <1>6 DEF Restart, Writers, Signallers
  <2>2. /\ process'[j] = process[j] /\ status'[j] = status[j] /\ told'[j] = told[j]
        /\ supervisor'[j] = "none" /\ j \notin swept'
        /\ spawner'[j] # "none" => spawner[j] # "none"
    BY <1>0 DEF Restart, Types
  <2>3. NewIsUnknown(j)'
    BY <2>0, <2>2, <1>5 DEF NewIsUnknown
  <2>5. OneWriter(j)'
    BY <2>0, <2>2, <1>2 DEF OneWriter
  <2>4. Supervised(j)' /\ Settled(j)'
    BY <2>0, <2>1, <2>2, <1>2 DEF OneWriter, Supervised, Settled
  <2> QED BY <2>3, <2>4, <2>5 DEF JobInv
<1> QED BY <1>2, <1>7, <1>8 DEF IInv

(* Every step keeps the invariant.                                         *)
LEMMA NextPreservesIInv == IInv /\ [Next]_vars => IInv'
<1> SUFFICES ASSUME IInv, [Next]_vars PROVE IInv'
  OBVIOUS
<1>1. ASSUME NEW j \in Jobs,
             Spawn(j) \/ Record(j) \/ ProcessEnds(j) \/ SupervisorWakes(j) \/ SupervisorWrites(j) \/ Ask(j)
      PROVE  IInv'
  BY <1>1, SpawnPreservesIInv, RecordPreservesIInv, ProcessEndsPreservesIInv,
     SupervisorWakesPreservesIInv, SupervisorWritesPreservesIInv, AskPreservesIInv
<1>2. ASSUME NEW c \in Cancellers,
             Sweep(c) \/ EmptySweepEnds(c) \/ Look(c) \/ Write(c) \/ Signal(c)
      PROVE  IInv'
  <2>1. CASE Sweep(c) \/ EmptySweepEnds(c)
    BY <2>1, SweepPreservesIInv, EmptySweepEndsPreservesIInv
  <2>2. CASE Look(c) \/ Write(c) \/ Signal(c)
    <3>1. Job(c) \in Jobs
      BY <2>2, AtItsJob DEF IInv, Placed, Look, Write, Signal
    <3> QED BY <2>2, <3>1, LookPreservesIInv, WritePreservesIInv, SignalPreservesIInv
  <2> QED BY <1>2, <2>1, <2>2
<1>3. ASSUME NEW c \in Cancellers, NEW j \in Jobs, CancelOne(c, j) PROVE IInv'
  BY <1>3, CancelOnePreservesIInv
<1>4. CASE Restart
  BY <1>4, RestartPreservesIInv
<1>5. CASE UNCHANGED vars
  <2>0. Types /\ Placed /\ \A j \in Jobs : JobInv(j)
    BY DEF IInv
  <2>1. UNCHANGED <<process, spawner, supervisor, index, status, canceller, told, cut, swept>>
    BY <1>5 DEF vars
  <2>2. Types'
    BY <2>0, <2>1 DEF Types
  <2>3. /\ Placed' /\ Mentioned' = Mentioned
        /\ \A j : Writers(j)' = Writers(j) /\ Signallers(j)' = Signallers(j)
    BY <2>0, <2>1, SameCancellers
  <2>4. ASSUME NEW j \in Jobs PROVE JobInv(j)'
    <3>1. Untouched(j)
      BY <2>1, <2>3 DEF Untouched
    <3> QED BY <3>1, <2>0, UntouchedKeepsJobInv
  <2> QED BY <2>2, <2>3, <2>4 DEF IInv
<1> QED BY <1>1, <1>2, <1>3, <1>4, <1>5 DEF Next

(* A job ends once: its first reported end stays, a cancelled job is not   *)
(* left running, one without a supervisor has a status, and a sweep leaves *)
(* no job behind that it has passed.                                       *)
THEOREM JobsEndOnce == Spec => []EachJobEndsOnce
<1>1. IInv => EachJobEndsOnce
  <2> SUFFICES ASSUME IInv, NEW j \in Jobs
               PROVE  /\ told[j] # "nothing" => status[j] = told[j]
                      /\ j \notin cut =>
                            /\ status[j] = "cancelled" /\ process[j] = "running" =>
                                  \E c \in Cancellers : HasHand(c, j)
                            /\ process[j] = "ended" /\ supervisor[j] = "none" =>
                                  Completed(j) \/ \E c \in Cancellers : HasHand(c, j)
                            /\ j \in swept /\ process[j] = "running" =>
                                  \E c \in Cancellers : HasHand(c, j)
    BY DEF EachJobEndsOnce
  <2>1. Supervised(j) /\ Settled(j) /\ status[j] \in {"absent", "empty", "exit code", "cancelled"}
    BY DEF IInv, JobInv, Types
  <2>2. Writers(j) \cup Signallers(j) # {} => \E c \in Cancellers : HasHand(c, j)
    BY DEF Writers, Signallers, HasHand
  <2> QED BY <2>1, <2>2 DEF Supervised, Settled, Completed
<1> QED BY <1>1, InitEstablishesIInv, NextPreservesIInv, PTL DEF Spec

-----------------------------------------------------------------------------

LEMMA JobsApart == J!Free \notin Shells /\ J!Look \notin Shells /\ J!NoPid \notin Pids /\ J!Free # J!Look
BY ShellsApart DEF J!Free, J!Look, J!NoPid

LEMMA InitEstablishesJobs == J!Init => J!IInv
<1>. SUFFICES ASSUME J!Init PROVE J!IInv
  OBVIOUS
<1>. USE DEF J!Init
<1>1. J!TypeOK
  BY JobsApart DEF J!TypeOK, J!JobType, J!New
<1>2. J!TrackedHaveCalls /\ J!LookHasBatch
  BY JobsApart DEF J!TrackedHaveCalls, J!LookHasBatch
<1>3. ASSUME NEW j \in Shells PROVE J!JobInv(j)
  BY JobsApart DEF J!JobInv, J!Started, J!Delivery, J!Delivered, J!ToldWhenDelivered, J!Published, J!Tracked, J!New
<1>4. QED
  BY <1>1, <1>2, <1>3 DEF J!IInv

LEMMA TrackKeepsJobs ==
  ASSUME NEW j \in Shells, J!IInv, J!Track(j)
  PROVE  J!IInv'
<1>. USE JobsApart DEF J!IInv, J!Track
<1>0. x1[j].life # "new"
  BY DEF J!JobInv, J!Started, J!New
<1>1. J!TypeOK'
  BY DEF J!TypeOK, J!JobType
<1>2. J!TrackedHaveCalls'
  BY DEF J!TypeOK, J!JobType, J!TrackedHaveCalls
<1>3. J!LookHasBatch'
  BY DEF J!TypeOK, J!LookHasBatch
<1>4. ASSUME NEW k \in Shells PROVE J!JobInv(k)'
  <2>1. J!JobInv(k) /\ J!JobInv(j)
    OBVIOUS
  <2>2. J!Started(k)'
    BY <1>0, <2>1 DEF J!TypeOK, J!JobType, J!JobInv, J!Started
  <2>3. J!Delivery(k)'
    BY <2>1 DEF J!TypeOK, J!JobType, J!JobInv, J!Delivery, J!Started
  <2>4. J!ToldWhenDelivered(k)'
    BY <2>1 DEF J!TypeOK, J!JobType, J!JobInv, J!Delivery, J!ToldWhenDelivered, J!Delivered, J!Started
  <2>5. J!Published(k)'
    BY <2>1 DEF J!TypeOK, J!JobType, J!JobInv, J!Delivery, J!Published, J!Delivered, J!LookHasBatch, J!Started
  <2>6. J!Tracked(k)'
    BY <2>1 DEF J!TypeOK, J!JobType, J!JobInv, J!Tracked, J!PidReused, J!Delivered, J!ToldWhenDelivered, J!Delivery, J!TrackedHaveCalls, J!Started, J!Published
  <2>7. QED
    BY <2>2, <2>3, <2>4, <2>5, <2>6 DEF J!JobInv
<1>5. QED
  BY <1>1, <1>2, <1>3, <1>4

LEMMA ProcessesEndKeepsJobs ==
  ASSUME NEW j \in Shells, J!IInv, J!ProcessesEnd(j)
  PROVE  J!IInv'
<1>. USE JobsApart DEF J!IInv, J!ProcessesEnd
<1>1. J!TypeOK'
  BY DEF J!TypeOK, J!JobType
<1>2. J!TrackedHaveCalls'
  BY DEF J!TypeOK, J!JobType, J!TrackedHaveCalls
<1>3. J!LookHasBatch'
  BY DEF J!TypeOK, J!LookHasBatch
<1>4. ASSUME NEW k \in Shells PROVE J!JobInv(k)'
  <2>1. J!JobInv(k) /\ J!JobInv(j)
    OBVIOUS
  <2>2. J!Started(k)'
    BY <2>1 DEF J!TypeOK, J!JobType, J!JobInv, J!Started
  <2>3. J!Delivery(k)'
    BY <2>1 DEF J!TypeOK, J!JobType, J!JobInv, J!Delivery, J!Started
  <2>4. J!ToldWhenDelivered(k)'
    BY <2>1 DEF J!TypeOK, J!JobType, J!JobInv, J!Delivery, J!ToldWhenDelivered, J!Delivered, J!Started
  <2>5. J!Published(k)'
    BY <2>1 DEF J!TypeOK, J!JobType, J!JobInv, J!Delivery, J!Published, J!Delivered, J!LookHasBatch, J!Started
  <2>6. J!Tracked(k)'
    BY <2>1 DEF J!TypeOK, J!JobType, J!JobInv, J!Tracked, J!PidReused, J!Delivered, J!ToldWhenDelivered, J!Delivery, J!TrackedHaveCalls, J!Started, J!Published
  <2>7. QED
    BY <2>2, <2>3, <2>4, <2>5, <2>6 DEF J!JobInv
<1>5. QED
  BY <1>1, <1>2, <1>3, <1>4

LEMMA FinishKeepsJobs ==
  ASSUME NEW j \in Shells, J!IInv, J!Finish(j)
  PROVE  J!IInv'
<1>. USE JobsApart DEF J!IInv
<1>0. PICK b \in BOOLEAN :
         /\ x1' = [x1 EXCEPT ![j] = [@ EXCEPT !.life = "Finished", !.published = b]]
         /\ b => x1[j].delivery = "Background"
         /\ x1[j].life = "gone" /\ x3 = J!Free /\ x3' = j
         /\ UNCHANGED <<x2, x4, x5, x6, x7>>
  BY DEF J!Finish, J!Publishes, J!TypeOK, J!JobType
<1>1. J!TypeOK'
  <2>1. [x1[j] EXCEPT !.life = "Finished", !.published = b] \in J!JobType
    <3>1. [x1[j] EXCEPT !.life = "Finished"] \in J!JobType
      BY DEF J!TypeOK, J!JobType
    <3>2. ASSUME NEW r \in J!JobType
          PROVE  /\ [r EXCEPT !.published = TRUE] \in J!JobType
                 /\ [r EXCEPT !.published = FALSE] \in J!JobType
      BY DEF J!JobType
    <3>3. QED
      BY <3>1, <3>2, Zenon
  <2>2. x1' \in [Shells -> J!JobType]
    BY <1>0, <2>1 DEF J!TypeOK
  <2>3. QED
    BY <1>0, <2>2 DEF J!TypeOK
<1>2. J!TrackedHaveCalls'
  BY <1>0 DEF J!TypeOK, J!JobType, J!TrackedHaveCalls
<1>3. J!LookHasBatch'
  BY <1>0 DEF J!TypeOK, J!LookHasBatch
<1>4. ASSUME NEW k \in Shells PROVE J!JobInv(k)'
  <2>1. J!JobInv(k) /\ J!JobInv(j)
    OBVIOUS
  <2>2. J!Started(k)'
    BY <1>0, <2>1 DEF J!TypeOK, J!JobType, J!JobInv, J!Started
  <2>3. J!Delivery(k)'
    BY <1>0, <2>1 DEF J!TypeOK, J!JobType, J!JobInv, J!Delivery, J!Started
  <2>4. J!ToldWhenDelivered(k)'
    BY <1>0, <2>1 DEF J!TypeOK, J!JobType, J!JobInv, J!Delivery, J!ToldWhenDelivered, J!Delivered, J!Started
  <2>5. J!Published(k)'
    BY <1>0, <2>1 DEF J!TypeOK, J!JobType, J!JobInv, J!Delivery, J!Published, J!Delivered, J!LookHasBatch, J!Started
  <2>6. J!Tracked(k)'
    BY <1>0, <2>1 DEF J!TypeOK, J!JobType, J!JobInv, J!Tracked, J!PidReused, J!Delivered, J!ToldWhenDelivered, J!Delivery, J!TrackedHaveCalls, J!Started, J!Published
  <2>7. QED
    BY <2>2, <2>3, <2>4, <2>5, <2>6 DEF J!JobInv
<1>5. QED
  BY <1>1, <1>2, <1>3, <1>4

LEMMA AnnounceKeepsJobs ==
  ASSUME NEW j \in Shells, J!IInv, J!Announce(j)
  PROVE  J!IInv'
<1>. USE JobsApart DEF J!IInv, J!Announce
<1>1. J!TypeOK'
  BY DEF J!TypeOK, J!JobType
<1>2. J!TrackedHaveCalls'
  BY DEF J!TypeOK, J!JobType, J!TrackedHaveCalls
<1>3. J!LookHasBatch'
  BY DEF J!TypeOK, J!LookHasBatch
<1>4. ASSUME NEW k \in Shells PROVE J!JobInv(k)'
  <2>1. J!JobInv(k) /\ J!JobInv(j)
    OBVIOUS
  <2>2. J!Started(k)'
    BY <2>1 DEF J!TypeOK, J!JobType, J!JobInv, J!Started
  <2>3. J!Delivery(k)'
    BY <2>1 DEF J!TypeOK, J!JobType, J!JobInv, J!Delivery, J!Started
  <2>4. J!ToldWhenDelivered(k)'
    BY <2>1 DEF J!TypeOK, J!JobType, J!JobInv, J!Delivery, J!ToldWhenDelivered, J!Delivered, J!Started
  <2>5. J!Published(k)'
    BY <2>1 DEF J!TypeOK, J!JobType, J!JobInv, J!Delivery, J!Published, J!Delivered, J!LookHasBatch, J!Started
  <2>6. J!Tracked(k)'
    BY <2>1 DEF J!TypeOK, J!JobType, J!JobInv, J!Tracked, J!PidReused, J!Delivered, J!ToldWhenDelivered, J!Delivery, J!TrackedHaveCalls, J!Started, J!Published
  <2>7. QED
    BY <2>2, <2>3, <2>4, <2>5, <2>6 DEF J!JobInv
<1>5. QED
  BY <1>1, <1>2, <1>3, <1>4

LEMMA TakeDirectKeepsJobs ==
  ASSUME NEW j \in Shells, J!IInv, J!TakeDirect(j)
  PROVE  J!IInv'
<1>. USE JobsApart DEF J!IInv, J!TakeDirect
<1>1. J!TypeOK'
  BY DEF J!TypeOK, J!JobType
<1>2. J!TrackedHaveCalls'
  BY DEF J!TypeOK, J!JobType, J!TrackedHaveCalls
<1>3. J!LookHasBatch'
  BY DEF J!TypeOK, J!LookHasBatch
<1>4. ASSUME NEW k \in Shells PROVE J!JobInv(k)'
  <2>1. J!JobInv(k) /\ J!JobInv(j)
    OBVIOUS
  <2>2. J!Started(k)'
    BY <2>1 DEF J!TypeOK, J!JobType, J!JobInv, J!Started
  <2>3. J!Delivery(k)'
    BY <2>1 DEF J!TypeOK, J!JobType, J!JobInv, J!Delivery, J!Started
  <2>4. J!ToldWhenDelivered(k)'
    BY <2>1 DEF J!TypeOK, J!JobType, J!JobInv, J!Delivery, J!ToldWhenDelivered, J!Delivered, J!Started
  <2>5. J!Published(k)'
    BY <2>1 DEF J!TypeOK, J!JobType, J!JobInv, J!Delivery, J!Published, J!Delivered, J!LookHasBatch, J!Started
  <2>6. J!Tracked(k)'
    BY <2>1 DEF J!TypeOK, J!JobType, J!JobInv, J!Tracked, J!PidReused, J!Delivered, J!ToldWhenDelivered, J!Delivery, J!TrackedHaveCalls, J!Started, J!Published
  <2>7. QED
    BY <2>2, <2>3, <2>4, <2>5, <2>6 DEF J!JobInv
<1>5. QED
  BY <1>1, <1>2, <1>3, <1>4

LEMMA PromoteKeepsJobs ==
  ASSUME NEW j \in Shells, J!IInv, J!Promote(j)
  PROVE  J!IInv'
<1>. USE JobsApart DEF J!IInv, J!Promote
<1>1. J!TypeOK'
  BY DEF J!TypeOK, J!JobType
<1>2. J!TrackedHaveCalls'
  BY DEF J!TypeOK, J!JobType, J!TrackedHaveCalls
<1>3. J!LookHasBatch'
  BY DEF J!TypeOK, J!LookHasBatch
<1>4. ASSUME NEW k \in Shells PROVE J!JobInv(k)'
  <2>1. J!JobInv(k) /\ J!JobInv(j)
    OBVIOUS
  <2>2. J!Started(k)'
    BY <2>1 DEF J!TypeOK, J!JobType, J!JobInv, J!Started
  <2>3. J!Delivery(k)'
    BY <2>1 DEF J!TypeOK, J!JobType, J!JobInv, J!Delivery, J!Started
  <2>4. J!ToldWhenDelivered(k)'
    BY <2>1 DEF J!TypeOK, J!JobType, J!JobInv, J!Delivery, J!ToldWhenDelivered, J!Delivered, J!Started
  <2>5. J!Published(k)'
    BY <2>1 DEF J!TypeOK, J!JobType, J!JobInv, J!Delivery, J!Published, J!Delivered, J!LookHasBatch, J!Started
  <2>6. J!Tracked(k)'
    BY <2>1 DEF J!TypeOK, J!JobType, J!JobInv, J!Tracked, J!PidReused, J!Delivered, J!ToldWhenDelivered, J!Delivery, J!TrackedHaveCalls, J!Started, J!Published
  <2>7. QED
    BY <2>2, <2>3, <2>4, <2>5, <2>6 DEF J!JobInv
<1>5. QED
  BY <1>1, <1>2, <1>3, <1>4

LEMMA CancelKeepsJobs ==
  ASSUME NEW j \in Shells, J!IInv, J!Cancel(j)
  PROVE  J!IInv'
<1>. USE JobsApart DEF J!IInv, J!Cancel
<1>1. J!TypeOK'
  BY DEF J!TypeOK, J!JobType
<1>2. J!TrackedHaveCalls'
  BY DEF J!TypeOK, J!JobType, J!TrackedHaveCalls
<1>3. J!LookHasBatch'
  BY DEF J!TypeOK, J!LookHasBatch
<1>4. ASSUME NEW k \in Shells PROVE J!JobInv(k)'
  <2>1. J!JobInv(k) /\ J!JobInv(j)
    OBVIOUS
  <2>2. J!Started(k)'
    BY <2>1 DEF J!TypeOK, J!JobType, J!JobInv, J!Started
  <2>3. J!Delivery(k)'
    BY <2>1 DEF J!TypeOK, J!JobType, J!JobInv, J!Delivery, J!Started
  <2>4. J!ToldWhenDelivered(k)'
    BY <2>1 DEF J!TypeOK, J!JobType, J!JobInv, J!Delivery, J!ToldWhenDelivered, J!Delivered, J!Started
  <2>5. J!Published(k)'
    BY <2>1 DEF J!TypeOK, J!JobType, J!JobInv, J!Delivery, J!Published, J!Delivered, J!LookHasBatch, J!Started
  <2>6. J!Tracked(k)'
    BY <2>1 DEF J!TypeOK, J!JobType, J!JobInv, J!Tracked, J!PidReused, J!Delivered, J!ToldWhenDelivered, J!Delivery, J!TrackedHaveCalls, J!Started, J!Published
  <2>7. QED
    BY <2>2, <2>3, <2>4, <2>5, <2>6 DEF J!JobInv
<1>5. QED
  BY <1>1, <1>2, <1>3, <1>4

LEMMA CallReturnsKeepsJobs ==
  ASSUME NEW j \in Shells, J!IInv, J!CallReturns(j)
  PROVE  J!IInv'
<1>. USE JobsApart DEF J!IInv, J!CallReturns, J!Remove, J!SupervisorEnded
<1>0. x1[j].life # "new"
  BY DEF J!JobInv, J!Started, J!New
<1>1. J!TypeOK'
  BY ZenonT(60) DEF J!TypeOK, J!JobType
<1>2. J!TrackedHaveCalls'
  BY DEF J!TypeOK, J!JobType, J!TrackedHaveCalls
<1>3. J!LookHasBatch'
  BY DEF J!TypeOK, J!LookHasBatch
<1>4. ASSUME NEW k \in Shells PROVE J!JobInv(k)'
  <2>1. J!JobInv(k) /\ J!JobInv(j)
    OBVIOUS
  <2>2. J!Started(k)'
    BY <1>0, <2>1 DEF J!TypeOK, J!JobType, J!JobInv, J!Started
  <2>3. J!Delivery(k)'
    BY <2>1 DEF J!TypeOK, J!JobType, J!JobInv, J!Delivery, J!Started
  <2>4. J!ToldWhenDelivered(k)'
    BY <2>1 DEF J!TypeOK, J!JobType, J!JobInv, J!Delivery, J!ToldWhenDelivered, J!Delivered, J!Started
  <2>5. J!Published(k)'
    BY <2>1 DEF J!TypeOK, J!JobType, J!JobInv, J!Delivery, J!Published, J!Delivered, J!LookHasBatch, J!Started
  <2>6. J!Tracked(k)'
    BY <2>1 DEF J!TypeOK, J!JobType, J!JobInv, J!Tracked, J!PidReused, J!Delivered, J!ToldWhenDelivered, J!Delivery, J!TrackedHaveCalls, J!Started, J!Published
  <2>7. QED
    BY <2>2, <2>3, <2>4, <2>5, <2>6 DEF J!JobInv
<1>5. QED
  BY <1>1, <1>2, <1>3, <1>4

LEMMA RemoveConsumedKeepsJobs ==
  ASSUME NEW j \in Shells, J!IInv, J!RemoveConsumed(j)
  PROVE  J!IInv'
<1>. USE JobsApart DEF J!IInv, J!RemoveConsumed, J!Remove, J!SupervisorEnded
<1>1. J!TypeOK'
  BY DEF J!TypeOK, J!JobType
<1>2. J!TrackedHaveCalls'
  BY DEF J!TypeOK, J!JobType, J!TrackedHaveCalls
<1>3. J!LookHasBatch'
  BY DEF J!TypeOK, J!LookHasBatch
<1>4. ASSUME NEW k \in Shells PROVE J!JobInv(k)'
  <2>1. J!JobInv(k) /\ J!JobInv(j)
    OBVIOUS
  <2>2. J!Started(k)'
    BY <2>1 DEF J!TypeOK, J!JobType, J!JobInv, J!Started
  <2>3. J!Delivery(k)'
    BY <2>1 DEF J!TypeOK, J!JobType, J!JobInv, J!Delivery, J!Started
  <2>4. J!ToldWhenDelivered(k)'
    BY <2>1 DEF J!TypeOK, J!JobType, J!JobInv, J!Delivery, J!ToldWhenDelivered, J!Delivered, J!Started
  <2>5. J!Published(k)'
    BY <2>1 DEF J!TypeOK, J!JobType, J!JobInv, J!Delivery, J!Published, J!Delivered, J!LookHasBatch, J!Started
  <2>6. J!Tracked(k)'
    BY <2>1 DEF J!TypeOK, J!JobType, J!JobInv, J!Tracked, J!PidReused, J!Delivered, J!ToldWhenDelivered, J!Delivery, J!TrackedHaveCalls, J!Started, J!Published
  <2>7. QED
    BY <2>2, <2>3, <2>4, <2>5, <2>6 DEF J!JobInv
<1>5. QED
  BY <1>1, <1>2, <1>3, <1>4

LEMMA ConsumeKeepsJobs ==
  ASSUME J!IInv, J!Consume
  PROVE  J!IInv'
<1>. USE JobsApart DEF J!IInv, J!Consume, J!MayLook
<1>0. /\ J!Ended \subseteq Shells
      /\ \A k \in J!Ended : x1[k].caller = "gone" /\ x1[k].delivery = "Background" /\ x1[k].life # "new"
  BY DEF J!TypeOK, J!JobType, J!Ended, J!TrackedJobs, J!TrackedHaveCalls, J!JobInv, J!Delivery
<1>1. J!TypeOK'
  BY <1>0, SMTT(30) DEF J!TypeOK, J!JobType
<1>2. J!TrackedHaveCalls'
  BY <1>0 DEF J!TypeOK, J!JobType, J!TrackedHaveCalls
<1>3. J!LookHasBatch'
  BY <1>0 DEF J!TypeOK, J!LookHasBatch
<1>4. ASSUME NEW k \in Shells PROVE J!JobInv(k)'
  <2>1. J!JobInv(k)
    OBVIOUS
  <2>2. J!Started(k)'
    BY <1>0, <2>1 DEF J!TypeOK, J!JobType, J!JobInv, J!Started
  <2>3. J!Delivery(k)'
    BY <1>0, <2>1 DEF J!TypeOK, J!JobType, J!JobInv, J!Delivery, J!Started
  <2>4. J!ToldWhenDelivered(k)'
    BY <1>0, <2>1 DEF J!TypeOK, J!JobType, J!JobInv, J!Delivery, J!ToldWhenDelivered, J!Delivered, J!Started
  <2>5. J!Published(k)'
    BY <1>0, <2>1 DEF J!TypeOK, J!JobType, J!JobInv, J!Delivery, J!Published, J!Delivered, J!LookHasBatch, J!Started
  <2>6. J!Tracked(k)'
    BY <1>0, <2>1 DEF J!TypeOK, J!JobType, J!JobInv, J!Tracked, J!PidReused, J!Delivered, J!ToldWhenDelivered, J!Delivery, J!TrackedHaveCalls, J!Started, J!Published
  <2>7. QED
    BY <2>2, <2>3, <2>4, <2>5, <2>6 DEF J!JobInv
<1>5. QED
  BY <1>1, <1>2, <1>3, <1>4

LEMMA SetExitListenerKeepsJobs ==
  ASSUME J!IInv, J!SetExitListener
  PROVE  J!IInv'
<1>. USE JobsApart DEF J!IInv, J!SetExitListener
<1>1. J!TypeOK'
  BY DEF J!TypeOK, J!JobType
<1>2. J!TrackedHaveCalls'
  BY DEF J!TypeOK, J!JobType, J!TrackedHaveCalls
<1>3. J!LookHasBatch'
  BY DEF J!TypeOK, J!LookHasBatch
<1>4. ASSUME NEW k \in Shells PROVE J!JobInv(k)'
  <2>1. J!JobInv(k)
    OBVIOUS
  <2>2. J!Started(k)'
    BY <2>1 DEF J!TypeOK, J!JobType, J!JobInv, J!Started
  <2>3. J!Delivery(k)'
    BY <2>1 DEF J!TypeOK, J!JobType, J!JobInv, J!Delivery, J!Started
  <2>4. J!ToldWhenDelivered(k)'
    BY <2>1 DEF J!TypeOK, J!JobType, J!JobInv, J!Delivery, J!ToldWhenDelivered, J!Delivered, J!Started
  <2>5. J!Published(k)'
    BY <2>1 DEF J!TypeOK, J!JobType, J!JobInv, J!Delivery, J!Published, J!Delivered, J!LookHasBatch, J!Started
  <2>6. J!Tracked(k)'
    BY <2>1 DEF J!TypeOK, J!JobType, J!JobInv, J!Tracked, J!PidReused, J!Delivered, J!ToldWhenDelivered, J!Delivery, J!TrackedHaveCalls, J!Started, J!Published
  <2>7. QED
    BY <2>2, <2>3, <2>4, <2>5, <2>6 DEF J!JobInv
<1>5. QED
  BY <1>1, <1>2, <1>3, <1>4

LEMMA SpawnKeepsJobs ==
  ASSUME NEW j \in Shells, NEW p \in Pids, NEW d \in {"Direct", "Background"},
         J!IInv, J!Spawn(j, p, d)
  PROVE  J!IInv'
<1>. USE JobsApart DEF J!IInv, J!Spawn
<1>1. x1[j] = J!New
  BY DEF J!JobInv, J!Started
<1>2. J!TypeOK'
  BY DEF J!TypeOK, J!JobType, J!New
<1>3. J!TrackedHaveCalls'
  BY <1>1 DEF J!TypeOK, J!JobType, J!TrackedHaveCalls, J!New
<1>4. J!LookHasBatch'
  BY DEF J!TypeOK, J!LookHasBatch
<1>5. ASSUME NEW k \in Shells PROVE J!JobInv(k)'
  <2>1. J!JobInv(k) /\ J!JobInv(j)
    OBVIOUS
  <2>2. CASE k = j
    <3>1. x1'[j] = [life |-> "running", pid |-> p, delivery |-> d, published |-> FALSE,
                    caller |-> "starts"]
      BY DEF J!TypeOK, J!New
    <3>2. x7[j] = 0 /\ x3 # j /\ j \notin x4
      BY <1>1, <2>1 DEF J!JobInv, J!ToldWhenDelivered, J!Delivered, J!Published, J!New
    <3>3. QED
      BY <2>2, <3>1, <3>2 DEF J!JobInv, J!Started, J!Delivery, J!Delivered,
         J!ToldWhenDelivered, J!Published, J!Tracked
  <2>3. CASE k # j
    <3>1. x1'[k] = x1[k]
      BY <2>3 DEF J!TypeOK
    <3>2. J!PidReused(k) /\ x1[k].pid \in Pids => J!PidReused(k)'
      BY <1>1, <3>1 DEF J!PidReused, J!TypeOK, J!New
    <3>3. J!Tracked(k)'
      BY <2>1, <3>1, <3>2 DEF J!JobInv, J!Tracked, J!Started, J!New
    <3>4. QED
      BY <2>1, <3>1, <3>3, ZenonT(60) DEF J!JobInv, J!Started, J!Delivery, J!Delivered,
         J!ToldWhenDelivered, J!Published
  <2>4. QED
    BY <2>2, <2>3
<1>6. QED
  BY <1>2, <1>3, <1>4, <1>5

LEMMA NextKeepsJobs == J!IInv /\ [J!Next]_<<x1, x2, x3, x4, x5, x6, x7>> => J!IInv'
<1>. SUFFICES ASSUME J!IInv, [J!Next]_<<x1, x2, x3, x4, x5, x6, x7>> PROVE J!IInv'
  OBVIOUS
<1>1. CASE \E j \in Shells, p \in Pids, d \in {"Direct", "Background"} : J!Spawn(j, p, d)
  BY <1>1, SpawnKeepsJobs
<1>2. CASE \E j \in Shells : J!Track(j)
  BY <1>2, TrackKeepsJobs
<1>3. CASE \E j \in Shells : J!ProcessesEnd(j)
  BY <1>3, ProcessesEndKeepsJobs
<1>4. CASE \E j \in Shells : J!Finish(j)
  BY <1>4, FinishKeepsJobs
<1>5. CASE \E j \in Shells : J!Announce(j)
  BY <1>5, AnnounceKeepsJobs
<1>6. CASE \E j \in Shells : J!TakeDirect(j)
  BY <1>6, TakeDirectKeepsJobs
<1>7. CASE \E j \in Shells : J!Promote(j)
  BY <1>7, PromoteKeepsJobs
<1>8. CASE \E j \in Shells : J!Cancel(j)
  BY <1>8, CancelKeepsJobs
<1>9. CASE \E j \in Shells : J!CallReturns(j)
  BY <1>9, CallReturnsKeepsJobs
<1>10. CASE \E j \in Shells : J!RemoveConsumed(j)
  BY <1>10, RemoveConsumedKeepsJobs
<1>11. CASE J!Consume
  BY <1>11, ConsumeKeepsJobs
<1>12. CASE J!SetExitListener
  BY <1>12, SetExitListenerKeepsJobs
<1>13. CASE UNCHANGED <<x1, x2, x3, x4, x5, x6, x7>>
  BY <1>13 DEF J!IInv, J!TypeOK, J!TrackedHaveCalls, J!LookHasBatch, J!JobInv, J!Started,
     J!Delivery, J!Delivered, J!ToldWhenDelivered, J!Published, J!Tracked, J!PidReused
<1>14. QED
  BY <1>1, <1>2, <1>3, <1>4, <1>5, <1>6, <1>7, <1>8, <1>9, <1>10, <1>11, <1>12, <1>13
     DEF J!Next

LEMMA JobsInvariant == PartsSpec => [](part = "jobs" => J!IInv)
<1>1. PartsInit => (part = "jobs" => J!IInv)
  BY InitEstablishesJobs DEF PartsInit
<1>2. (part = "jobs" => J!IInv) /\ [PartsNext]_<<part, vars, From1>> => (part = "jobs" => J!IInv)'
  <2>. SUFFICES ASSUME part = "jobs" => J!IInv, [PartsNext]_<<part, vars, From1>>, part' = "jobs"
                PROVE  J!IInv'
    OBVIOUS
  <2>1. part = "jobs" /\ [J!Next]_<<x1, x2, x3, x4, x5, x6, x7>>
    BY DEF PartsNext, From1, From5
  <2>2. QED
    BY <2>1, NextKeepsJobs
<1>3. QED
  BY <1>1, <1>2, PTL DEF PartsSpec

(***************************************************************************)
(* For any shells and process ids: the end of a background shell job is    *)
(* told to the model once, by the call that waits for it or by a look      *)
(* (run_bash.rs, ShellJobManager), whichever of the supervisor and the     *)
(* call that takes the job over comes first.                               *)
(***************************************************************************)
THEOREM ShellEndsAreToldOnce == PartsSpec => []EachEndIsToldOnce
<1>1. (part = "jobs" => J!IInv) => EachEndIsToldOnce
  <2>. SUFFICES ASSUME J!IInv PROVE J!EachEndIsToldOnce
    BY DEF EachEndIsToldOnce
  <2>1. ASSUME NEW j \in Shells PROVE J!JobInv(j)
    BY DEF J!IInv
  <2>2. QED
    BY <2>1 DEF J!EachEndIsToldOnce, J!JobInv, J!ToldWhenDelivered, J!Tracked
<1>2. QED
  BY <1>1, JobsInvariant, PTL

(***************************************************************************)
(* For any shells and process ids: an update of a shell job that is marked *)
(* as published was announced to the Host, although ShellJobManager        *)
(* publishes after it let go of the jobs' lock.                            *)
(***************************************************************************)
THEOREM MarkedUpdatesAreAnnounced == PartsSpec => []MarkedUpdatesWereAnnounced
<1>1. (part = "jobs" => J!IInv) => MarkedUpdatesWereAnnounced
  <2>. SUFFICES ASSUME J!IInv PROVE J!MarkedUpdatesWereAnnounced
    BY DEF MarkedUpdatesWereAnnounced
  <2>1. ASSUME NEW j \in Shells PROVE J!JobInv(j)
    BY DEF J!IInv
  <2>2. QED
    BY <2>1 DEF J!MarkedUpdatesWereAnnounced, J!JobInv, J!ToldWhenDelivered, J!Delivered, J!Published
<1>2. QED
  BY <1>1, JobsInvariant, PTL

-----------------------------------------------------------------------------

LEMMA InitEstablishesOwnership == D!Init => D!OwnershipInv
BY DEF D!Init, D!OwnershipInv, D!OwnershipIsKept

LEMMA NextKeepsOwnership == D!OwnershipInv /\ [D!Next]_<<x1, x2, x3, x4>> => D!OwnershipInv'
<1>. SUFFICES ASSUME D!OwnershipInv, [D!Next]_<<x1, x2, x3, x4>> PROVE D!OwnershipInv'
  OBVIOUS
<1>. USE DEF D!OwnershipInv, D!OwnershipIsKept, D!Recorded, D!InFlight
<1>1. ASSUME NEW i \in Ids, D!Reserve(i) PROVE D!OwnershipInv'
  <2>1. /\ D!Recorded \ {x2[k] : k \in D!Evicted} \subseteq DOMAIN x1'
        /\ \A j \in D!Recorded \ {x2[k] : k \in D!Evicted} : x1'[j] = x1[j]
    BY <1>1 DEF D!Reserve, D!RecordsAfterEviction, D!With, D!Without
  <2>2. \A k \in D!Evicted : x1[x2[k]] # "accepted"
    BY DEF D!Evicted, D!Evictable
  <2>3. /\ x4' = x4
        /\ \/ x3' = x3
           \/ x3' = x3 \cup {[id |-> i, late |-> FALSE]} /\ i \in DOMAIN x1' /\ x1'[i] = "accepted"
    BY <1>1 DEF D!Reserve, D!With
  <2>4. ASSUME NEW o \in x3, ~o.late, o.id \notin x4
        PROVE  o.id \in DOMAIN x1' /\ x1'[o.id] = "accepted"
    BY <2>1, <2>2, <2>4
  <2>5. x3' \subseteq [id : Ids, late : BOOLEAN]
    <3>1. [id |-> i, late |-> FALSE] \in [id : Ids, late : BOOLEAN]
      OBVIOUS
    <3>2. QED
      BY <2>3, <3>1
  <2>6. QED
    BY <2>3, <2>4, <2>5
<1>2. ASSUME NEW o \in x3, D!Unreserve(o) PROVE D!OwnershipInv'
  BY <1>2 DEF D!Unreserve, D!Without
<1>3. ASSUME NEW o \in x3, NEW s \in D!States, D!Finish(o, s) PROVE D!OwnershipInv'
  BY <1>3 DEF D!Finish, D!With
<1>4. CASE D!Clear
  BY <1>4 DEF D!Clear
<1>5. CASE UNCHANGED <<x1, x2, x3, x4>>
  BY <1>5
<1>6. QED
  BY <1>1, <1>2, <1>3, <1>4, <1>5 DEF D!Next

(***************************************************************************)
(* For any ids and capacity: the record of a command in flight is there    *)
(* and says accepted, whatever is evicted or reserved meanwhile            *)
(* (command_dedup.rs), so that a repeated command is not executed again;   *)
(* only a command that was given up and finishes late is let off.          *)
(***************************************************************************)
THEOREM AcceptedRecordsAreKept == PartsSpec => []OwnershipIsKept
<1>1. PartsInit => (part = "cache" => D!OwnershipInv)
  BY InitEstablishesOwnership DEF PartsInit
<1>2. (part = "cache" => D!OwnershipInv) /\ [PartsNext]_<<part, vars, From1>>
      => (part = "cache" => D!OwnershipInv)'
  <2>. SUFFICES ASSUME part = "cache" => D!OwnershipInv, [PartsNext]_<<part, vars, From1>>,
                       part' = "cache"
                PROVE  D!OwnershipInv'
    OBVIOUS
  <2>1. part = "cache" /\ [D!Next]_<<x1, x2, x3, x4>>
    BY DEF PartsNext, From1
  <2>2. QED
    BY <2>1, NextKeepsOwnership
<1>3. (part = "cache" => D!OwnershipInv) => OwnershipIsKept
  BY DEF OwnershipIsKept, D!OwnershipInv
<1>4. QED
  BY <1>1, <1>2, <1>3, PTL DEF PartsSpec

-----------------------------------------------------------------------------

(***************************************************************************)
(* The MCP servers.  RefreshInv is inductive by itself; of the revisions,  *)
(* the step that matters is that of an applier or of a mark, and every     *)
(* other step leaves what matched matching unless a mark is due for it.    *)
(***************************************************************************)
LEMMA McpApart == Enabled \subseteq Configs /\ M!None \notin Configs
BY ConfigsApart DEF M!None

LEMMA ViewFields ==
  ASSUME NEW selected \in BOOLEAN
  PROVE  /\ M!View(selected).config = IF selected /\ x1 \in Enabled THEN x1 ELSE M!None
         /\ M!View(selected).tools = IF selected /\ x1 \in Enabled /\ M!Known THEN x2.tools ELSE M!None
BY DEF M!View, M!NoTools

LEMMA InitEstablishesRefreshes == M!Init => M!RefreshInv
<1>. SUFFICES ASSUME M!Init PROVE M!RefreshInv
  OBVIOUS
<1>. USE DEF M!Init, M!NoReport, M!NoConnection, M!NoTools, M!NotStarted, M!Applies, M!NoCopy
<1>1. M!TypeOK
  BY McpApart DEF M!TypeOK, M!Definitions, M!Finders, M!ViewType, M!ApplyType, M!Appliers, M!ReportType, M!ThreadType,
     M!SessionType, M!ConnectionType
<1>2. QED
  BY <1>1 DEF M!RefreshInv, M!ThreadsHaveConfigs, M!ConnectsTheCurrent, M!RefreshesEndWhatTheyBegin, M!Underway

LEMMA InitEstablishesRevisions == M!Init => M!RevisionInv
<1>. SUFFICES ASSUME M!Init PROVE M!RevisionInv
  OBVIOUS
<1>1. M!TypeOK
  BY InitEstablishesRefreshes DEF M!RefreshInv
<1>2. x5.selected \in BOOLEAN /\ (x5.selected <=> x1 # M!None) /\ x6 = M!NoTools
      /\ (~x5.selected => x5.revision = 0) /\ (x5.selected => x5.revision = 1)
      /\ x5.applied = 0 /\ x13.last = 0 /\ x13.newest = 0
      /\ \A a \in M!Appliers : /\ x10[a].pc = "idle" /\ x10[a].target = 0
                               /\ x10[a].copy.revision = 0 /\ x10[a].copy.applied = 0
  BY DEF M!Init, M!Applies, M!NoCopy
<1>3. M!RevisionsInOrder
  BY <1>2 DEF M!RevisionsInOrder, M!Noted
<1>4. ~x5.selected => M!Current(x6)
  BY <1>2, ViewFields DEF M!Current, M!NoTools
<1>5. QED
  BY <1>1, <1>2, <1>3, <1>4 DEF M!RevisionInv, M!ViewsMatch, M!Fits, M!Matches

LEMMA NextThreadWaits == M!Unstarted # {} => M!NextThread \in Refreshes /\ x4[M!NextThread] = M!NotStarted
BY Zenon DEF M!NextThread, M!Unstarted

(* What schedule_mcp_server_refresh does, if it does anything.             *)
LEMMA ScheduleEffect ==
  ASSUME M!TypeOK, M!Schedule
  PROVE  \/ /\ UNCHANGED <<x2, x4>>
            /\ x15' = (x15 \/ (x2.state = "connecting" /\ ~M!Underway))
         \/ /\ x1 \in Enabled
            /\ x2' = [config |-> x1, state |-> "connecting", tools |-> M!None]
            /\ \/ x15' = TRUE /\ x4' = x4
               \/ /\ x15' = FALSE
                  /\ \E r \in Refreshes : /\ x4[r] = M!NotStarted
                                          /\ x4' = [x4 EXCEPT ![r] = [pc |-> "connects", config |-> x1]]
BY NextThreadWaits DEF M!Schedule

LEMMA ScheduleTypes ==
  ASSUME M!TypeOK, M!Schedule
  PROVE  x2' \in M!ReportType /\ x4' \in [Refreshes -> M!ThreadType] /\ x15' \in BOOLEAN
<1>1. [config |-> x1, state |-> "connecting", tools |-> M!None] \in M!ReportType
  BY DEF M!TypeOK, M!Finders, M!ReportType
<1>2. [pc |-> "connects", config |-> x1] \in M!ThreadType
  BY DEF M!TypeOK, M!ThreadType
<1>3. x15' \in BOOLEAN
  BY ScheduleEffect, Zenon DEF M!TypeOK
<1>4. /\ x2' = x2 \/ x2' = [config |-> x1, state |-> "connecting", tools |-> M!None]
      /\ \/ x4' = x4
         \/ \E r \in Refreshes : x4' = [x4 EXCEPT ![r] = [pc |-> "connects", config |-> x1]]
  BY ScheduleEffect
<1>5. x2 \in M!ReportType /\ x4 \in [Refreshes -> M!ThreadType]
  BY DEF M!TypeOK
<1>6. QED
  BY <1>1, <1>2, <1>3, <1>4, <1>5

LEMMA SessionTypes ==
  ASSUME M!TypeOK, NEW on \in BOOLEAN
  PROVE  /\ M!Marked(x5) \in M!SessionType
         /\ M!Marked(x5).revision = x5.revision + 1
         /\ M!Marked(x5).applied = x5.applied /\ M!Marked(x5).selected = x5.selected
         /\ M!Toggled(x5, on) \in M!SessionType
         /\ M!Toggled(x5, on).revision = IF x5.selected = on THEN x5.revision ELSE x5.revision + 1
         /\ M!Toggled(x5, on).applied = x5.applied /\ M!Toggled(x5, on).selected = on
         /\ x5.selected = on => M!Toggled(x5, on) = x5
<1>1. PICK b \in BOOLEAN, n \in Nat, m \in Nat : x5 = [selected |-> b, revision |-> n, applied |-> m]
  BY DEF M!TypeOK, M!SessionType
<1>2. M!Marked(x5) = [selected |-> b, revision |-> n + 1, applied |-> m]
  BY <1>1 DEF M!Marked
<1>3. M!Toggled(x5, on) = IF b = on THEN x5 ELSE [selected |-> on, revision |-> n + 1, applied |-> m]
  <2>1. ASSUME NEW v, NEW w
        PROVE  [[selected |-> v, revision |-> n, applied |-> m] EXCEPT !.selected = w]
                 = [selected |-> w, revision |-> n, applied |-> m]
    OBVIOUS
  <2>2. [x5 EXCEPT !.selected = on] = [selected |-> on, revision |-> n, applied |-> m]
    BY <1>1, <2>1
  <2>3. M!Marked([x5 EXCEPT !.selected = on]) = [selected |-> on, revision |-> n + 1, applied |-> m]
    <3>1. ASSUME NEW v
          PROVE  M!Marked([selected |-> v, revision |-> n, applied |-> m])
                   = [selected |-> v, revision |-> n + 1, applied |-> m]
      BY DEF M!Marked
    <3>2. QED
      BY <2>2, <3>1
  <2>4. x5.selected = b
    BY <1>1
  <2>5. QED
    BY <2>3, <2>4 DEF M!Toggled
<1>4. QED
  BY <1>1, <1>2, <1>3 DEF M!SessionType

LEMMA CommandTypes ==
  ASSUME M!TypeOK,
         \/ \E c \in Configs : M!Upsert(c)
         \/ M!UpsertEnables \/ M!UpsertMarks \/ M!UpsertSchedules
         \/ \E on \in BOOLEAN : M!Toggle(on)
         \/ M!Reconnect \/ M!LaneDisconnects \/ M!LaneSchedules
         \/ M!Delete \/ M!DeleteDeselects
  PROVE  M!TypeOK'
<1>. USE DEF M!TypeOK, M!NewCommand, M!memory
<1>0. /\ \A on \in BOOLEAN : M!Toggled(x5, on) \in M!SessionType
      /\ M!Marked(x5) \in M!SessionType
  BY SessionTypes
<1>1. CASE \E c \in Configs : M!Upsert(c)
  <2>1. x15' \in BOOLEAN /\ x14' \in BOOLEAN
    BY <1>1, Zenon DEF M!Upsert
  <2>2. QED
    BY <1>1, <2>1 DEF M!Upsert, M!Definitions
<1>2. CASE M!UpsertEnables
  BY <1>0, <1>2 DEF M!UpsertEnables, M!SessionBecomes
<1>3. CASE M!UpsertMarks
  BY <1>0, <1>3 DEF M!UpsertMarks, M!MarkIfSelected, M!SessionBecomes
<1>4. CASE M!UpsertSchedules
  BY <1>4, ScheduleTypes DEF M!UpsertSchedules
<1>5. CASE \E on \in BOOLEAN : M!Toggle(on)
  BY <1>0, <1>5 DEF M!Toggle, M!SessionBecomes
<1>6. CASE M!Reconnect
  BY <1>0, <1>6 DEF M!Reconnect, M!SessionBecomes
<1>7. CASE M!LaneDisconnects
  BY <1>7 DEF M!LaneDisconnects, M!NoConnection, M!Definitions, M!ConnectionType
<1>8. CASE M!LaneSchedules
  BY <1>8, ScheduleTypes DEF M!LaneSchedules
<1>9. CASE M!Delete
  <2>1. /\ M!None \in M!Definitions /\ M!NoReport \in M!ReportType
        /\ M!NoConnection \in M!ConnectionType
    BY DEF M!NoConnection, M!NoReport, M!Definitions, M!ReportType, M!Finders, M!ConnectionType
  <2>2. QED
    <3>1. x14' \in BOOLEAN
      BY <1>9, Zenon DEF M!Delete
    <3>2. x11' \in Nat /\ x12' \in Nat
      BY <1>9 DEF M!Delete
    <3>3. QED
      BY <1>9, <2>1, <3>1, <3>2, Zenon DEF M!Delete
<1>10. CASE M!DeleteDeselects
  BY <1>0, <1>10 DEF M!DeleteDeselects, M!SessionBecomes
<1>11. QED
  BY <1>1, <1>2, <1>3, <1>4, <1>5, <1>6, <1>7, <1>8, <1>9, <1>10

LEMMA ThreadTypes ==
  ASSUME M!TypeOK, NEW r \in Refreshes,
         M!Connects(r) \/ M!Settles(r) \/ M!Marks(r) \/ M!Withdraws(r)
  PROVE  M!TypeOK'
<1>. USE DEF M!TypeOK, M!memory, M!commands
<1>0. x4[r] \in M!ThreadType
  OBVIOUS
<1>1. CASE M!Connects(r)
  <2>1. [x4[r] EXCEPT !.pc = "found"] \in M!ThreadType /\ [x4[r] EXCEPT !.pc = "failed"] \in M!ThreadType
    BY <1>0 DEF M!ThreadType
  <2>2. [config |-> x4[r].config, by |-> "refresh"] \in M!ConnectionType
    BY <1>0 DEF M!ThreadType, M!ConnectionType
  <2>3. QED
    BY <1>1, <2>1, <2>2 DEF M!Connects
<1>2. CASE M!Settles(r)
  <2>1. M!Result(r) \in M!ReportType
    BY <1>0 DEF M!Result, M!ReportType, M!ThreadType, M!Finders
  <2>2. M!AfterAcceptance(r) \in M!ThreadType /\ [x4[r] EXCEPT !.pc = "withdraws"] \in M!ThreadType
    BY <1>0 DEF M!AfterAcceptance, M!ThreadType, M!Gone, M!Definitions
  <2>3. QED
    BY <1>2, <2>1, <2>2 DEF M!Settles
<1>3. CASE M!Marks(r)
  <2>1. M!Gone \in M!ThreadType
    BY DEF M!Gone, M!ThreadType, M!Definitions
  <2>2. M!Marked(x5) \in M!SessionType
    BY SessionTypes
  <2>3. QED
    BY <1>3, <2>1, <2>2 DEF M!Marks, M!MarkIfSelected, M!SessionBecomes
<1>4. CASE M!Withdraws(r)
  <2>1. M!Gone \in M!ThreadType
    BY DEF M!Gone, M!ThreadType, M!Definitions
  <2>2. QED
    BY <1>4, <2>1 DEF M!Withdraws, M!Disconnected, M!NoConnection, M!Definitions, M!ConnectionType
<1>5. QED
  BY <1>1, <1>2, <1>3, <1>4

LEMMA ApplierTypes ==
  ASSUME M!TypeOK, NEW a \in M!Appliers,
         \/ M!ReadSession(a) \/ M!ReadServers(a) \/ M!Push(a) \/ M!MarkApplied(a) \/ M!ApplySchedules(a)
         \/ M!BeginSave(a) \/ M!Saved(a)
  PROVE  M!TypeOK'
<1>. USE DEF M!TypeOK, M!memory, M!commands, M!rest, M!Becomes
<1>0. x10[a] \in M!ApplyType /\ M!NoTools \in M!ViewType /\ M!Applies \in M!ApplyType
  BY DEF M!NoTools, M!ViewType, M!Definitions, M!Finders, M!Applies, M!ApplyType, M!NoCopy, M!SessionType
<1>1. CASE M!ReadSession(a)
  <2>1. [M!Applies EXCEPT !.pc = "servers", !.target = x5.revision, !.selected = x5.selected]
          \in M!ApplyType
    <3>1. ASSUME NEW r \in M!ApplyType, NEW n \in Nat
          PROVE  [r EXCEPT !.pc = "servers", !.target = n] \in M!ApplyType
      BY DEF M!ApplyType
    <3>2. ASSUME NEW r \in M!ApplyType, NEW b \in BOOLEAN
          PROVE  [r EXCEPT !.selected = b] \in M!ApplyType
      BY DEF M!ApplyType
    <3>3. QED
      <4>1. x5.revision \in Nat /\ x5.selected \in BOOLEAN
        BY DEF M!SessionType
      <4>2. [M!Applies EXCEPT !.pc = "servers", !.target = x5.revision] \in M!ApplyType
        BY <1>0, <3>1, <4>1
      <4>3. QED
        BY <3>2, <4>1, <4>2
  <2>2. x10' \in [M!Appliers -> M!ApplyType]
    BY <1>0, <1>1, <2>1 DEF M!ReadSession
  <2>3. QED
    BY <1>1, <2>2 DEF M!ReadSession
<1>2. CASE M!ReadServers(a)
  <2>1. M!View(x10[a].selected) \in M!ViewType
    BY <1>0, McpApart DEF M!View, M!Known, M!NoTools, M!ViewType, M!ApplyType, M!ReportType, M!Finders, M!Definitions
  <2>2. PICK missing \in BOOLEAN :
           x10' = [x10 EXCEPT ![a] = [@ EXCEPT !.pc = "push", !.selected = FALSE,
                                               !.view = M!View(x10[a].selected), !.missing = missing]]
    BY <1>0, <1>2, Zenon DEF M!ReadServers, M!ApplyType
  <2>3. [pc |-> "push", target |-> x10[a].target, selected |-> FALSE,
         view |-> M!View(x10[a].selected), missing |-> missing, copy |-> x10[a].copy] \in M!ApplyType
    BY <1>0, <2>1 DEF M!ApplyType
  <2>4. x10' \in [M!Appliers -> M!ApplyType]
    BY <1>0, <2>2, <2>3 DEF M!ApplyType
  <2>5. QED
    BY <1>2, <2>4 DEF M!ReadServers
<1>3. CASE M!Push(a)
  BY <1>0, <1>3 DEF M!Push, M!ApplyType
<1>4. CASE M!MarkApplied(a)
  BY <1>0, <1>4, SMTT(30) DEF M!MarkApplied, M!Applied, M!ApplyType, M!SessionType
<1>5. CASE M!ApplySchedules(a)
  BY <1>0, <1>5, ScheduleTypes DEF M!ApplySchedules
<1>6. CASE M!BeginSave(a)
  <2>1. [M!Applies EXCEPT !.pc = "saves", !.copy = x5] \in M!ApplyType
    BY <1>0 DEF M!ApplyType
  <2>2. QED
    BY <1>0, <1>6, <2>1 DEF M!BeginSave
<1>7. CASE M!Saved(a)
  <2>1. x10[a].copy \in M!SessionType /\ x10[a].copy.revision \in Nat /\ x5.revision \in Nat
    BY <1>0 DEF M!ApplyType, M!SessionType
  <2>2. QED
    BY <1>0, <1>7, <2>1 DEF M!Saved, M!PutBack
<1>8. QED
  BY <1>1, <1>2, <1>3, <1>4, <1>5, <1>6, <1>7

LEMMA NextKeepsTypes == M!TypeOK /\ [M!Next]_M!vars => M!TypeOK'
<1>. SUFFICES ASSUME M!TypeOK, [M!Next]_M!vars PROVE M!TypeOK'
  OBVIOUS
<1>1. CASE M!CallConnects \/ M!CallFails
  BY <1>1 DEF M!TypeOK, M!CallConnects, M!CallFails, M!NoConnection, M!Definitions, M!ConnectionType, M!ViewType, M!commands
<1>2. CASE UNCHANGED M!vars
  BY <1>2 DEF M!TypeOK, M!vars
<1>3. QED
  BY <1>1, <1>2, CommandTypes, ThreadTypes, ApplierTypes DEF M!Next

(* A step that touches neither the reports nor the threads.                *)
LEMMA UntouchedRefreshes ==
  ASSUME M!RefreshInv, M!TypeOK', UNCHANGED <<x1, x2, x3, x4, x15>>, x7' = "idle" => x7 = "idle"
  PROVE  M!RefreshInv'
BY DEF M!RefreshInv, M!ThreadsHaveConfigs, M!ConnectsTheCurrent, M!RefreshesEndWhatTheyBegin, M!Underway

LEMMA DisconnectedKeepsRefreshes ==
  ASSUME M!RefreshInv, M!TypeOK', UNCHANGED <<x1, x2, x4, x7, x15>>, x3'.by # "refresh"
  PROVE  M!RefreshInv'
BY DEF M!RefreshInv, M!ThreadsHaveConfigs, M!ConnectsTheCurrent, M!RefreshesEndWhatTheyBegin, M!Underway

LEMMA ScheduleKeepsRefreshes ==
  ASSUME M!RefreshInv, M!TypeOK', M!Schedule, UNCHANGED <<x1, x3>>
  PROVE  M!RefreshInv'
<1>. USE DEF M!RefreshInv, M!ThreadsHaveConfigs, M!RefreshesEndWhatTheyBegin, M!Underway
<1>1. CASE /\ UNCHANGED <<x2, x4>>
           /\ x15' = (x15 \/ (x2.state = "connecting" /\ ~M!Underway))
  <2>1. ~x15' => ~x15 /\ (x2.state = "connecting" => M!Underway)
    BY <1>1, Zenon
  <2>2. QED
    BY <1>1, <2>1 DEF M!ConnectsTheCurrent
<1>2. CASE /\ x1 \in Enabled
           /\ x2' = [config |-> x1, state |-> "connecting", tools |-> M!None]
           /\ x15' = TRUE /\ x4' = x4
  BY <1>2, McpApart DEF M!ConnectsTheCurrent
<1>3. CASE /\ x1 \in Enabled
           /\ x2' = [config |-> x1, state |-> "connecting", tools |-> M!None]
           /\ x15' = FALSE
           /\ \E r \in Refreshes : /\ x4[r] = M!NotStarted
                                   /\ x4' = [x4 EXCEPT ![r] = [pc |-> "connects", config |-> x1]]
  <2>1. PICK r \in Refreshes : x4' = [x4 EXCEPT ![r] = [pc |-> "connects", config |-> x1]]
    BY <1>3
  <2>2. x4'[r].pc = "connects" /\ x4'[r].config = x1 /\ \A s \in Refreshes \ {r} : x4'[s] = x4[s]
    BY <2>1 DEF M!TypeOK
  <2>3. x1 # M!None
    BY <1>3, McpApart
  <2>4. QED
    BY <1>3, <2>2, <2>3 DEF M!ConnectsTheCurrent
<1>4. QED
  BY <1>1, <1>2, <1>3, ScheduleEffect

LEMMA UpsertKeepsRefreshes ==
  ASSUME M!RefreshInv, M!TypeOK', NEW c \in Configs, M!Upsert(c)
  PROVE  M!RefreshInv'
<1>1. /\ x1' = c /\ x7 = "idle" /\ UNCHANGED <<x2, x3, x4>>
      /\ \/ x7' = "enable" /\ x15' = x15
         \/ x15' = (x15 \/ (x2.state = "connecting" /\ x1 # c))
  BY DEF M!Upsert
<1>2. c # M!None
  BY McpApart
<1>3. ~x15' => ~x15 /\ (x7' = "enable" \/ ~(x2.state = "connecting" /\ x1 # c))
  BY <1>1, Zenon
<1>4. QED
  BY <1>1, <1>2, <1>3 DEF M!RefreshInv, M!ThreadsHaveConfigs, M!ConnectsTheCurrent,
     M!RefreshesEndWhatTheyBegin, M!Underway

LEMMA DeleteKeepsRefreshes ==
  ASSUME M!RefreshInv, M!TypeOK', M!Delete
  PROVE  M!RefreshInv'
BY DEF M!Delete, M!NoReport, M!NoConnection, M!RefreshInv, M!ThreadsHaveConfigs,
   M!ConnectsTheCurrent, M!RefreshesEndWhatTheyBegin, M!Underway

LEMMA ThreadsKeepRefreshes ==
  ASSUME M!RefreshInv, M!TypeOK', NEW r \in Refreshes,
         M!Connects(r) \/ M!Settles(r) \/ M!Marks(r) \/ M!Withdraws(r)
  PROVE  M!RefreshInv'
<1>. USE DEF M!RefreshInv, M!ThreadsHaveConfigs, M!ConnectsTheCurrent, M!RefreshesEndWhatTheyBegin,
     M!Underway, M!memory, M!commands
<1>0. x4 \in [Refreshes -> M!ThreadType]
  BY DEF M!TypeOK
<1>1. CASE M!Connects(r)
  <2>1. /\ x4'[r].pc \in {"found", "failed"} /\ x4'[r].config = x4[r].config
        /\ x3' # x3 => x4'[r].pc = "found"
        /\ \A s \in Refreshes \ {r} : x4'[s] = x4[s]
    BY <1>0, <1>1, ZenonT(60) DEF M!Connects, M!ThreadType
  <2>2. QED
    BY <1>1, <2>1, ZenonT(60) DEF M!Connects
<1>2. CASE M!Settles(r) /\ M!Accepted(r)
  <2>1. /\ x2'.state # "connecting" /\ x1 \in Enabled /\ UNCHANGED <<x1, x3>>
        /\ \A s \in Refreshes \ {r} : x4'[s] = x4[s]
        /\ x4'[r].pc = "gone" \/ (x4'[r].pc = "marks" /\ x4'[r].config = x4[r].config)
    <3>1. /\ x2' = M!Result(r) /\ x4' = [x4 EXCEPT ![r] = M!AfterAcceptance(r)]
          /\ x1 = x4[r].config /\ x4[r].pc \in {"found", "failed"} /\ UNCHANGED <<x1, x3>>
      BY <1>2 DEF M!Settles, M!Accepted
    <3>2. /\ M!AfterAcceptance(r).pc = "gone"
             \/ (M!AfterAcceptance(r).pc = "marks" /\ M!AfterAcceptance(r).config = x4[r].config)
          /\ M!Result(r).state # "connecting"
      BY <1>0 DEF M!AfterAcceptance, M!Result, M!ThreadType, M!Gone
    <3>3. QED
      BY <1>0, <3>1, <3>2
  <2>2. x1 # M!None /\ x4[r].pc \in {"found", "failed"}
    BY <1>2, <2>1, McpApart DEF M!Settles
  <2>3. QED
    BY <2>1, <2>2
<1>3. CASE M!Settles(r) /\ ~M!Accepted(r)
  <2>1. /\ x1 # x4[r].config /\ x4'[r].pc = "withdraws" /\ x4'[r].config = x4[r].config
        /\ x4[r].pc \in {"found", "failed"} /\ UNCHANGED <<x1, x2, x3, x7, x15>>
        /\ \A s \in Refreshes \ {r} : x4'[s] = x4[s]
    BY <1>0, <1>3 DEF M!Settles, M!Accepted, M!ThreadType
  <2>2. QED
    BY <2>1
<1>4. CASE M!Marks(r)
  <2>1. /\ x4'[r].pc = "gone" /\ x4[r].pc = "marks" /\ UNCHANGED <<x1, x2, x3, x7, x15>>
        /\ \A s \in Refreshes \ {r} : x4'[s] = x4[s]
    BY <1>0, <1>4 DEF M!Marks, M!Gone
  <2>2. QED
    BY <2>1
<1>5. CASE M!Withdraws(r)
  <2>1. /\ x4'[r].pc = "gone" /\ x4[r].pc = "withdraws" /\ UNCHANGED <<x1, x2, x7, x15>>
        /\ x3'.by # "refresh" /\ \A s \in Refreshes \ {r} : x4'[s] = x4[s]
    BY <1>0, <1>5 DEF M!Withdraws, M!Disconnected, M!NoConnection, M!Gone
  <2>2. QED
    BY <2>1
<1>6. QED
  BY <1>1, <1>2, <1>3, <1>4, <1>5

LEMMA NextKeepsRefreshes == M!RefreshInv /\ [M!Next]_M!vars => M!RefreshInv'
<1>. SUFFICES ASSUME M!RefreshInv, [M!Next]_M!vars PROVE M!RefreshInv'
  OBVIOUS
<1>1. M!TypeOK /\ M!TypeOK'
  BY NextKeepsTypes DEF M!RefreshInv
<1>2. CASE \E c \in Configs : M!Upsert(c)
  BY <1>1, <1>2, UpsertKeepsRefreshes
<1>3. CASE \/ M!UpsertEnables \/ M!UpsertMarks
           \/ \E on \in BOOLEAN : M!Toggle(on)
           \/ M!Reconnect \/ M!DeleteDeselects \/ UNCHANGED M!vars
  <2>1. UNCHANGED <<x1, x2, x3, x4, x15>> /\ (x7' = "idle" => x7 = "idle")
    BY <1>3 DEF M!UpsertEnables, M!UpsertMarks, M!Toggle, M!Reconnect, M!DeleteDeselects, M!vars, M!memory
  <2>2. QED
    BY <1>1, <2>1, UntouchedRefreshes
<1>4. CASE M!UpsertSchedules \/ M!LaneSchedules
  BY <1>1, <1>4, ScheduleKeepsRefreshes DEF M!UpsertSchedules, M!LaneSchedules
<1>5. CASE M!LaneDisconnects \/ M!CallConnects \/ M!CallFails
  BY <1>1, <1>5, DisconnectedKeepsRefreshes
     DEF M!LaneDisconnects, M!CallConnects, M!CallFails, M!NoConnection, M!commands
<1>6. CASE M!Delete
  BY <1>1, <1>6, DeleteKeepsRefreshes
<1>7. CASE \E r \in Refreshes : M!Connects(r) \/ M!Settles(r) \/ M!Marks(r) \/ M!Withdraws(r)
  BY <1>1, <1>7, ThreadsKeepRefreshes
<1>8. CASE \E a \in M!Appliers : M!ApplySchedules(a)
  BY <1>1, <1>8, ScheduleKeepsRefreshes DEF M!ApplySchedules, M!commands
<1>9. CASE \E a \in M!Appliers :
              \/ M!ReadSession(a) \/ M!ReadServers(a) \/ M!Push(a) \/ M!MarkApplied(a)
              \/ M!BeginSave(a) \/ M!Saved(a)
  <2>1. UNCHANGED <<x1, x2, x3, x4, x15, x7>>
    BY <1>9 DEF M!ReadSession, M!ReadServers, M!Push, M!MarkApplied, M!BeginSave, M!Saved, M!memory, M!rest,
       M!commands
  <2>2. QED
    BY <1>1, <2>1, UntouchedRefreshes
<1>10. QED
  BY <1>2, <1>3, <1>4, <1>5, <1>6, <1>7, <1>8, <1>9 DEF M!Next

LEMMA RevisionNumbers ==
  ASSUME M!TypeOK
  PROVE  /\ x5.revision \in Nat /\ x5.applied \in Nat /\ x5.selected \in BOOLEAN
         /\ x13.last \in Nat /\ x13.newest \in Nat /\ x16 \in Nat
         /\ \A a \in M!Appliers : /\ x10[a].target \in Nat /\ x10[a] \in M!ApplyType
                                  /\ x10[a].copy.revision \in Nat /\ x10[a].copy.applied \in Nat
BY DEF M!TypeOK, M!SessionType, M!ApplyType

(* A mark: whatever an applier or the worker has is of an older revision.  *)
LEMMA MarkedKeepsRevisions ==
  ASSUME M!RevisionInv, M!TypeOK', UNCHANGED <<x6, x10, x13, x16>>,
         x5'.revision = x5.revision + 1, x5'.applied = x5.applied
  PROVE  M!RevisionInv'
<1>1. /\ x5.revision \in Nat /\ x13.last \in Nat /\ x13.newest \in Nat /\ x5.applied \in Nat /\ x16 \in Nat
      /\ \A a \in M!Appliers : x10[a].target \in Nat /\ x10[a].copy.revision \in Nat
  BY RevisionNumbers DEF M!RevisionInv
<1>2. ASSUME NEW n \in Nat, M!Noted(n)
      PROVE  M!Noted(n)' /\ (x5'.revision >= x16' => n # x5'.revision)
  BY <1>1, <1>2 DEF M!Noted
<1>3. M!RevisionsInOrder'
  BY <1>1, <1>2 DEF M!RevisionInv, M!RevisionsInOrder, M!Noted
<1>4. ASSUME x5'.revision >= x16'
      PROVE  /\ x13'.last # x5'.revision
             /\ \A a \in M!Appliers : /\ x10'[a].target # x5'.revision
                                      /\ x10'[a].copy.revision # x5'.revision
  BY <1>1, <1>2, <1>4 DEF M!RevisionInv, M!RevisionsInOrder, M!Noted
<1>5. QED
  BY <1>3, <1>4 DEF M!RevisionInv, M!ViewsMatch, M!Fits

(* What matches goes on matching while the session is the same, unless a   *)
(* mark is due for what has changed.                                       *)
LEMMA StillMatches ==
  ASSUME M!TypeOK, M!TypeOK', x5' = x5, NEW v,
         x5.selected /\ ~M!MarkToCome' =>
            ~M!MarkToCome /\ x1' = x1 /\ (M!Known' => M!Known /\ x2'.tools = x2.tools),
         M!Matches(v)
  PROVE  M!Matches(v)'
<1>1. x5.selected \in BOOLEAN
  BY DEF M!TypeOK, M!SessionType
<1>2. /\ M!View(x5.selected).config = IF x5.selected /\ x1 \in Enabled THEN x1 ELSE M!None
      /\ M!View(x5.selected).tools = IF x5.selected /\ x1 \in Enabled /\ M!Known THEN x2.tools ELSE M!None
  BY <1>1, ViewFields
<1>3. /\ M!View(x5.selected)'.config = IF x5.selected /\ x1' \in Enabled THEN x1' ELSE M!None
      /\ M!View(x5.selected)'.tools
           = IF x5.selected /\ x1' \in Enabled /\ M!Known' THEN x2'.tools ELSE M!None
  BY <1>1 DEF M!View, M!NoTools
<1>4. CASE ~x5.selected
  BY <1>2, <1>3, <1>4 DEF M!Matches, M!Current
<1>5. CASE x5.selected /\ M!MarkToCome'
  BY <1>5 DEF M!Matches
<1>6. CASE x5.selected /\ ~M!MarkToCome'
  <2>1. x1 # M!None \/ x1 \notin Enabled
    BY McpApart
  <2>2. QED
    BY <1>2, <1>3, <1>6, <2>1, McpApart DEF M!Matches, M!Current
<1>7. QED
  BY <1>4, <1>5, <1>6

LEMMA SameKeepsRevisions ==
  ASSUME M!RevisionInv, M!TypeOK', UNCHANGED <<x5, x6, x13, x16>>,
         \A a \in M!Appliers : x10'[a] = x10[a] \/ x10'[a] = M!Applies,
         x5.selected /\ ~M!MarkToCome' =>
            ~M!MarkToCome /\ x1' = x1 /\ (M!Known' => M!Known /\ x2'.tools = x2.tools)
  PROVE  M!RevisionInv'
<1>1. ASSUME NEW v, M!Matches(v) PROVE M!Matches(v)'
  BY <1>1, StillMatches DEF M!RevisionInv
<1>0. /\ M!Applies.pc = "idle" /\ M!Applies.target = 0 /\ x5.revision \in Nat /\ x13.newest \in Nat
      /\ M!Applies.copy.revision = 0 /\ M!Applies.copy.applied = 0
  BY RevisionNumbers DEF M!Applies, M!NoCopy, M!RevisionInv
<1>2. M!RevisionsInOrder'
  BY <1>0 DEF M!RevisionInv, M!RevisionsInOrder, M!Noted
<1>3. ASSUME NEW a \in M!Appliers, x10'[a] = x10[a], M!Matches(x10[a].view)
      PROVE  M!Matches(x10[a].view)'
  <2>1. PICK v : v = x10[a].view
    OBVIOUS
  <2>2. M!Matches(v)
    BY <1>3, <2>1
  <2>3. M!Matches(v)'
    BY <1>1, <2>2
  <2>4. v = x10'[a].view
    BY <1>3, <2>1
  <2>5. QED
    BY <2>3, <2>4 DEF M!Matches, M!Current
<1>4. ASSUME M!Matches(x6)
      PROVE  M!Matches(x6)'
  <2>1. PICK v : v = x6
    OBVIOUS
  <2>2. M!Matches(v)
    BY <1>4, <2>1
  <2>3. M!Matches(v)'
    BY <1>1, <2>2
  <2>4. v = x6'
    BY <2>1
  <2>5. QED
    BY <2>3, <2>4 DEF M!Matches, M!Current
<1>5. ASSUME NEW a \in M!Appliers, x5.revision >= x16
      PROVE  M!Fits(a)'
  <2>1. CASE x10'[a] = M!Applies
    BY <1>0, <2>1 DEF M!Fits
  <2>2. CASE x10'[a] = x10[a]
    BY <1>3, <1>5, <2>2 DEF M!RevisionInv, M!ViewsMatch, M!Fits
  <2>3. QED
    BY <2>1, <2>2
<1>6. QED
  BY <1>2, <1>4, <1>5 DEF M!RevisionInv, M!ViewsMatch

LEMMA CommandsKeepRevisions ==
  ASSUME M!RevisionInv, M!TypeOK',
         \/ \E c \in Configs : M!Upsert(c)
         \/ M!UpsertEnables \/ M!UpsertMarks
         \/ \E on \in BOOLEAN : M!Toggle(on)
         \/ M!Reconnect \/ M!LaneDisconnects
         \/ M!Delete \/ M!DeleteDeselects
  PROVE  M!RevisionInv'
<1>0. M!TypeOK /\ x5 \in M!SessionType /\ x5.selected \in BOOLEAN
  BY DEF M!RevisionInv, M!TypeOK, M!SessionType
<1>1. CASE \/ \E c \in Configs : M!Upsert(c)
           \/ M!Delete
  <2>1. M!MarkToCome' /\ UNCHANGED <<x5, x6, x10, x13, x16>>
    BY <1>1 DEF M!Upsert, M!Delete, M!MarkToCome
  <2>2. QED
    BY <2>1, SameKeepsRevisions
<1>2. CASE M!UpsertEnables
  <2>1. x5' = M!Toggled(x5, TRUE) /\ M!MarkToCome' /\ UNCHANGED <<x6, x10, x13, x16>>
    BY <1>2 DEF M!UpsertEnables, M!SessionBecomes, M!MarkToCome
  <2>2. CASE x5.selected
    BY <1>0, <2>1, <2>2, SessionTypes, SameKeepsRevisions
  <2>3. CASE ~x5.selected
    BY <1>0, <2>1, <2>3, SessionTypes, MarkedKeepsRevisions
  <2>4. QED
    BY <2>2, <2>3
<1>3. CASE M!UpsertMarks
  <2>1. CASE x5.selected
    <3>1. x5' = M!Marked(x5) /\ UNCHANGED <<x6, x10, x13, x16>>
      BY <1>3, <2>1 DEF M!UpsertMarks, M!MarkIfSelected, M!SessionBecomes
    <3>2. QED
      BY <1>0, <3>1, SessionTypes, MarkedKeepsRevisions
  <2>2. CASE ~x5.selected
    <3>1. UNCHANGED <<x5, x6, x10, x13, x16>>
      BY <1>3, <2>2 DEF M!UpsertMarks, M!MarkIfSelected
    <3>2. QED
      BY <2>2, <3>1, SameKeepsRevisions
  <2>3. QED
    BY <2>1, <2>2
<1>4. CASE \E on \in BOOLEAN : M!Toggle(on)
  <2>1. PICK on \in BOOLEAN : M!Toggle(on)
    BY <1>4
  <2>2. x5' = M!Toggled(x5, on) /\ UNCHANGED <<x1, x2, x4, x6, x7, x9, x10, x13, x16>>
    BY <2>1 DEF M!Toggle, M!SessionBecomes, M!memory
  <2>3. CASE x5.selected = on
    <3>1. x5' = x5
      BY <1>0, <2>2, <2>3, SessionTypes
    <3>2. x14' = (x14 /\ M!Toggled(x5, on).revision = x5.revision)
      BY <2>1 DEF M!Toggle, M!SessionBecomes
    <3>3. x14' <=> x14
      BY <2>2, <3>1, <3>2, Zenon
    <3>4. QED
      BY <2>2, <3>1, <3>3, SameKeepsRevisions DEF M!MarkToCome, M!Known
  <2>4. CASE x5.selected # on
    BY <1>0, <2>2, <2>4, SessionTypes, MarkedKeepsRevisions
  <2>5. QED
    BY <2>3, <2>4
<1>5. CASE M!Reconnect
  <2>1. x5' = M!Marked(x5) /\ UNCHANGED <<x6, x10, x13, x16>>
    BY <1>5 DEF M!Reconnect, M!SessionBecomes
  <2>2. QED
    BY <1>0, <2>1, SessionTypes, MarkedKeepsRevisions
<1>6. CASE M!LaneDisconnects
  BY <1>6, SameKeepsRevisions DEF M!LaneDisconnects, M!MarkToCome, M!Known
<1>7. CASE M!DeleteDeselects
  <2>1. x5' = M!Toggled(x5, FALSE) /\ UNCHANGED <<x6, x10, x13, x16>>
    BY <1>7 DEF M!DeleteDeselects, M!SessionBecomes
  <2>2. CASE x5.selected
    BY <1>0, <2>1, <2>2, SessionTypes, MarkedKeepsRevisions
  <2>3. CASE ~x5.selected
    BY <1>0, <2>1, <2>3, SessionTypes, SameKeepsRevisions
  <2>4. QED
    BY <2>2, <2>3
<1>8. QED
  BY <1>1, <1>2, <1>3, <1>4, <1>5, <1>6, <1>7

LEMMA ScheduleKeepsRevisions ==
  ASSUME M!RevisionInv, M!TypeOK', M!Schedule, UNCHANGED <<x1, x5, x6, x9, x13, x14, x16>>,
         \A a \in M!Appliers : x10'[a] = x10[a] \/ x10'[a] = M!Applies,
         x7 \in {"enable", "mark"} => x7' = x7
  PROVE  M!RevisionInv'
<1>0. M!TypeOK /\ x4 \in [Refreshes -> M!ThreadType]
  BY DEF M!RevisionInv, M!TypeOK
<1>1. \/ UNCHANGED <<x2, x4>>
      \/ /\ x2'.state = "connecting"
         /\ \/ x4' = x4
            \/ \E r \in Refreshes : /\ x4[r] = M!NotStarted
                                    /\ x4' = [x4 EXCEPT ![r] = [pc |-> "connects", config |-> x1]]
  <2>1. CASE x2' = [config |-> x1, state |-> "connecting", tools |-> M!None]
    <3>1. x2'.state = "connecting"
      BY <2>1
    <3>2. QED
      BY <1>0, <3>1, ScheduleEffect, Zenon
  <2>2. QED
    BY <1>0, <2>1, ScheduleEffect, Zenon
<1>2. \A r \in Refreshes : x4'[r].pc = "marks" <=> x4[r].pc = "marks"
  <2>1. CASE x4' = x4
    BY <2>1
  <2>2. ASSUME NEW r \in Refreshes, x4[r] = M!NotStarted,
               x4' = [x4 EXCEPT ![r] = [pc |-> "connects", config |-> x1]]
        PROVE  \A s \in Refreshes : x4'[s].pc = "marks" <=> x4[s].pc = "marks"
    <3>1. PICK v : v = [pc |-> "connects", config |-> x1]
      OBVIOUS
    <3>2. v.pc = "connects" /\ M!NotStarted.pc = "not started"
      BY <3>1 DEF M!NotStarted
    <3>3. x4' = [x4 EXCEPT ![r] = v]
      BY <2>2, <3>1
    <3>4. x4'[r] = v /\ \A s \in Refreshes \ {r} : x4'[s] = x4[s]
      BY <1>0, <3>3
    <3>5. QED
      BY <2>2, <3>2, <3>4
  <2>3. QED
    BY <1>1, <2>1, <2>2
<1>3. ~M!MarkToCome' => ~M!MarkToCome
  BY <1>2 DEF M!MarkToCome
<1>4. M!Known' => M!Known /\ x2' = x2
  BY <1>1 DEF M!Known
<1>5. QED
  BY <1>3, <1>4, SameKeepsRevisions

LEMMA ThreadsKeepRevisions ==
  ASSUME M!RevisionInv, M!TypeOK', NEW r \in Refreshes,
         M!Connects(r) \/ M!Settles(r) \/ M!Marks(r) \/ M!Withdraws(r)
  PROVE  M!RevisionInv'
<1>0. M!TypeOK /\ x4 \in [Refreshes -> M!ThreadType]
  BY DEF M!RevisionInv, M!TypeOK
<1>1. CASE M!Connects(r) \/ M!Withdraws(r)
  <2>1. UNCHANGED <<x1, x2, x5, x6, x7, x9, x10, x13, x14, x16>>
    BY <1>1 DEF M!Connects, M!Withdraws, M!commands
  <2>2. x4[r].pc # "marks" /\ x4'[r].pc # "marks" /\ \A s \in Refreshes \ {r} : x4'[s] = x4[s]
    <3>1. CASE x4' = [x4 EXCEPT ![r].pc = "found"]
      BY <1>0, <1>1, <3>1 DEF M!Connects, M!Withdraws, M!ThreadType
    <3>2. CASE x4' = [x4 EXCEPT ![r].pc = "failed"]
      BY <1>0, <1>1, <3>2 DEF M!Connects, M!Withdraws, M!ThreadType
    <3>3. CASE M!Withdraws(r)
      BY <1>0, <3>3 DEF M!Withdraws, M!Gone
    <3>4. QED
      BY <1>1, <3>1, <3>2, <3>3 DEF M!Connects
  <2>3. QED
    BY <2>1, <2>2, SameKeepsRevisions DEF M!MarkToCome, M!Known
<1>2. CASE M!Settles(r)
  <2>0. /\ UNCHANGED <<x1, x5, x6, x7, x9, x10, x13, x14, x16>>
        /\ x4[r].pc \in {"found", "failed"} /\ \A s \in Refreshes \ {r} : x4'[s] = x4[s]
    BY <1>0, <1>2 DEF M!Settles, M!commands
  <2>1. CASE M!Accepted(r) /\ x4[r].pc = "found"
    <3>1. x4'[r].pc = "marks"
      BY <1>0, <1>2, <2>1 DEF M!Settles, M!AfterAcceptance, M!ThreadType
    <3>2. QED
      BY <2>0, <3>1, SameKeepsRevisions DEF M!MarkToCome
  <2>2. CASE M!Accepted(r) /\ x4[r].pc = "failed"
    <3>1. x4'[r].pc = "gone" /\ x2'.state = "error"
      BY <1>0, <1>2, <2>2 DEF M!Settles, M!AfterAcceptance, M!Gone, M!Result
    <3>2. QED
      BY <2>0, <3>1, SameKeepsRevisions DEF M!MarkToCome, M!Known
  <2>3. CASE ~M!Accepted(r)
    <3>1. x4'[r].pc = "withdraws" /\ x2' = x2
      BY <1>0, <1>2, <2>3 DEF M!Settles, M!ThreadType
    <3>2. QED
      BY <2>0, <3>1, SameKeepsRevisions DEF M!MarkToCome, M!Known
  <2>4. QED
    BY <2>0, <2>1, <2>2, <2>3
<1>3. CASE M!Marks(r)
  <2>1. CASE x5.selected
    <3>1. x5' = M!Marked(x5) /\ UNCHANGED <<x6, x10, x13, x16>>
      BY <1>3, <2>1 DEF M!Marks, M!MarkIfSelected, M!SessionBecomes
    <3>2. QED
      BY <1>0, <3>1, SessionTypes, MarkedKeepsRevisions
  <2>2. CASE ~x5.selected
    <3>1. UNCHANGED <<x5, x6, x10, x13, x16>>
      BY <1>3, <2>2 DEF M!Marks, M!MarkIfSelected
    <3>2. QED
      BY <2>2, <3>1, SameKeepsRevisions
  <2>3. QED
    BY <2>1, <2>2
<1>4. QED
  BY <1>1, <1>2, <1>3

(* While nothing of the server changes and the revision is the same, it is *)
(* enough to look at the applier that takes the step, and at the worker.   *)
LEMMA AppliersKeepRevisions ==
  ASSUME M!RevisionInv, M!TypeOK', NEW a \in M!Appliers, NEW v, NEW w,
         UNCHANGED <<x1, x2, x4, x7, x9, x14, x16>>,
         x5'.revision = x5.revision,
         \A b \in M!Appliers \ {a} : x10'[b] = x10[b],
         M!RevisionsInOrder',
         v = x10'[a].view, w = x6',
         x5.revision >= x16 =>
            /\ x5'.selected = x5.selected
            /\ x10'[a].target = x5.revision =>
                  /\ x10'[a].pc = "servers" => x10'[a].selected = x5.selected
                  /\ x10'[a].pc = "push" => M!Matches(v)
            /\ x10'[a].pc = "saves" => x10'[a].copy.selected = x5.selected
            /\ x13'.last = x5.revision => M!Matches(w)
  PROVE  M!RevisionInv'
<1>0. SUFFICES ASSUME x5.revision >= x16, x5'.selected = x5.selected
               PROVE  /\ \A b \in M!Appliers : M!Fits(b)'
                      /\ x13'.last = x5'.revision => M!Matches(x6)'
  BY DEF M!RevisionInv, M!ViewsMatch
<1>1. ASSUME NEW u, M!Matches(u) PROVE M!Matches(u)'
  BY <1>0, <1>1 DEF M!Matches, M!Current, M!MarkToCome, M!Known, M!View
<1>2. M!Matches(w) => M!Matches(x6)'
  <2>1. M!Matches(w) => M!Matches(w)'
    BY <1>1
  <2>2. QED
    BY <2>1 DEF M!Matches, M!Current
<1>3. M!Matches(v) => M!Matches(x10[a].view)'
  <2>1. M!Matches(v) => M!Matches(v)'
    BY <1>1
  <2>2. QED
    BY <2>1 DEF M!Matches, M!Current
<1>4. ASSUME NEW b \in M!Appliers \ {a}, M!Matches(x10[b].view)
      PROVE  M!Matches(x10[b].view)'
  <2>1. PICK u : u = x10[b].view
    OBVIOUS
  <2>2. M!Matches(u)
    BY <1>4, <2>1
  <2>3. M!Matches(u)'
    BY <1>1, <2>2
  <2>4. u = x10'[b].view
    BY <2>1
  <2>5. QED
    BY <2>3, <2>4 DEF M!Matches, M!Current
<1>5. ASSUME NEW b \in M!Appliers
      PROVE  M!Fits(b)'
  <2>1. CASE b = a
    BY <1>0, <1>3, <2>1 DEF M!Fits
  <2>2. CASE b # a
    BY <1>0, <1>4, <2>2 DEF M!RevisionInv, M!ViewsMatch, M!Fits
  <2>3. QED
    BY <2>1, <2>2
<1>6. QED
  BY <1>0, <1>2, <1>5

LEMMA ReadSessionKeepsRevisions ==
  ASSUME M!RevisionInv, M!TypeOK', NEW a \in M!Appliers, M!ReadSession(a)
  PROVE  M!RevisionInv'
<1>0. M!TypeOK /\ x10 \in [M!Appliers -> M!ApplyType]
  BY DEF M!RevisionInv, M!TypeOK
<1>1. PICK v : v = [M!Applies EXCEPT !.pc = "servers", !.target = x5.revision, !.selected = x5.selected]
  OBVIOUS
<1>2. v.pc = "servers" /\ v.target = x5.revision /\ v.selected = x5.selected /\ v.copy = M!NoCopy
  BY <1>1 DEF M!Applies
<1>3. x10' = [x10 EXCEPT ![a] = v] /\ UNCHANGED <<x1, x2, x4, x5, x6, x7, x9, x13, x14, x16>>
  BY <1>1 DEF M!ReadSession, M!Becomes, M!memory
<1>4. x10'[a] = v /\ \A b \in M!Appliers \ {a} : x10'[b] = x10[b]
  BY <1>0, <1>3
<1>5. M!RevisionsInOrder'
  BY <1>0, <1>2, <1>3, <1>4, RevisionNumbers DEF M!NoCopy, M!RevisionInv, M!RevisionsInOrder, M!Noted
<1>6. x5.revision >= x16 /\ x13.last = x5.revision => M!Matches(x6)
  BY DEF M!RevisionInv, M!ViewsMatch, M!Fits
<1>7. QED
  BY <1>2, <1>3, <1>4, <1>5, <1>6, AppliersKeepRevisions

LEMMA ReadServersKeepsRevisions ==
  ASSUME M!RevisionInv, M!TypeOK', NEW a \in M!Appliers, M!ReadServers(a)
  PROVE  M!RevisionInv'
<1>0. M!TypeOK /\ x10 \in [M!Appliers -> M!ApplyType] /\ x10[a] \in M!ApplyType
  BY DEF M!RevisionInv, M!TypeOK
<1>1. PICK v : v = [x10[a] EXCEPT !.pc = "push", !.selected = FALSE,
                                  !.view = M!View(x10[a].selected),
                                  !.missing = x10[a].selected /\ x1 \in Enabled /\ ~M!Known]
  OBVIOUS
<1>2. v.pc = "push" /\ v.target = x10[a].target /\ v.view = M!View(x10[a].selected) /\ v.copy = x10[a].copy
  BY <1>0, <1>1 DEF M!ApplyType
<1>3. x10' = [x10 EXCEPT ![a] = v] /\ x10[a].pc = "servers" /\ UNCHANGED <<x1, x2, x4, x5, x6, x7, x9, x13, x14, x16>>
  BY <1>1 DEF M!ReadServers, M!Becomes, M!memory, M!rest, M!commands
<1>4. x10'[a] = v /\ \A b \in M!Appliers \ {a} : x10'[b] = x10[b]
  BY <1>0, <1>3
<1>5. M!RevisionsInOrder'
  BY <1>0, <1>2, <1>3, <1>4, RevisionNumbers DEF M!NoCopy, M!RevisionInv, M!RevisionsInOrder, M!Noted
<1>6. x5.revision >= x16 /\ x13.last = x5.revision => M!Matches(x6)
  BY DEF M!RevisionInv, M!ViewsMatch, M!Fits
<1>7. x5.revision >= x16 /\ x10[a].target = x5.revision => v.view = M!View(x5.selected)
  BY <1>2, <1>3 DEF M!RevisionInv, M!ViewsMatch, M!Fits
<1>8. x5.revision >= x16 /\ x10[a].target = x5.revision => M!Matches(v.view)
  BY <1>7 DEF M!Matches, M!Current
<1>9. QED
  BY <1>2, <1>3, <1>4, <1>5, <1>6, <1>8, AppliersKeepRevisions

LEMMA PushKeepsRevisions ==
  ASSUME M!RevisionInv, M!TypeOK', NEW a \in M!Appliers, M!Push(a)
  PROVE  M!RevisionInv'
<1>0. M!TypeOK /\ x10 \in [M!Appliers -> M!ApplyType]
  BY DEF M!RevisionInv, M!TypeOK
<1>1. PICK v : v = [M!Applies EXCEPT !.pc = "applied", !.target = x10[a].target, !.missing = x10[a].missing]
  OBVIOUS
<1>2. v.pc = "applied" /\ v.target = x10[a].target /\ v.copy = M!NoCopy
  BY <1>1 DEF M!Applies
<1>3. /\ x10' = [x10 EXCEPT ![a] = v] /\ x10[a].pc = "push" /\ x6' = x10[a].view
      /\ UNCHANGED <<x1, x2, x4, x5, x7, x9, x14, x16>>
  BY <1>1 DEF M!Push, M!Becomes, M!memory, M!rest, M!commands
<1>4. x10'[a] = v /\ \A b \in M!Appliers \ {a} : x10'[b] = x10[b]
  BY <1>0, <1>3
<1>5. /\ x13'.last = x10[a].target
      /\ x13'.newest = IF x10[a].target > x13.newest THEN x10[a].target ELSE x13.newest
  BY DEF M!Push
<1>6. x13'.newest \in Nat /\ x13.newest <= x13'.newest /\ x10[a].target <= x13'.newest
      /\ M!Noted(x13'.newest)
  BY <1>0, <1>5, RevisionNumbers DEF M!NoCopy, M!RevisionInv, M!RevisionsInOrder, M!Noted
<1>7. M!RevisionsInOrder'
  <2>1. ASSUME NEW b \in M!Appliers
        PROVE  /\ M!Noted(x10'[b].target) /\ (x10'[b].pc = "applied" => x10'[b].target <= x13'.newest)
               /\ M!Noted(x10'[b].copy.revision) /\ x10'[b].copy.applied <= x13'.newest
    <3>1. CASE b = a
      BY <1>0, <1>2, <1>4, <1>6, <3>1, RevisionNumbers
         DEF M!NoCopy, M!RevisionInv, M!RevisionsInOrder, M!Noted
    <3>2. CASE b # a
      BY <1>0, <1>4, <1>6, <3>2, RevisionNumbers
         DEF M!NoCopy, M!RevisionInv, M!RevisionsInOrder, M!Noted
    <3>3. QED
      BY <3>1, <3>2
  <2>2. x5.applied <= x13'.newest
    BY <1>0, <1>6, RevisionNumbers DEF M!NoCopy, M!RevisionInv, M!RevisionsInOrder, M!Noted
  <2>3. QED
    BY <1>3, <1>5, <1>6, <2>1, <2>2 DEF M!RevisionsInOrder, M!Noted
<1>8. x5.revision >= x16 /\ x10[a].target = x5.revision => M!Matches(x10[a].view)
  BY <1>3 DEF M!RevisionInv, M!ViewsMatch, M!Fits
<1>9. QED
  BY <1>2, <1>3, <1>4, <1>5, <1>7, <1>8, AppliersKeepRevisions

LEMMA MarkAppliedKeepsRevisions ==
  ASSUME M!RevisionInv, M!TypeOK', NEW a \in M!Appliers, M!MarkApplied(a)
  PROVE  M!RevisionInv'
<1>0. M!TypeOK /\ x10 \in [M!Appliers -> M!ApplyType] /\ x5 \in M!SessionType
  BY DEF M!RevisionInv, M!TypeOK
<1>1. PICK v : v \in {[M!Applies EXCEPT !.pc = "schedule"], M!Applies} /\ x10' = [x10 EXCEPT ![a] = v]
  BY DEF M!MarkApplied, M!Becomes
<1>2. v.pc \in {"schedule", "idle"} /\ v.target = 0 /\ v.copy = M!NoCopy
  BY <1>1 DEF M!Applies
<1>3. x10'[a] = v /\ \A b \in M!Appliers \ {a} : x10'[b] = x10[b]
  BY <1>0, <1>1
<1>4. x10[a].pc = "applied" /\ UNCHANGED <<x1, x2, x4, x6, x7, x9, x13, x14, x16>>
  BY DEF M!MarkApplied, M!memory, M!rest, M!commands
<1>5. /\ x5'.selected = x5.selected /\ x5'.revision = x5.revision
      /\ x5'.applied = IF x5.revision = x10[a].target THEN x10[a].target ELSE x5.applied
  BY <1>0 DEF M!MarkApplied, M!Applied, M!SessionType
<1>6. M!RevisionsInOrder'
  BY <1>0, <1>2, <1>3, <1>4, <1>5, RevisionNumbers DEF M!NoCopy, M!RevisionInv, M!RevisionsInOrder, M!Noted
<1>7. x5.revision >= x16 /\ x13.last = x5.revision => M!Matches(x6)
  BY DEF M!RevisionInv, M!ViewsMatch, M!Fits
<1>8. QED
  BY <1>2, <1>3, <1>4, <1>5, <1>6, <1>7, AppliersKeepRevisions

LEMMA BeginSaveKeepsRevisions ==
  ASSUME M!RevisionInv, M!TypeOK', NEW a \in M!Appliers, M!BeginSave(a)
  PROVE  M!RevisionInv'
<1>0. M!TypeOK /\ x10 \in [M!Appliers -> M!ApplyType]
  BY DEF M!RevisionInv, M!TypeOK
<1>1. PICK v : v = [M!Applies EXCEPT !.pc = "saves", !.copy = x5]
  OBVIOUS
<1>2. v.pc = "saves" /\ v.target = 0 /\ v.copy = x5
  BY <1>1 DEF M!Applies
<1>3. x10' = [x10 EXCEPT ![a] = v] /\ UNCHANGED <<x1, x2, x4, x5, x6, x7, x9, x13, x14, x16>>
  BY <1>1 DEF M!BeginSave, M!Becomes, M!memory
<1>4. x10'[a] = v /\ \A b \in M!Appliers \ {a} : x10'[b] = x10[b]
  BY <1>0, <1>3
<1>5. M!RevisionsInOrder'
  BY <1>0, <1>2, <1>3, <1>4, RevisionNumbers DEF M!RevisionInv, M!RevisionsInOrder, M!Noted
<1>6. x5.revision >= x16 /\ x13.last = x5.revision => M!Matches(x6)
  BY DEF M!RevisionInv, M!ViewsMatch
<1>7. QED
  BY <1>2, <1>3, <1>4, <1>5, <1>6, AppliersKeepRevisions

(* A put-back to another revision makes what has that revision, or any up  *)
(* to the one undone, ambiguous.                                           *)
LEMMA SavedKeepsRevisions ==
  ASSUME M!RevisionInv, M!TypeOK', NEW a \in M!Appliers, M!Saved(a)
  PROVE  M!RevisionInv'
<1>0. M!TypeOK /\ x10 \in [M!Appliers -> M!ApplyType]
  BY DEF M!RevisionInv, M!TypeOK
<1>1. M!Applies.pc = "idle" /\ M!Applies.target = 0 /\ M!Applies.copy = M!NoCopy
  BY DEF M!Applies
<1>2. x10[a].pc = "saves" /\ x10' = [x10 EXCEPT ![a] = M!Applies] /\ UNCHANGED <<x1, x2, x4, x6, x7, x9, x13, x14>>
  BY DEF M!Saved, M!Becomes, M!memory, M!rest, M!commands
<1>3. x10'[a] = M!Applies /\ \A b \in M!Appliers \ {a} : x10'[b] = x10[b]
  BY <1>0, <1>2
<1>4. /\ x5.revision \in Nat /\ x5.applied \in Nat /\ x13.last \in Nat /\ x13.newest \in Nat /\ x16 \in Nat
      /\ \A b \in M!Appliers : /\ x10[b].target \in Nat /\ x10[b].copy.revision \in Nat
                               /\ x10[b].copy.applied \in Nat
  BY <1>0, RevisionNumbers
<1>5. CASE M!PutBack(x10[a].copy) /\ x10[a].copy.revision # x5.revision
  <2>1. x5' = x10[a].copy /\ x16' = IF x16 <= x5.revision THEN x5.revision + 1 ELSE x16
    BY <1>5 DEF M!PutBack
  <2>2. ASSUME NEW n \in Nat, M!Noted(n)
        PROVE  n < x16'
    BY <1>4, <2>1, <2>2 DEF M!Noted
  <2>3. x5'.revision < x16' /\ x5'.applied <= x13.newest
    BY <1>4, <2>1, <2>2 DEF M!RevisionInv, M!RevisionsInOrder
  <2>4. x13.newest < x16' /\ x13.last <= x13.newest
    BY <1>4, <2>2 DEF M!RevisionInv, M!RevisionsInOrder
  <2>5. ASSUME NEW b \in M!Appliers \ {a}
        PROVE  /\ x10[b].target < x16' /\ (x10[b].pc = "applied" => x10[b].target <= x13.newest)
               /\ x10[b].copy.revision < x16' /\ x10[b].copy.applied <= x13.newest
    BY <1>4, <2>2 DEF M!RevisionInv, M!RevisionsInOrder
  <2>6. M!RevisionsInOrder'
    <3>1. 0 < x16' /\ 0 <= x13.newest
      BY <1>4, <2>1
    <3>2. ASSUME NEW b \in M!Appliers
          PROVE  /\ x10'[b].target < x16' /\ (x10'[b].pc = "applied" => x10'[b].target <= x13.newest)
                 /\ x10'[b].copy.revision < x16' /\ x10'[b].copy.applied <= x13.newest
      <4>1. CASE b = a
        BY <1>1, <1>3, <3>1, <4>1 DEF M!NoCopy
      <4>2. CASE b # a
        BY <1>3, <2>5, <4>2
      <4>3. QED
        BY <4>1, <4>2
    <3>3. QED
      BY <1>2, <2>3, <2>4, <3>2 DEF M!RevisionsInOrder, M!Noted
  <2>7. x5'.revision \in Nat /\ x16' \in Nat /\ ~(x5'.revision >= x16')
    BY <1>4, <2>1, <2>3
  <2>8. QED
    BY <2>6, <2>7 DEF M!RevisionInv, M!ViewsMatch
<1>6. CASE /\ x16' = x16 /\ x5'.revision = x5.revision /\ x5'.applied <= x13.newest
           /\ x5.revision >= x16 => x5'.selected = x5.selected
  <2>1. M!RevisionsInOrder'
    BY <1>1, <1>2, <1>3, <1>4, <1>6 DEF M!RevisionInv, M!RevisionsInOrder, M!Noted, M!NoCopy
  <2>2. x5.revision >= x16 /\ x13.last = x5.revision => M!Matches(x6)
    BY DEF M!RevisionInv, M!ViewsMatch
  <2>3. QED
    BY <1>1, <1>2, <1>3, <1>6, <2>1, <2>2, AppliersKeepRevisions
<1>7. CASE M!PutBack(x10[a].copy) /\ x10[a].copy.revision = x5.revision
  BY <1>2, <1>6, <1>7 DEF M!PutBack, M!RevisionInv, M!RevisionsInOrder, M!ViewsMatch, M!Fits
<1>8. CASE UNCHANGED <<x5, x16>>
  BY <1>6, <1>8 DEF M!RevisionInv, M!RevisionsInOrder
<1>9. QED
  BY <1>5, <1>7, <1>8 DEF M!Saved

LEMMA NextKeepsRevisions == M!RevisionInv /\ [M!Next]_M!vars => M!RevisionInv'
<1>. SUFFICES ASSUME M!RevisionInv, [M!Next]_M!vars PROVE M!RevisionInv'
  OBVIOUS
<1>1. M!TypeOK /\ M!TypeOK'
  BY NextKeepsTypes DEF M!RevisionInv
<1>2. CASE \/ \E c \in Configs : M!Upsert(c)
           \/ M!UpsertEnables \/ M!UpsertMarks
           \/ \E on \in BOOLEAN : M!Toggle(on)
           \/ M!Reconnect \/ M!LaneDisconnects
           \/ M!Delete \/ M!DeleteDeselects
  BY <1>1, <1>2, CommandsKeepRevisions
<1>3. CASE M!UpsertSchedules \/ M!LaneSchedules
  BY <1>1, <1>3, ScheduleKeepsRevisions DEF M!UpsertSchedules, M!LaneSchedules
<1>4. CASE \E a \in M!Appliers : M!ApplySchedules(a)
  <2>1. PICK a \in M!Appliers : M!ApplySchedules(a)
    BY <1>4
  <2>2. M!Schedule /\ x10' = [x10 EXCEPT ![a] = M!Applies] /\ UNCHANGED <<x1, x5, x6, x7, x9, x13, x14, x16>>
    BY <2>1 DEF M!ApplySchedules, M!Becomes, M!commands
  <2>3. \A b \in M!Appliers : x10'[b] = x10[b] \/ x10'[b] = M!Applies
    BY <1>1, <2>2 DEF M!TypeOK
  <2>4. QED
    BY <1>1, <2>2, <2>3, ScheduleKeepsRevisions
<1>5. CASE M!CallConnects \/ M!CallFails \/ UNCHANGED M!vars
  <2>1. UNCHANGED <<x1, x2, x4, x5, x6, x7, x9, x10, x13, x14, x16>>
    BY <1>5 DEF M!CallConnects, M!CallFails, M!commands, M!vars
  <2>2. QED
    BY <1>1, <2>1, SameKeepsRevisions DEF M!MarkToCome, M!Known
<1>6. CASE \E r \in Refreshes : M!Connects(r) \/ M!Settles(r) \/ M!Marks(r) \/ M!Withdraws(r)
  BY <1>1, <1>6, ThreadsKeepRevisions
<1>7. CASE \E a \in M!Appliers :
              \/ M!ReadSession(a) \/ M!ReadServers(a) \/ M!Push(a) \/ M!MarkApplied(a)
              \/ M!BeginSave(a) \/ M!Saved(a)
  BY <1>1, <1>7, ReadSessionKeepsRevisions, ReadServersKeepsRevisions, PushKeepsRevisions,
     MarkAppliedKeepsRevisions, BeginSaveKeepsRevisions, SavedKeepsRevisions
<1>8. QED
  BY <1>2, <1>3, <1>4, <1>5, <1>6, <1>7 DEF M!Next

LEMMA AppliedIsCurrent == M!RevisionInv => M!AppliedMeansCurrent
<1>. SUFFICES ASSUME M!RevisionInv, x5.applied = x5.revision, M!Quiet, ~x14,
                     \A r \in Refreshes : x4[r].pc # "marks", x13.last = x13.newest,
                     x5.revision >= x16
              PROVE  /\ x6.config = M!View(x5.selected).config
                     /\ M!Known => x6.tools = M!View(x5.selected).tools
  BY DEF M!AppliedMeansCurrent
<1>1. x13.last = x5.revision
  BY RevisionNumbers DEF M!RevisionInv, M!RevisionsInOrder, M!Noted
<1>2. ~M!MarkToCome
  BY DEF M!MarkToCome, M!Quiet
<1>3. QED
  BY <1>1, <1>2 DEF M!RevisionInv, M!ViewsMatch, M!Matches, M!Current

(***************************************************************************)
(* For any definitions, threads and bounds: a report of server.rs does not *)
(* stay connecting without a refresh thread that ends it, and a connection *)
(* that a refresh opened for a server that was deleted meanwhile is still  *)
(* to be withdrawn by that thread (schedule_mcp_server_refresh and the     *)
(* commands that write mcp_configs and mcp_reports).                       *)
(***************************************************************************)
THEOREM RefreshesEnd == PartsSpec => []RefreshesEndWhatTheyBegin
<1>1. PartsInit => (part = "mcp" => M!RefreshInv)
  BY InitEstablishesRefreshes DEF PartsInit
<1>2. (part = "mcp" => M!RefreshInv) /\ [PartsNext]_<<part, vars, From1>>
      => (part = "mcp" => M!RefreshInv)'
  <2>. SUFFICES ASSUME part = "mcp" => M!RefreshInv, [PartsNext]_<<part, vars, From1>>,
                       part' = "mcp"
                PROVE  M!RefreshInv'
    OBVIOUS
  <2>1. part = "mcp" /\ [M!Next]_M!vars
    BY DEF PartsNext, From1, From5, From8, From12, M!vars
  <2>2. QED
    BY <2>1, NextKeepsRefreshes
<1>3. (part = "mcp" => M!RefreshInv) => RefreshesEndWhatTheyBegin
  BY DEF RefreshesEndWhatTheyBegin, M!RefreshInv
<1>4. QED
  BY <1>1, <1>2, <1>3, PTL DEF PartsSpec

(***************************************************************************)
(* For any definitions, threads and bounds: once a Session's MCP revision  *)
(* is applied and nothing is under way, its worker has the definition and  *)
(* the tools that are selected and known now (apply_pending_session_mcp,   *)
(* sync_session_mcp and mark_sessions_using_mcp_server of server.rs),      *)
(* unless an older revision was sent after a newer one, the save of a      *)
(* definition failed, or that of a Session put back an older revision.     *)
(***************************************************************************)
THEOREM AppliedToolsAreCurrent == PartsSpec => []AppliedMeansCurrent
<1>1. PartsInit => (part = "mcp" => M!RevisionInv)
  BY InitEstablishesRevisions DEF PartsInit
<1>2. (part = "mcp" => M!RevisionInv) /\ [PartsNext]_<<part, vars, From1>>
      => (part = "mcp" => M!RevisionInv)'
  <2>. SUFFICES ASSUME part = "mcp" => M!RevisionInv, [PartsNext]_<<part, vars, From1>>,
                       part' = "mcp"
                PROVE  M!RevisionInv'
    OBVIOUS
  <2>1. part = "mcp" /\ [M!Next]_M!vars
    BY DEF PartsNext, From1, From5, From8, From12, M!vars
  <2>2. QED
    BY <2>1, NextKeepsRevisions
<1>3. (part = "mcp" => M!RevisionInv) => AppliedMeansCurrent
  BY AppliedIsCurrent DEF AppliedMeansCurrent
<1>4. QED
  BY <1>1, <1>2, <1>3, PTL DEF PartsSpec
=============================================================================
