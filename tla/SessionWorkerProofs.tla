------------------------- MODULE SessionWorkerProofs -------------------------
(***************************************************************************)
(* The worker and its handle keep their promises for any turns, any        *)
(* supplements, any number of clients and any capacity of the tracker.     *)
(***************************************************************************)
EXTENDS SessionWorker, SequenceTheorems, FiniteSetTheorems, WellFoundedInduction, TLAPS

(* Every nonempty set of naturals has a least element. *)
LEMMA LeastNat ==
    ASSUME NEW K \in SUBSET Nat, K # {}
    PROVE  \E m \in K : \A n \in K : m <= n
<1> DEFINE R == OpToRel(<, Nat)
<1>1. R = {ss \in Nat \X Nat : ss[1] < ss[2]}
  BY Zenon DEF OpToRel
<1>2. IsWellFoundedOn(R, Nat)
  BY NatLessThanWellFounded, Zenon
<1> HIDE DEF R
<1>3. PICK m \in K : \A n \in K : <<n, m>> \notin R
  BY <1>2, WFMin, Zenon
<1>4. \A n \in K : ~(n < m)
  BY <1>1, <1>3
<1> QED BY <1>3, <1>4

-----------------------------------------------------------------------------
(* Counting the places of a sequence that hold a member of S.              *)
Hits(seq, S) == {k \in DOMAIN seq : seq[k] \in S}

(* The places are finitely many.                                           *)
LEMMA HitsAreFinite ==
    ASSUME NEW T, NEW seq \in Seq(T), NEW S
    PROVE  IsFiniteSet(Hits(seq, S)) /\ Cardinality(Hits(seq, S)) \in Nat
<1>1. IsFiniteSet(1 .. Len(seq)) /\ DOMAIN seq = 1 .. Len(seq)
  BY FS_Interval, LenProperties
<1>2. IsFiniteSet(Hits(seq, S))
  BY <1>1, FS_Subset DEF Hits
<1> QED BY <1>2, FS_CardinalityType

(* Shifting a finite set of numbers keeps its size.                        *)
LEMMA ShiftedSet ==
    ASSUME NEW P \in SUBSET Int, IsFiniteSet(P), NEW d \in Int
    PROVE  /\ IsFiniteSet({k + d : k \in P})
           /\ Cardinality({k + d : k \in P}) = Cardinality(P)
<1> DEFINE Q == {k + d : k \in P}
           f == [k \in P |-> k + d]
<1>1. f \in Bijection(P, Q)
  BY DEF Bijection, Injection, Surjection, IsInjective
<1>2. ExistsBijection(P, Q)
  BY <1>1 DEF ExistsBijection
<1> QED BY <1>2, FS_Bijection

(* The sizes of disjoint sets add up.                                      *)
LEMMA DisjointUnion ==
    ASSUME NEW A, NEW B, IsFiniteSet(A), IsFiniteSet(B), A \cap B = {}
    PROVE  Cardinality(A \cup B) = Cardinality(A) + Cardinality(B)
<1>1. Cardinality(A \cup B) = Cardinality(A) + Cardinality(B) - Cardinality(A \cap B)
  BY FS_Union
<1>2. Cardinality(A \cap B) = 0 /\ Cardinality(A) \in Nat /\ Cardinality(B) \in Nat
  BY FS_EmptySet, FS_CardinalityType
<1> QED BY <1>1, <1>2

(* The places in a concatenation.                                          *)
LEMMA HitsConcat ==
    ASSUME NEW T, NEW s \in Seq(T), NEW u \in Seq(T), NEW S
    PROVE  Cardinality(Hits(s \o u, S))
             = Cardinality(Hits(s, S)) + Cardinality(Hits(u, S))
<1> DEFINE P == Hits(s, S)
           Q == {k + Len(s) : k \in Hits(u, S)}
<1>1. /\ s \o u \in Seq(T) /\ Len(s \o u) = Len(s) + Len(u)
      /\ \A i \in 1 .. Len(s) + Len(u) :
           (s \o u)[i] = IF i <= Len(s) THEN s[i] ELSE u[i - Len(s)]
  BY ConcatProperties
<1>2. /\ Len(s) \in Nat /\ DOMAIN s = 1 .. Len(s)
      /\ Len(u) \in Nat /\ DOMAIN u = 1 .. Len(u)
      /\ DOMAIN (s \o u) = 1 .. Len(s) + Len(u)
  BY <1>1, LenProperties
<1>3. Hits(s \o u, S) = P \cup Q
  <2>1. ASSUME NEW k \in Hits(s \o u, S) PROVE k \in P \cup Q
    <3>1. k \in 1 .. Len(s) + Len(u) /\ (s \o u)[k] \in S
      BY <1>2, <2>1 DEF Hits
    <3>2. CASE k <= Len(s)
      BY <1>1, <1>2, <3>1, <3>2 DEF Hits
    <3>3. CASE k > Len(s)
      <4>1. k - Len(s) \in Hits(u, S)
        BY <1>1, <1>2, <3>1, <3>3 DEF Hits
      <4> QED BY <1>2, <3>1, <4>1
    <3> QED BY <1>2, <3>1, <3>2, <3>3
  <2>2. ASSUME NEW k \in P PROVE k \in Hits(s \o u, S)
    BY <1>1, <1>2, <2>2 DEF Hits
  <2>3. ASSUME NEW j \in Hits(u, S) PROVE j + Len(s) \in Hits(s \o u, S)
    BY <1>1, <1>2, <2>3 DEF Hits
  <2> QED BY <2>1, <2>2, <2>3
<1>4. P \cap Q = {}
  BY <1>2 DEF Hits
<1>5. IsFiniteSet(P) /\ IsFiniteSet(Hits(u, S))
  BY HitsAreFinite
<1>6. Hits(u, S) \in SUBSET Int /\ Len(s) \in Int
  BY <1>2 DEF Hits
<1> HIDE DEF P
<1>7. IsFiniteSet(Q) /\ Cardinality(Q) = Cardinality(Hits(u, S))
  BY <1>5, <1>6, ShiftedSet
<1> HIDE DEF Q
<1>8. Cardinality(P \cup Q) = Cardinality(P) + Cardinality(Q)
  BY <1>4, <1>5, <1>7, DisjointUnion
<1> QED BY <1>3, <1>7, <1>8 DEF P

(* The places in a sequence of one.                                        *)
LEMMA HitsOfOne ==
    ASSUME NEW x, NEW S
    PROVE  Cardinality(Hits(<<x>>, S)) = IF x \in S THEN 1 ELSE 0
<1>1. DOMAIN <<x>> = {1} /\ <<x>>[1] = x
  OBVIOUS
<1>2. Hits(<<x>>, S) = IF x \in S THEN {1} ELSE {}
  BY <1>1 DEF Hits
<1> QED BY <1>2, FS_Singleton, FS_EmptySet

(* The empty sequence has none.                                            *)
LEMMA HitsOfNone ==
    ASSUME NEW S
    PROVE  Cardinality(Hits(<<>>, S)) = 0
<1>1. Hits(<<>>, S) = {}
  BY DEF Hits
<1> QED BY <1>1, FS_EmptySet

(* The places in an Append.                                                *)
LEMMA HitsAppend ==
    ASSUME NEW T, NEW s \in Seq(T), NEW x \in T, NEW S
    PROVE  Cardinality(Hits(Append(s, x), S))
             = Cardinality(Hits(s, S)) + (IF x \in S THEN 1 ELSE 0)
<1>1. Append(s, x) = s \o <<x>> /\ <<x>> \in Seq(T)
  BY AppendIsConcat
<1>2. Cardinality(Hits(s \o <<x>>, S))
        = Cardinality(Hits(s, S)) + Cardinality(Hits(<<x>>, S))
  BY <1>1, HitsConcat
<1> QED BY <1>1, <1>2, HitsOfOne

(* The places in a sequence and in its tail.                               *)
LEMMA HitsTail ==
    ASSUME NEW T, NEW s \in Seq(T), s # <<>>, NEW S
    PROVE  Cardinality(Hits(s, S))
             = Cardinality(Hits(Tail(s), S)) + (IF Head(s) \in S THEN 1 ELSE 0)
<1>1. s = <<Head(s)>> \o Tail(s) /\ <<Head(s)>> \in Seq(T) /\ Tail(s) \in Seq(T)
  <2>1. /\ Head(s) \in T /\ Tail(s) \in Seq(T) /\ Len(Tail(s)) = Len(s) - 1
        /\ Len(s) \in Nat \ {0} /\ Head(s) = s[1]
        /\ \A i \in 1 .. Len(s) - 1 : Tail(s)[i] = s[i + 1]
    BY HeadTailProperties, EmptySeq
  <2>2. /\ <<Head(s)>> \in Seq(T) /\ Len(<<Head(s)>>) = 1 /\ <<Head(s)>>[1] = Head(s)
    BY <2>1
  <2>3. /\ <<Head(s)>> \o Tail(s) \in Seq(T) /\ Len(<<Head(s)>> \o Tail(s)) = Len(s)
        /\ \A i \in 1 .. Len(s) : (<<Head(s)>> \o Tail(s))[i]
              = IF i <= 1 THEN <<Head(s)>>[i] ELSE Tail(s)[i - 1]
    BY <2>1, <2>2, ConcatProperties
  <2>4. \A i \in 1 .. Len(s) : s[i] = (<<Head(s)>> \o Tail(s))[i]
    BY <2>1, <2>2, <2>3
  <2> QED BY <2>1, <2>2, <2>3, <2>4, SeqEqual
<1>2. Cardinality(Hits(<<Head(s)>> \o Tail(s), S))
        = Cardinality(Hits(<<Head(s)>>, S)) + Cardinality(Hits(Tail(s), S))
  BY <1>1, HitsConcat
<1>3. Cardinality(Hits(Tail(s), S)) \in Nat
  BY <1>1, HitsAreFinite
<1>4. Cardinality(Hits(<<Head(s)>>, S)) = IF Head(s) \in S THEN 1 ELSE 0
  BY HitsOfOne
<1>5. (IF Head(s) \in S THEN 1 ELSE 0) \in Nat
  OBVIOUS
<1>6. Cardinality(Hits(s, S)) = Cardinality(Hits(<<Head(s)>> \o Tail(s), S))
  BY <1>1, Zenon
<1> DEFINE h == Cardinality(Hits(<<Head(s)>>, S))
           t == Cardinality(Hits(Tail(s), S))
<1>7. Cardinality(Hits(s, S)) = h + t
  BY <1>2, <1>6, Zenon
<1>8. h \in Nat /\ t \in Nat
  BY <1>3, <1>4, <1>5, Zenon
<1> HIDE DEF h, t
<1>9. h + t = t + h
  BY <1>8
<1> QED BY <1>4, <1>7, <1>9, Zenon DEF h, t

(* The count is zero just when no value is in S.                           *)
LEMMA NoHit ==
    ASSUME NEW T, NEW s \in Seq(T), NEW S
    PROVE  Cardinality(Hits(s, S)) = 0 <=> \A k \in DOMAIN s : s[k] \notin S
<1>1. IsFiniteSet(Hits(s, S))
  BY HitsAreFinite
<1>2. Cardinality(Hits(s, S)) = 0 <=> Hits(s, S) = {}
  BY <1>1, FS_EmptySet
<1> QED BY <1>2 DEF Hits

(* What the assumption on the constants says.                              *)
LEMMA Limits ==
    /\ Capacity \in Nat /\ MaxRounds \in Nat /\ MaxCalls \in Nat /\ MaxStops \in Nat
    /\ Nobody \notin Ids /\ Turns \cap Supplements = {} /\ IsFiniteSet(Clients)
BY WorkerAssumption DEF Nobody, Ids

-----------------------------------------------------------------------------
(* How often a value occurs. *)
LEMMA OccursIsHits ==
    ASSUME NEW s, NEW x
    PROVE  Occurs(s, x) = Cardinality(Hits(s, {x}))
<1>1. {k \in DOMAIN s : s[k] = x} = Hits(s, {x})
  BY DEF Hits
<1> QED BY <1>1 DEF Occurs

(* How often a value occurs in a sequence, a concatenation, an Append.     *)
LEMMA OccursFacts ==
    ASSUME NEW T, NEW s \in Seq(T), NEW x
    PROVE  /\ Occurs(s, x) \in Nat /\ Occurs(<<>>, x) = 0
           /\ Occurs(s, x) > 0 <=> x \in ToSet(s)
           /\ \A u \in Seq(T) : Occurs(s \o u, x) = Occurs(s, x) + Occurs(u, x)
           /\ \A y \in T : Occurs(Append(s, y), x) = Occurs(s, x) + (IF y = x THEN 1 ELSE 0)
           /\ \A y : Occurs(<<y>>, x) = IF y = x THEN 1 ELSE 0
<1>1. Occurs(s, x) \in Nat /\ Occurs(<<>>, x) = 0
  BY OccursIsHits, HitsAreFinite, HitsOfNone
<1>2. Occurs(s, x) > 0 <=> x \in ToSet(s)
  <2>1. Occurs(s, x) = 0 <=> \A k \in DOMAIN s : s[k] \notin {x}
    BY OccursIsHits, NoHit
  <2>2. x \in ToSet(s) <=> \E k \in DOMAIN s : s[k] = x
    BY DEF ToSet
  <2> QED BY <1>1, <2>1, <2>2
<1>3. ASSUME NEW u \in Seq(T) PROVE Occurs(s \o u, x) = Occurs(s, x) + Occurs(u, x)
  BY OccursIsHits, HitsConcat, ZenonT(60)
<1>4. ASSUME NEW y \in T
      PROVE  Occurs(Append(s, y), x) = Occurs(s, x) + (IF y = x THEN 1 ELSE 0)
  <2>1. Cardinality(Hits(Append(s, y), {x}))
          = Cardinality(Hits(s, {x})) + (IF y \in {x} THEN 1 ELSE 0)
    BY <1>4, HitsAppend
  <2> QED BY <2>1, OccursIsHits
<1>5. ASSUME NEW y PROVE Occurs(<<y>>, x) = IF y = x THEN 1 ELSE 0
  BY OccursIsHits, HitsOfOne
<1> QED BY <1>1, <1>2, <1>3, <1>4, <1>5

(* Occurs of a concatenation is a sum.                                     *)
LEMMA OccursConcat ==
    ASSUME NEW T, NEW s \in Seq(T), NEW u \in Seq(T), NEW x
    PROVE  Occurs(s \o u, x) = Occurs(s, x) + Occurs(u, x)
BY OccursFacts

(* Occurs of an Append grows by one for the value appended.                *)
LEMMA OccursAppend ==
    ASSUME NEW T, NEW s \in Seq(T), NEW y \in T, NEW x
    PROVE  Occurs(Append(s, y), x) = Occurs(s, x) + (IF y = x THEN 1 ELSE 0)
BY OccursFacts

-----------------------------------------------------------------------------
(* The invariant. *)
Batches == {<<>>} \cup {<<s>> : s \in Supplements}
TurnOrNone == Turns \cup {Nobody}

ClientPcs == {"idle", "stamp", "open", "send", "flag", "mark", "raise", "last"}
BeforeStart == {"received", "check", "clear", "begin"}
InTurn == {"top", "drain", "model", "approval", "close", "finish"}
WorkerPcs == {"idle", "stopped", "cancelled"} \cup BeforeStart \cup InTurn
Ends == {"none", "answered", "failed", "cancelled"}

ClientType == [pc : ClientPcs, id : TurnOrNone, batch : Batches, gen : Nat]
CommandType == [id : TurnOrNone, batch : Batches, gen : Nat, cut : BOOLEAN, early : BOOLEAN]
WorkerType == [pc : WorkerPcs, id : TurnOrNone, batch : Batches, gen : Nat,
               cut : BOOLEAN, early : BOOLEAN, rounds : Nat, end : Ends]
TrackerType == [pending : SUBSET Ids, recent : Seq(Ids)]
MailboxType == [open : BOOLEAN, queue : Seq(Supplements), marker : BOOLEAN]
ToldType == [acked : Seq(Ids), started : [Turns -> Nat], ended : [Turns -> Nat]]

SharedType ==
    /\ tracker \in TrackerType
    /\ chan \in Seq(CommandType)
    /\ mailbox \in MailboxType
    /\ flag \in BOOLEAN /\ stops \in 0 .. MaxStops /\ closing \in BOOLEAN /\ compact \in BOOLEAN

ActorType ==
    /\ client \in [Clients -> ClientType]
    /\ worker \in WorkerType
    /\ told \in ToldType
    /\ taken \in [Ids -> Int] /\ strayed \subseteq Ids /\ calls \in Nat

ClientStage(x) ==
    /\ x.pc \in {"stamp", "open", "send"} <=> x.id \in Turns
    /\ x.id = Nobody => x.batch = <<>>
    /\ x.pc \in {"raise", "last"} => closing
    /\ x.gen <= stops

(* A command without an id is the shutdown. *)
CommandStage(m) ==
    /\ m.id = Nobody => m.batch = <<>> /\ closing
    /\ m.gen <= stops
    /\ m.cut => m.gen < stops

WorkerStage ==
    /\ worker.pc \in {"idle", "stopped"} <=> worker.id = Nobody /\ worker.pc # "received"
    /\ worker.id = Nobody => worker.batch = <<>>
    /\ worker.pc = "received" /\ worker.id = Nobody => closing
    /\ worker.pc = "stopped" => closing
    /\ worker.gen <= stops
    /\ worker.cut => worker.pc \in {"received", "check", "cancelled"} /\ worker.gen < stops

ClientStages == \A c \in Clients : ClientStage(client[c])
CommandStages == \A k \in DOMAIN chan : CommandStage(chan[k])

Stages == ClientStages /\ CommandStages /\ WorkerStage

(* What was acknowledged from the j-th acknowledgement on. *)
From(acked, j) == {acked[m] : m \in j .. Len(acked)}

Tracked(t, acked) ==
    /\ t \in TrackerType /\ IsFiniteSet(t.pending) /\ Cardinality(t.pending) <= Capacity
    /\ IsInjective(t.recent) /\ Len(t.recent) <= Capacity
    /\ t.pending \cap ToSet(t.recent) = {}
    /\ \A j \in DOMAIN acked :
         acked[j] \notin ToSet(t.recent) => Cardinality(From(acked, j)) > Capacity
    /\ \A j \in DOMAIN acked, p, q \in DOMAIN t.recent :
         acked[j] = t.recent[p] /\ p < q => t.recent[q] \in From(acked, j)
    /\ \A j, k \in DOMAIN acked :
         j < k /\ acked[j] = acked[k]
           => Cardinality({acked[m] : m \in (j + 1) .. k}) > Capacity

Pending(i) == IF i \in tracker.pending THEN 1 ELSE 0

CarriedOnce ==
    /\ \A i \in Ids : Carried(i) <= Pending(i)
    /\ ~mailbox.open => ToSet(mailbox.queue) \subseteq strayed

NothingIsLost ==
    ~ShuttingDown =>
      \A i \in Ids \ strayed :
        Carried(i) = Pending(i) /\ taken[i] = Carried(i) + Occurs(told.acked, i)

StaticInv == SharedType /\ ActorType /\ Stages /\ StartsAndEndsPair
IInv == StaticInv /\ Tracked(tracker, told.acked) /\ CarriedOnce /\ NothingIsLost

-----------------------------------------------------------------------------
(* The tracker. *)

(* What accept does to the tracker for one pending id.                     *)
LEMMA AcceptOneFields ==
    ASSUME NEW t \in TrackerType, NEW i \in t.pending, i \notin ToSet(t.recent)
    PROVE  LET r == Append(t.recent, i)
           IN  /\ AcceptOne(t, i) \in TrackerType
               /\ AcceptOne(t, i).pending = t.pending \ {i}
               /\ AcceptOne(t, i).recent = IF Len(r) > Capacity THEN Tail(r) ELSE r
               /\ r \in Seq(Ids) /\ Len(r) = Len(t.recent) + 1 /\ Len(t.recent) \in Nat
               /\ r[Len(r)] = i /\ \A p \in 1 .. Len(t.recent) : r[p] = t.recent[p]
<1> DEFINE r == Append(t.recent, i)
<1>1. t.pending \subseteq Ids /\ t.recent \in Seq(Ids) /\ i \in Ids
  BY DEF TrackerType
<1>2. /\ r \in Seq(Ids) /\ Len(r) = Len(t.recent) + 1 /\ Len(t.recent) \in Nat /\ r # <<>>
      /\ r[Len(r)] = i /\ \A p \in 1 .. Len(t.recent) : r[p] = t.recent[p]
  BY <1>1, AppendProperties, LenProperties
<1>3. AcceptOne(t, i) = [pending |-> t.pending \ {i},
                         recent  |-> IF Len(r) > Capacity THEN Tail(r) ELSE r]
  BY DEF AcceptOne
<1> HIDE DEF r
<1>4. Tail(r) \in Seq(Ids)
  BY <1>2, HeadTailProperties
<1>5. /\ AcceptOne(t, i) \in TrackerType
      /\ AcceptOne(t, i).pending = t.pending \ {i}
      /\ AcceptOne(t, i).recent = IF Len(r) > Capacity THEN Tail(r) ELSE r
  BY <1>1, <1>2, <1>3, <1>4 DEF TrackerType
<1> QED BY <1>2, <1>5, Zenon DEF r

(* accept keeps the type of the tracker, whatever the id.                  *)
LEMMA AcceptOneTyped ==
    ASSUME NEW t \in TrackerType, NEW i \in Ids
    PROVE  AcceptOne(t, i) \in TrackerType
<1> DEFINE r == IF i \in ToSet(t.recent) THEN t.recent ELSE Append(t.recent, i)
<1>1. t.pending \subseteq Ids /\ t.recent \in Seq(Ids)
  BY DEF TrackerType
<1>2. r \in Seq(Ids)
  BY <1>1, AppendProperties
<1>3. AcceptOne(t, i) = [pending |-> t.pending \ {i},
                         recent  |-> IF Len(r) > Capacity THEN Tail(r) ELSE r]
  BY DEF AcceptOne
<1> HIDE DEF r
<1>4. Len(r) > Capacity => Tail(r) \in Seq(Ids)
  <2>1. Len(r) > Capacity => r # <<>>
    BY Limits, EmptySeq
  <2> QED BY <1>2, <2>1, HeadTailProperties
<1> QED BY <1>1, <1>2, <1>3, <1>4 DEF TrackerType

(* The recursion in Accept has a solution, so that Accept is what its      *)
(* equation says.                                                          *)
Folding(f, t, ids, n) ==
    /\ f \in [0 .. n -> TrackerType] /\ f[0] = t
    /\ \A m \in 1 .. n : f[m] = AcceptOne(f[m - 1], ids[m])

(* accept of several ids is a fold of accept of one.                       *)
LEMMA AcceptFolds ==
    ASSUME NEW t \in TrackerType, NEW ids \in Seq(Ids)
    PROVE  \E f : Folding(f, t, ids, Len(ids)) /\ Accept(t, ids) = f[Len(ids)]
<1> DEFINE N == Len(ids)
           Fails == {n \in 0 .. N : ~\E f : Folding(f, t, ids, n)}
<1>1. N \in Nat /\ \A n \in 1 .. N : ids[n] \in Ids
  BY LenProperties, ElementOfSeq
<1>2. Fails = {}
  <2>1. SUFFICES ASSUME Fails # {} PROVE FALSE
    OBVIOUS
  <2>2. Fails \in SUBSET Nat
    BY <1>1
  <2>3. PICK n \in Fails : \A m \in Fails : n <= m
    BY <2>1, <2>2, LeastNat
  <2>4. n # 0
    <3>1. Folding([m \in 0 .. 0 |-> t], t, ids, 0)
      BY DEF Folding
    <3> QED BY <2>3, <3>1
  <2>5. n \in Nat /\ n <= N /\ n - 1 \in 0 .. N /\ n - 1 \notin Fails
    BY <1>1, <2>3, <2>4
  <2>6. PICK f : Folding(f, t, ids, n - 1)
    BY <2>5
  <2> DEFINE g == [m \in 0 .. n |-> IF m = n THEN AcceptOne(f[n - 1], ids[n]) ELSE f[m]]
  <2>7. AcceptOne(f[n - 1], ids[n]) \in TrackerType
    BY <1>1, <2>4, <2>5, <2>6, AcceptOneTyped DEF Folding
  <2>8. g \in [0 .. n -> TrackerType] /\ g[0] = t
    BY <2>4, <2>5, <2>6, <2>7 DEF Folding
  <2>9. ASSUME NEW m \in 1 .. n PROVE g[m] = AcceptOne(g[m - 1], ids[m])
    <3>1. CASE m = n
      BY <2>4, <2>5, <3>1
    <3>2. CASE m # n
      <4>1. m \in 1 .. n - 1 /\ m - 1 \in 0 .. n /\ m \in 0 .. n /\ m - 1 # n
        BY <2>5, <3>2
      <4>2. f[m] = AcceptOne(f[m - 1], ids[m])
        BY <2>6, <4>1 DEF Folding
      <4> QED BY <3>2, <4>1, <4>2
    <3> QED BY <3>1, <3>2
  <2>10. Folding(g, t, ids, n)
    BY <2>8, <2>9 DEF Folding
  <2> QED BY <2>3, <2>10
<1>3. PICK f : Folding(f, t, ids, N)
  BY <1>1, <1>2
<1> DEFINE Solves(h) == h = [n \in 0 .. N |-> IF n = 0 THEN t ELSE AcceptOne(h[n - 1], ids[n])]
           after == CHOOSE h : Solves(h)
<1>4. Solves(f)
  BY <1>1, <1>3 DEF Folding
<1>5. Solves(after)
  BY <1>4, Zenon
<1>6. Accept(t, ids) = after[N]
  BY DEF Accept
<1> HIDE DEF after
<1>7. after[0] = t /\ \A m \in 1 .. N : after[m] = AcceptOne(after[m - 1], ids[m])
  BY <1>1, <1>5
<1>8. ASSUME NEW n \in 0 .. N PROVE after[n] = f[n]
  <2> DEFINE Apart == {m \in 0 .. N : after[m] # f[m]}
  <2>1. SUFFICES ASSUME Apart # {} PROVE FALSE
    OBVIOUS
  <2>2. Apart \in SUBSET Nat
    BY <1>1
  <2>3. PICK m \in Apart : \A k \in Apart : m <= k
    BY <2>1, <2>2, LeastNat
  <2>4. m # 0
    BY <1>3, <1>7, <2>3 DEF Folding
  <2>5. m \in 1 .. N /\ m - 1 \in 0 .. N /\ m - 1 \notin Apart
    BY <1>1, <2>3, <2>4
  <2> QED BY <1>3, <1>7, <2>3, <2>5 DEF Folding
<1> QED BY <1>1, <1>3, <1>6, <1>8

(* One more acknowledgement, and what was acknowledged from each on.       *)
LEMMA FromGrows ==
    ASSUME NEW a \in Seq(Ids), NEW i \in Ids
    PROVE  /\ \A j \in DOMAIN a : From(Append(a, i), j) = From(a, j) \cup {i}
           /\ From(Append(a, i), Len(a) + 1) = {i}
           /\ \A j \in DOMAIN a : IsFiniteSet(From(a, j)) /\ a[j] \in From(a, j)
           /\ \A j, k \in DOMAIN a : {Append(a, i)[m] : m \in (j + 1) .. k}
                                       = {a[m] : m \in (j + 1) .. k}
<1> DEFINE b == Append(a, i)
           N == Len(a)
<1>1. /\ N \in Nat /\ DOMAIN a = 1 .. N /\ Len(b) = N + 1
      /\ b[N + 1] = i /\ \A m \in 1 .. N : b[m] = a[m]
  BY LenProperties, AppendProperties
<1> HIDE DEF b, N
<1>2. ASSUME NEW j \in 1 .. N PROVE {b[m] : m \in j .. N + 1} = {a[m] : m \in j .. N} \cup {i}
  <2>1. j .. N + 1 = (j .. N) \cup {N + 1} /\ \A m \in j .. N : b[m] = a[m]
    BY <1>1
  <2> QED BY <1>1, <2>1
<1>3. {b[m] : m \in N + 1 .. N + 1} = {i}
  BY <1>1
<1>4. ASSUME NEW j \in 1 .. N PROVE IsFiniteSet({a[m] : m \in j .. N}) /\ a[j] \in {a[m] : m \in j .. N}
  <2>1. IsFiniteSet(j .. N)
    BY <1>1, FS_Interval
  <2> DEFINE f == [m \in j .. N |-> a[m]]
  <2>2. f \in Surjection(j .. N, {a[m] : m \in j .. N})
    BY DEF Surjection
  <2>3. IsFiniteSet({a[m] : m \in j .. N})
    BY <2>1, <2>2, FS_Surjection
  <2> QED BY <1>1, <2>3
<1>5. ASSUME NEW j \in 1 .. N, NEW k \in 1 .. N
      PROVE  {b[m] : m \in (j + 1) .. k} = {a[m] : m \in (j + 1) .. k}
  <2>1. \A m \in (j + 1) .. k : b[m] = a[m]
    BY <1>1
  <2> QED BY <2>1
<1> QED BY <1>1, <1>2, <1>3, <1>4, <1>5 DEF From, b, N

(* A sequence without repetition has as many values as places.             *)
LEMMA InjectiveCardinality ==
    ASSUME NEW T, NEW s \in Seq(T), IsInjective(s)
    PROVE  IsFiniteSet(ToSet(s)) /\ Cardinality(ToSet(s)) = Len(s)
<1>1. Len(s) \in Nat /\ DOMAIN s = 1 .. Len(s) /\ s \in [1 .. Len(s) -> T]
  BY LenProperties
<1>2. IsFiniteSet(1 .. Len(s)) /\ Cardinality(1 .. Len(s)) = Len(s)
  BY <1>1, FS_Interval, SMTT(30)
<1>3. s \in Bijection(1 .. Len(s), ToSet(s))
  BY <1>1 DEF Bijection, Injection, Surjection, IsInjective, ToSet
<1>4. ExistsBijection(1 .. Len(s), ToSet(s))
  BY <1>3 DEF ExistsBijection
<1> QED BY <1>2, <1>4, FS_Bijection

(* Accepting a pending id keeps the tracker as it should be: the id that   *)
(* is pushed out has been followed by as many others as the tracker holds. *)
LEMMA AcceptOneKeeps ==
    ASSUME NEW t, NEW a \in Seq(Ids), Tracked(t, a), NEW i \in t.pending
    PROVE  /\ Tracked(AcceptOne(t, i), Append(a, i))
           /\ AcceptOne(t, i).pending = t.pending \ {i}
<1> DEFINE r == Append(t.recent, i)
           u == AcceptOne(t, i)
           b == Append(a, i)
           L == Len(t.recent)
           N == Len(a)
<1>1. /\ t \in TrackerType /\ i \notin ToSet(t.recent) /\ i \in Ids
      /\ t.recent \in Seq(Ids) /\ IsFiniteSet(t.pending) /\ Cardinality(t.pending) <= Capacity
      /\ L <= Capacity /\ t.pending \cap ToSet(t.recent) = {}
  BY DEF Tracked, TrackerType
<1>2. /\ u \in TrackerType /\ u.pending = t.pending \ {i}
      /\ u.recent = IF Len(r) > Capacity THEN Tail(r) ELSE r
      /\ r \in Seq(Ids) /\ Len(r) = L + 1 /\ L \in Nat
      /\ r[Len(r)] = i /\ \A p \in 1 .. L : r[p] = t.recent[p]
  BY <1>1, AcceptOneFields
<1>3. DOMAIN r = 1 .. L + 1 /\ DOMAIN t.recent = 1 .. L
  BY <1>1, <1>2, LenProperties
<1>4. /\ N \in Nat /\ DOMAIN a = 1 .. N /\ b \in Seq(Ids) /\ DOMAIN b = 1 .. N + 1
      /\ b[N + 1] = i /\ \A m \in 1 .. N : b[m] = a[m]
  <2>1. b \in Seq(Ids) /\ Len(b) = N + 1 /\ b[N + 1] = i /\ \A m \in 1 .. N : b[m] = a[m]
    BY <1>1, AppendProperties
  <2> QED BY <2>1, LenProperties
<1>5. /\ \A j \in DOMAIN a : From(b, j) = From(a, j) \cup {i}
      /\ From(b, N + 1) = {i}
      /\ \A j \in DOMAIN a : IsFiniteSet(From(a, j)) /\ a[j] \in From(a, j)
      /\ \A j, k \in DOMAIN a : {b[m] : m \in (j + 1) .. k} = {a[m] : m \in (j + 1) .. k}
  BY <1>1, FromGrows
<1>6. /\ IsInjective(t.recent)
      /\ \A j \in DOMAIN a : a[j] \notin ToSet(t.recent) => Cardinality(From(a, j)) > Capacity
      /\ \A j \in DOMAIN a, p, q \in DOMAIN t.recent :
           a[j] = t.recent[p] /\ p < q => t.recent[q] \in From(a, j)
      /\ \A j, k \in DOMAIN a :
           j < k /\ a[j] = a[k] => Cardinality({a[m] : m \in (j + 1) .. k}) > Capacity
  BY DEF Tracked
<1>7. /\ ToSet(t.recent) = {t.recent[p] : p \in 1 .. L}
      /\ ToSet(r) = {r[p] : p \in 1 .. L + 1} /\ ToSet(r) = ToSet(t.recent) \cup {i}
  BY <1>2, <1>3 DEF ToSet
<1>8. Capacity \in Nat
  BY Limits
<1> HIDE DEF r, u, b, L, N
(* Before the oldest is pushed out *)
<1>11. IsInjective(r)
  BY <1>1, <1>2, <1>3, <1>6, <1>7 DEF IsInjective
<1>12. ASSUME NEW j \in DOMAIN b, NEW p \in DOMAIN r, NEW q \in DOMAIN r, b[j] = r[p], p < q
       PROVE  r[q] \in From(b, j)
  <2>1. CASE j = N + 1
    <3>1. r[p] = r[L + 1] /\ p # L + 1
      BY <1>2, <1>3, <1>4, <1>12, <2>1
    <3> QED BY <1>2, <1>3, <1>11, <3>1 DEF IsInjective
  <2>2. CASE j # N + 1 /\ q = L + 1
    BY <1>2, <1>4, <1>5, <2>2
  <2>3. CASE j # N + 1 /\ q # L + 1
    <3>1. /\ j \in DOMAIN a /\ p \in DOMAIN t.recent /\ q \in DOMAIN t.recent
          /\ a[j] = t.recent[p] /\ r[q] = t.recent[q]
      BY <1>2, <1>3, <1>4, <1>12, <2>3
    <3> QED BY <1>5, <1>6, <1>12, <3>1
  <2> QED BY <2>1, <2>2, <2>3
<1>13. ASSUME NEW j \in DOMAIN b PROVE IsFiniteSet(From(b, j)) /\ b[j] \in From(b, j)
  <2>1. CASE j = N + 1
    <3>1. b[j] = i /\ From(b, j) = {i}
      BY <1>4, <1>5, <2>1
    <3>2. IsFiniteSet({i})
      BY FS_Singleton
    <3> QED BY <3>1, <3>2
  <2>2. CASE j # N + 1
    <3>1. j \in DOMAIN a /\ From(b, j) = From(a, j) \cup {i} /\ b[j] = a[j]
      BY <1>4, <1>5, <2>2
    <3> QED BY <1>5, <3>1, FS_AddElement
  <2> QED BY <2>1, <2>2
<1>14. ASSUME NEW j \in DOMAIN b, b[j] \notin ToSet(r) PROVE Cardinality(From(b, j)) > Capacity
  <2>1. j \in DOMAIN a /\ From(b, j) = From(a, j) \cup {i} /\ a[j] \notin ToSet(t.recent)
    <3>1. b[j] # i /\ b[j] \notin ToSet(t.recent)
      BY <1>7, <1>14
    <3>2. j \in DOMAIN a /\ b[j] = a[j]
      BY <1>4, <3>1
    <3> QED BY <1>5, <3>1, <3>2
  <2>2. Cardinality(From(a, j)) > Capacity /\ IsFiniteSet(From(a, j))
    BY <1>5, <1>6, <2>1
  <2>3. Cardinality(From(a, j)) \in Nat
    BY <2>2, FS_CardinalityType
  <2>4. Cardinality(From(b, j)) >= Cardinality(From(a, j))
    <3>1. Cardinality(From(b, j)) = IF i \in From(a, j) THEN Cardinality(From(a, j))
                                                        ELSE Cardinality(From(a, j)) + 1
      BY <2>1, <2>2, FS_AddElement
    <3> QED BY <2>3, <3>1
  <2>5. Cardinality(From(b, j)) \in Nat
    BY <1>13, FS_CardinalityType
  <2> QED BY <1>8, <2>2, <2>3, <2>4, <2>5
(* The id that is accepted again was pushed out before. *)
<1>15. ASSUME NEW j \in DOMAIN b, NEW k \in DOMAIN b, j < k, b[j] = b[k]
       PROVE  Cardinality({b[m] : m \in (j + 1) .. k}) > Capacity
  <2>1. CASE k = N + 1
    <3>1. j \in DOMAIN a /\ a[j] = i
      BY <1>4, <1>15, <2>1
    <3>2. {b[m] : m \in (j + 1) .. k} = From(a, j)
      <4>1. From(a, j) = {a[m] : m \in j .. N}
        BY DEF From, N
      <4>2. ASSUME NEW m \in j .. N PROVE a[m] \in {b[n] : n \in (j + 1) .. k}
        <5>1. CASE m = j
          BY <1>4, <2>1, <3>1, <5>1
        <5>2. CASE m # j
          <6>1. m \in (j + 1) .. k /\ b[m] = a[m]
            BY <1>4, <2>1, <3>1, <5>2
          <6> QED BY <6>1
        <5> QED BY <5>1, <5>2
      <4>3. ASSUME NEW m \in (j + 1) .. k PROVE b[m] \in {a[n] : n \in j .. N}
        <5>1. CASE m = N + 1
          BY <1>4, <3>1, <5>1
        <5>2. CASE m # N + 1
          BY <1>4, <2>1, <3>1, <5>2
        <5> QED BY <5>1, <5>2
      <4> QED BY <4>1, <4>2, <4>3
    <3> QED BY <1>1, <1>6, <3>1, <3>2
  <2>2. CASE k # N + 1
    <3>1. j \in DOMAIN a /\ k \in DOMAIN a /\ a[j] = a[k]
      BY <1>4, <1>15, <2>2
    <3> QED BY <1>5, <1>6, <1>15, <3>1
  <2> QED BY <2>1, <2>2
<1>16. IsFiniteSet(u.pending) /\ Cardinality(u.pending) <= Capacity
  <2>1. IsFiniteSet(u.pending) /\ Cardinality(u.pending) = Cardinality(t.pending) - 1
    BY <1>1, <1>2, FS_RemoveElement
  <2>2. Cardinality(t.pending) \in Nat
    BY <1>1, FS_CardinalityType
  <2> QED BY <1>1, <1>8, <2>1, <2>2
<1>17. CASE ~(Len(r) > Capacity)
  <2>1. u.recent = r /\ Len(r) <= Capacity
    BY <1>2, <1>8, <1>17
  <2>2. u.pending \cap ToSet(u.recent) = {}
    BY <1>1, <1>2, <1>7, <2>1
  <2>3. Tracked(u, b)
    BY <1>2, <1>11, <1>12, <1>14, <1>15, <1>16, <2>1, <2>2 DEF Tracked
  <2> QED BY <1>2, <2>3 DEF u, b
<1>18. CASE Len(r) > Capacity
  <2> DEFINE s == Tail(r)
  <2>1. u.recent = s /\ Len(r) = Capacity + 1 /\ r # <<>> /\ L = Capacity
    BY <1>1, <1>2, <1>8, <1>18, EmptySeq
  <2>2. s \in Seq(Ids) /\ Len(s) = L /\ \A p \in 1 .. L : s[p] = r[p + 1]
    BY <1>2, <2>1, HeadTailProperties
  <2>3. DOMAIN s = 1 .. L
    BY <2>2, LenProperties
  <2> HIDE DEF s
  <2>4. IsInjective(s)
    <3>1. SUFFICES ASSUME NEW p \in 1 .. L, NEW q \in 1 .. L, s[p] = s[q] PROVE p = q
      BY <2>3 DEF IsInjective
    <3>2. p + 1 \in DOMAIN r /\ q + 1 \in DOMAIN r /\ r[p + 1] = r[q + 1]
      BY <1>2, <1>3, <2>2, <3>1
    <3>3. p + 1 = q + 1
      BY <1>11, <3>2 DEF IsInjective
    <3> QED BY <1>2, <3>1, <3>3
  <2>5. ToSet(s) \subseteq ToSet(r) /\ ToSet(r) \subseteq ToSet(s) \cup {r[1]}
    <3>1. ToSet(s) = {s[p] : p \in 1 .. L}
      BY <2>3 DEF ToSet
    <3>2. ASSUME NEW p \in 1 .. L + 1 PROVE r[p] \in ToSet(s) \cup {r[1]}
      <4>1. CASE p = 1
        BY <4>1
      <4>2. CASE p # 1
        <5>1. p - 1 \in 1 .. L /\ s[p - 1] = r[p]
          BY <1>2, <2>2, <4>2
        <5> QED BY <3>1, <5>1
      <4> QED BY <4>1, <4>2
    <3>3. ASSUME NEW p \in 1 .. L PROVE s[p] \in ToSet(r)
      BY <1>2, <1>7, <2>2
    <3> QED BY <1>7, <3>1, <3>2, <3>3
  <2>6. u.pending \cap ToSet(s) = {}
    BY <1>1, <1>2, <1>7, <2>5
  <2>7. ASSUME NEW j \in DOMAIN b, b[j] \notin ToSet(s) PROVE Cardinality(From(b, j)) > Capacity
    <3>1. CASE b[j] \notin ToSet(r)
      BY <1>14, <3>1
    <3>2. CASE b[j] \in ToSet(r)
      <4>1. b[j] = r[1]
        BY <2>5, <2>7, <3>2
      <4>2. ASSUME NEW q \in 1 .. L + 1 PROVE r[q] \in From(b, j)
        <5>1. CASE q = 1
          BY <1>13, <4>1, <5>1
        <5>2. CASE q # 1
          <6>1. 1 \in DOMAIN r /\ q \in DOMAIN r /\ 1 < q
            BY <1>2, <1>3, <5>2
          <6> QED BY <1>12, <4>1, <6>1
        <5> QED BY <5>1, <5>2
      <4>3. ToSet(r) \subseteq From(b, j)
        BY <1>7, <4>2
      <4>4. IsFiniteSet(ToSet(r)) /\ Cardinality(ToSet(r)) = Capacity + 1
        BY <1>2, <1>11, <2>1, InjectiveCardinality
      <4>5. IsFiniteSet(From(b, j))
        BY <1>13
      <4>6. Cardinality(ToSet(r)) <= Cardinality(From(b, j)) /\ Cardinality(From(b, j)) \in Nat
        BY <4>3, <4>5, FS_Subset, FS_CardinalityType
      <4> QED BY <1>8, <4>4, <4>6
    <3> QED BY <3>1, <3>2
  <2>8. ASSUME NEW j \in DOMAIN b, NEW p \in DOMAIN s, NEW q \in DOMAIN s, b[j] = s[p], p < q
        PROVE  s[q] \in From(b, j)
    <3>1. /\ p + 1 \in DOMAIN r /\ q + 1 \in DOMAIN r /\ p + 1 < q + 1
          /\ s[p] = r[p + 1] /\ s[q] = r[q + 1]
      BY <1>2, <1>3, <2>2, <2>3, <2>8
    <3> QED BY <1>12, <2>8, <3>1
  <2>9. Len(s) <= Capacity
    BY <1>8, <2>1, <2>2
  <2>10. Tracked(u, b)
    BY <1>2, <1>15, <1>16, <2>1, <2>4, <2>6, <2>7, <2>8, <2>9 DEF Tracked
  <2> QED BY <1>2, <2>10 DEF u, b
<1> QED BY <1>17, <1>18

(* accept of several ids keeps the type of the tracker.                    *)
LEMMA AcceptTyped ==
    ASSUME NEW t \in TrackerType, NEW ids \in Seq(Ids)
    PROVE  Accept(t, ids) \in TrackerType
<1>1. PICK f : Folding(f, t, ids, Len(ids)) /\ Accept(t, ids) = f[Len(ids)]
  BY AcceptFolds
<1>2. Len(ids) \in 0 .. Len(ids)
  BY LenProperties
<1> QED BY <1>1, <1>2 DEF Folding

(* Accepting several pending ids keeps the tracker as it should be.        *)
LEMMA AcceptKeeps ==
    ASSUME NEW t, NEW a \in Seq(Ids), Tracked(t, a),
           NEW ids \in Seq(Ids), IsInjective(ids), ToSet(ids) \subseteq t.pending
    PROVE  /\ Tracked(Accept(t, ids), a \o ids)
           /\ Accept(t, ids).pending = t.pending \ ToSet(ids)
<1> DEFINE N == Len(ids)
           Upto(n) == a \o SubSeq(ids, 1, n)
           Taken(n) == {ids[m] : m \in 1 .. n}
<1>1. t \in TrackerType
  BY DEF Tracked
<1>2. PICK f : Folding(f, t, ids, N) /\ Accept(t, ids) = f[N]
  BY <1>1, AcceptFolds
<1>3. /\ N \in Nat /\ DOMAIN ids = 1 .. N /\ \A n \in 1 .. N : ids[n] \in Ids
  BY LenProperties, ElementOfSeq
<1> DEFINE Good(n) == Tracked(f[n], Upto(n)) /\ f[n].pending = t.pending \ Taken(n)
<1>4. Good(0)
  <2>1. SubSeq(ids, 1, 0) = <<>>
    BY SubSeqEmpty
  <2>2. Upto(0) = a
    BY <2>1, ConcatEmptySeq
  <2>3. Taken(0) = {} /\ f[0] = t
    BY <1>2 DEF Folding
  <2> QED BY <2>2, <2>3
<1>5. ASSUME NEW n \in 1 .. N, Good(n - 1) PROVE Good(n)
  <2>1. ids[n] \in Ids /\ n - 1 \in Nat /\ n \in Nat
    BY <1>3
  <2>2. Upto(n) = Append(Upto(n - 1), ids[n]) /\ Upto(n - 1) \in Seq(Ids)
    <3>1. SubSeq(ids, 1, n) = SubSeq(ids, 1, n - 1) \o <<ids[n]>>
      BY <1>3, SubSeqRecursiveSecond
    <3>2. SubSeq(ids, 1, n - 1) \in Seq(Ids)
      BY <1>3, SubSeqProperties
    <3>3. <<ids[n]>> \in Seq(Ids)
      BY <2>1
    <3>4. a \o (SubSeq(ids, 1, n - 1) \o <<ids[n]>>) = Upto(n - 1) \o <<ids[n]>>
      BY <3>2, <3>3, ConcatAssociative, SMTT(30)
    <3>5. Upto(n - 1) \in Seq(Ids)
      BY <3>2, ConcatProperties
    <3> HIDE DEF Upto
    <3>6. Append(Upto(n - 1), ids[n]) = Upto(n - 1) \o <<ids[n]>>
      BY <2>1, <3>5, AppendIsConcat
    <3> QED BY <3>1, <3>4, <3>5, <3>6 DEF Upto
  <2>3. ids[n] \notin Taken(n - 1) /\ Taken(n) = Taken(n - 1) \cup {ids[n]}
    <3>1. \A m \in 1 .. n - 1 : ids[m] # ids[n]
      BY <1>3 DEF IsInjective
    <3>2. 1 .. n = (1 .. n - 1) \cup {n}
      BY <1>3
    <3> QED BY <3>1, <3>2
  <2>4. ids[n] \in f[n - 1].pending
    <3>1. ids[n] \in ToSet(ids)
      BY <1>3 DEF ToSet
    <3> QED BY <1>5, <2>3, <3>1
  <2>5. f[n] = AcceptOne(f[n - 1], ids[n])
    BY <1>2 DEF Folding
  <2> HIDE DEF Upto, Taken
  <2>6. /\ Tracked(f[n], Append(Upto(n - 1), ids[n]))
        /\ f[n].pending = f[n - 1].pending \ {ids[n]}
    BY <1>5, <2>2, <2>4, <2>5, AcceptOneKeeps, SMTT(30)
  <2> QED BY <1>5, <2>2, <2>3, <2>6
<1> HIDE DEF Good
<1>6. Good(N)
  <2> DEFINE Bad == {n \in 0 .. N : ~Good(n)}
  <2>1. SUFFICES ASSUME Bad # {} PROVE FALSE
    BY <1>3
  <2>2. Bad \in SUBSET Nat
    BY <1>3
  <2>3. PICK n \in Bad : \A m \in Bad : n <= m
    BY <2>1, <2>2, LeastNat
  <2>4. n # 0
    BY <1>4, <2>3
  <2>5. n \in 1 .. N /\ n - 1 \in 0 .. N /\ n - 1 \notin Bad
    BY <1>3, <2>3, <2>4
  <2> QED BY <1>5, <2>3, <2>5
<1>7. Taken(N) = ToSet(ids)
  BY <1>3 DEF ToSet
<1>8. Upto(N) = a \o ids
  BY SubSeqFull
<1> QED BY <1>2, <1>6, <1>7, <1>8 DEF Good

-----------------------------------------------------------------------------
(* What the operators build. *)

(* A batch is a sequence of supplements without repetition.                *)
LEMMA BatchFacts ==
    ASSUME NEW b \in Batches
    PROVE  /\ b \in Seq(Supplements) /\ b \in Seq(Ids)
           /\ ToSet(b) \subseteq Supplements /\ IsInjective(b) /\ IsFiniteSet(ToSet(b))
           /\ b = <<>> => ToSet(b) = {}
<1>1. CASE b = <<>>
  <2>1. ToSet(b) = {}
    BY <1>1 DEF ToSet
  <2> QED BY <1>1, <2>1, FS_EmptySet DEF IsInjective
<1>2. CASE \E s \in Supplements : b = <<s>>
  <2>1. PICK s \in Supplements : b = <<s>>
    BY <1>2
  <2>2. ToSet(b) = {s}
    BY <2>1 DEF ToSet
  <2>3. IsFiniteSet({s})
    BY FS_Singleton
  <2> QED BY <2>1, <2>2, <2>3 DEF IsInjective, Ids
<1> QED BY <1>1, <1>2 DEF Batches

(* Closing, emptying and opening the mailbox.                              *)
LEMMA MailboxFacts ==
    ASSUME NEW m \in MailboxType
    PROVE  /\ Closed \in MailboxType /\ Closed.queue = <<>> /\ ~Closed.open
           /\ Emptied(m) \in MailboxType /\ Emptied(m).queue = <<>> /\ Emptied(m).open = m.open
           /\ Opened(m) \in MailboxType /\ Opened(m).open
           /\ Opened(m).queue = IF m.open THEN m.queue ELSE <<>>
<1>1. Closed \in MailboxType /\ Closed.queue = <<>> /\ ~Closed.open
  BY DEF Closed, MailboxType
<1>2. Emptied(m) \in MailboxType /\ Emptied(m).queue = <<>> /\ Emptied(m).open = m.open
  BY DEF Emptied, MailboxType
<1>3. /\ Opened(m) \in MailboxType /\ Opened(m).open
      /\ Opened(m).queue = IF m.open THEN m.queue ELSE <<>>
  BY DEF Opened, Closed, MailboxType
<1> QED BY <1>1, <1>2, <1>3

(* What each event adds to what the Host was told.                         *)
LEMMA ToldFacts ==
    ASSUME NEW n \in ToldType, NEW ids \in Seq(Ids), NEW t \in Turns
    PROVE  /\ TellAcked(n, ids) \in ToldType /\ TellAcked(n, ids).acked = n.acked \o ids
           /\ TellAcked(n, ids).started = n.started /\ TellAcked(n, ids).ended = n.ended
           /\ TellStarted(n, t) \in ToldType /\ TellStarted(n, t).acked = n.acked
           /\ TellStarted(n, t).ended = n.ended
           /\ TellStarted(n, t).started = [n.started EXCEPT ![t] = @ + 1]
           /\ TellEnded(n, t) \in ToldType /\ TellEnded(n, t).acked = n.acked
           /\ TellEnded(n, t).started = n.started
           /\ TellEnded(n, t).ended = [n.ended EXCEPT ![t] = @ + 1]
<1>1. n.acked \o ids \in Seq(Ids)
  BY ConcatProperties DEF ToldType
<1>2. /\ TellAcked(n, ids) \in ToldType /\ TellAcked(n, ids).acked = n.acked \o ids
      /\ TellAcked(n, ids).started = n.started /\ TellAcked(n, ids).ended = n.ended
  BY <1>1 DEF TellAcked, ToldType
<1>3. [n.started EXCEPT ![t] = @ + 1] \in [Turns -> Nat]
  BY DEF ToldType
<1>4. /\ TellStarted(n, t) \in ToldType /\ TellStarted(n, t).acked = n.acked
      /\ TellStarted(n, t).ended = n.ended
      /\ TellStarted(n, t).started = [n.started EXCEPT ![t] = @ + 1]
  BY <1>3 DEF TellStarted, ToldType
<1>5. [n.ended EXCEPT ![t] = @ + 1] \in [Turns -> Nat]
  BY DEF ToldType
<1>6. /\ TellEnded(n, t) \in ToldType /\ TellEnded(n, t).acked = n.acked
      /\ TellEnded(n, t).started = n.started
      /\ TellEnded(n, t).ended = [n.ended EXCEPT ![t] = @ + 1]
  BY <1>5 DEF TellEnded, ToldType
<1> QED BY <1>2, <1>4, <1>6

(* What a turn's events add to the acknowledgements.                       *)
LEMMA AckedFacts ==
    ASSUME NEW n \in ToldType, NEW ids \in Seq(Ids), NEW t \in Turns
    PROVE  /\ TellStarted(TellAcked(n, ids), t).acked = n.acked \o ids
           /\ TellEnded(n, t).acked = n.acked
<1>1. TellAcked(n, ids) \in ToldType /\ TellAcked(n, ids).acked = n.acked \o ids
  BY ToldFacts
<1>2. TellStarted(TellAcked(n, ids), t).acked = TellAcked(n, ids).acked
  BY <1>1, ToldFacts
<1>3. TellEnded(n, t).acked = n.acked
  BY DEF TellEnded, ToldType
<1> QED BY <1>1, <1>2, <1>3

(* The fields of a command as it is sent and as it is received.            *)
LEMMA CommandFacts ==
    /\ \A i \in TurnOrNone, b \in Batches, g \in Nat :
         /\ Command(i, b, g) \in CommandType
         /\ Command(i, b, g).id = i /\ Command(i, b, g).batch = b
         /\ Command(i, b, g).gen = g /\ Command(i, b, g).cut = FALSE
    /\ \A m \in CommandType :
         /\ Received(m) \in WorkerType /\ Received(m).pc = "received"
         /\ Received(m).id = m.id /\ Received(m).batch = m.batch
         /\ Received(m).gen = m.gen /\ Received(m).cut = m.cut
<1>1. ASSUME NEW i \in TurnOrNone, NEW b \in Batches, NEW g \in Nat
      PROVE  /\ Command(i, b, g) \in CommandType
             /\ Command(i, b, g).id = i /\ Command(i, b, g).batch = b
             /\ Command(i, b, g).gen = g /\ Command(i, b, g).cut = FALSE
  BY DEF Command, CommandType
<1>2. ASSUME NEW m \in CommandType
      PROVE  /\ Received(m) \in WorkerType /\ Received(m).pc = "received"
             /\ Received(m).id = m.id /\ Received(m).batch = m.batch
             /\ Received(m).gen = m.gen /\ Received(m).cut = m.cut
  <2>1. /\ m.id \in TurnOrNone /\ m.batch \in Batches /\ m.gen \in Nat
        /\ m.cut \in BOOLEAN /\ m.early \in BOOLEAN
    BY DEF CommandType
  <2>2. "received" \in WorkerPcs /\ "none" \in Ends
    BY DEF WorkerPcs, BeforeStart, Ends
  <2> QED BY <2>1, <2>2 DEF Received, WorkerType
<1> QED BY <1>1, <1>2

(* A client and a worker at rest have their types.                         *)
LEMMA IdleFacts ==
    /\ IdleClient \in ClientType /\ IdleWorker \in WorkerType
    /\ [IdleWorker EXCEPT !.pc = "stopped"] \in WorkerType
    /\ IdleClient.id = Nobody /\ IdleClient.batch = <<>> /\ IdleClient.pc = "idle"
    /\ IdleClient.gen = 0
<1>1. <<>> \in Batches /\ Nobody \in TurnOrNone /\ "idle" \in ClientPcs
      /\ {"idle", "stopped"} \subseteq WorkerPcs /\ "none" \in Ends
  BY DEF Batches, TurnOrNone, ClientPcs, WorkerPcs, Ends
<1>2. IdleClient \in ClientType
  BY <1>1 DEF IdleClient, ClientType
<1>3. IdleWorker \in WorkerType /\ [IdleWorker EXCEPT !.pc = "stopped"] \in WorkerType
  BY <1>1 DEF IdleWorker, WorkerType
<1> QED BY <1>2, <1>3 DEF IdleClient

(* Marking the commands of the channel changes only the marks.             *)
LEMMA MarkedFacts ==
    ASSUME NEW s \in Seq(CommandType)
    PROVE  LET u == MarkCut(s)
               v == MarkEarly(s)
           IN  /\ u \in Seq(CommandType) /\ DOMAIN u = DOMAIN s
               /\ \A k \in DOMAIN s : /\ u[k].id = s[k].id /\ u[k].batch = s[k].batch
                                      /\ u[k].gen = s[k].gen
               /\ v \in Seq(CommandType) /\ DOMAIN v = DOMAIN s
               /\ \A k \in DOMAIN s : /\ v[k].id = s[k].id /\ v[k].batch = s[k].batch
                                      /\ v[k].gen = s[k].gen /\ v[k].cut = s[k].cut
<1> DEFINE u == MarkCut(s)
           v == MarkEarly(s)
<1>0. /\ u = [k \in DOMAIN s |-> [s[k] EXCEPT !.cut = TRUE]]
      /\ v = [k \in DOMAIN s |-> [s[k] EXCEPT !.early = TRUE]]
  BY DEF MarkCut, MarkEarly
<1>1. /\ Len(s) \in Nat /\ DOMAIN s = 1 .. Len(s)
      /\ \A k \in 1 .. Len(s) : s[k] \in CommandType
  BY LenProperties, ElementOfSeq
<1>2. ASSUME NEW m \in CommandType
      PROVE  /\ [m EXCEPT !.cut = TRUE] \in CommandType
             /\ [m EXCEPT !.cut = TRUE].id = m.id
             /\ [m EXCEPT !.cut = TRUE].batch = m.batch
             /\ [m EXCEPT !.cut = TRUE].gen = m.gen
             /\ [m EXCEPT !.early = TRUE] \in CommandType
             /\ [m EXCEPT !.early = TRUE].id = m.id
             /\ [m EXCEPT !.early = TRUE].batch = m.batch
             /\ [m EXCEPT !.early = TRUE].gen = m.gen
             /\ [m EXCEPT !.early = TRUE].cut = m.cut
  BY DEF CommandType
<1> HIDE DEF u, v
<1>3. u \in [1 .. Len(s) -> CommandType] /\ v \in [1 .. Len(s) -> CommandType]
  BY <1>0, <1>1, <1>2
<1>4. u \in Seq(CommandType) /\ v \in Seq(CommandType)
  BY <1>1, <1>3, SeqDef
<1>5. ASSUME NEW k \in DOMAIN s
      PROVE  /\ u[k].id = s[k].id /\ u[k].batch = s[k].batch /\ u[k].gen = s[k].gen
             /\ v[k].id = s[k].id /\ v[k].batch = s[k].batch
             /\ v[k].gen = s[k].gen /\ v[k].cut = s[k].cut
  <2>1. u[k] = [s[k] EXCEPT !.cut = TRUE] /\ v[k] = [s[k] EXCEPT !.early = TRUE]
    BY <1>0, <1>5
  <2> QED BY <1>1, <1>2, <2>1
<1>6. DOMAIN u = DOMAIN s /\ DOMAIN v = DOMAIN s
  BY <1>0
<1> QED BY <1>4, <1>5, <1>6, Zenon DEF u, v

-----------------------------------------------------------------------------
(* Types. *)

(* The types hold at first.                                                *)
LEMMA TypedAtFirst == Init => SharedType /\ ActorType
<1> SUFFICES ASSUME Init PROVE SharedType /\ ActorType
  OBVIOUS
<1>1. tracker \in TrackerType /\ chan \in Seq(CommandType) /\ mailbox \in MailboxType
  BY DEF Init, TrackerType, MailboxType, Closed
<1>2. flag \in BOOLEAN /\ closing \in BOOLEAN /\ compact \in BOOLEAN
  BY Zenon DEF Init
<1>0. stops \in 0 .. MaxStops
  BY Limits DEF Init
<1>3. client \in [Clients -> ClientType] /\ worker \in WorkerType
  BY IdleFacts DEF Init
<1>4. told \in ToldType
  BY DEF Init, ToldType
<1>5. taken \in [Ids -> Int] /\ strayed \subseteq Ids /\ calls \in Nat
  BY DEF Init
<1> QED BY <1>0, <1>1, <1>2, <1>3, <1>4, <1>5 DEF SharedType, ActorType

(* A client that takes a step keeps its type.                              *)
LEMMA ClientSteps ==
    ASSUME SharedType, ActorType, NEW c \in Clients
    PROVE  /\ client[c] \in ClientType
           /\ client[c].batch \in Batches /\ client[c].id \in TurnOrNone /\ client[c].gen \in Nat
           /\ \A x \in ClientType : [client EXCEPT ![c] = x] \in [Clients -> ClientType]
           /\ \A pc \in ClientPcs : [client EXCEPT ![c].pc = pc] \in [Clients -> ClientType]
BY DEF ActorType, ClientType

(* A worker that takes a step keeps its type and its command.              *)
LEMMA WorkerSteps ==
    ASSUME SharedType, ActorType
    PROVE  /\ worker.id \in TurnOrNone /\ worker.batch \in Batches /\ worker.pc \in WorkerPcs
           /\ worker.gen \in Nat /\ worker.cut \in BOOLEAN /\ worker.rounds \in Nat
           /\ \A pc \in WorkerPcs :
                /\ [worker EXCEPT !.pc = pc] \in WorkerType
                /\ [worker EXCEPT !.pc = pc].pc = pc
                /\ [worker EXCEPT !.pc = pc].id = worker.id
                /\ [worker EXCEPT !.pc = pc].batch = worker.batch
                /\ [worker EXCEPT !.pc = pc].gen = worker.gen
                /\ [worker EXCEPT !.pc = pc].cut = worker.cut
           /\ \A how \in Ends, pc \in WorkerPcs :
                LET w == [worker EXCEPT !.pc = pc, !.end = how]
                IN  /\ w \in WorkerType /\ w.pc = pc /\ w.id = worker.id
                    /\ w.batch = worker.batch /\ w.gen = worker.gen /\ w.cut = worker.cut
           /\ LET w == [worker EXCEPT !.pc = "model", !.rounds = @ + 1]
              IN  /\ w \in WorkerType /\ w.pc = "model" /\ w.id = worker.id
                  /\ w.batch = worker.batch /\ w.gen = worker.gen /\ w.cut = worker.cut
<1>1. worker \in WorkerType
  BY DEF ActorType
<1>2. ASSUME NEW pc \in WorkerPcs
      PROVE  /\ [worker EXCEPT !.pc = pc] \in WorkerType
             /\ [worker EXCEPT !.pc = pc].pc = pc
             /\ [worker EXCEPT !.pc = pc].id = worker.id
             /\ [worker EXCEPT !.pc = pc].batch = worker.batch
             /\ [worker EXCEPT !.pc = pc].gen = worker.gen
             /\ [worker EXCEPT !.pc = pc].cut = worker.cut
  BY <1>1 DEF WorkerType
<1>3. ASSUME NEW how \in Ends, NEW pc \in WorkerPcs
      PROVE  LET w == [worker EXCEPT !.pc = pc, !.end = how]
             IN  /\ w \in WorkerType /\ w.pc = pc /\ w.id = worker.id
                 /\ w.batch = worker.batch /\ w.gen = worker.gen /\ w.cut = worker.cut
  <2> DEFINE v == [worker EXCEPT !.pc = pc]
  <2>1. /\ v \in WorkerType /\ v.pc = pc /\ v.id = worker.id
        /\ v.batch = worker.batch /\ v.gen = worker.gen /\ v.cut = worker.cut
    BY <1>2
  <2> HIDE DEF v
  <2>2. LET w == [v EXCEPT !.end = how]
        IN  /\ w \in WorkerType /\ w.pc = pc /\ w.id = worker.id
            /\ w.batch = worker.batch /\ w.gen = worker.gen /\ w.cut = worker.cut
    BY <2>1 DEF WorkerType
  <2> QED BY <2>2 DEF v
<1>4. LET w == [worker EXCEPT !.pc = "model", !.rounds = @ + 1]
      IN  /\ w \in WorkerType /\ w.pc = "model" /\ w.id = worker.id
          /\ w.batch = worker.batch /\ w.gen = worker.gen /\ w.cut = worker.cut
  <2> DEFINE v == [worker EXCEPT !.pc = "model"]
  <2>1. /\ v \in WorkerType /\ v.pc = "model" /\ v.id = worker.id
        /\ v.batch = worker.batch /\ v.gen = worker.gen /\ v.cut = worker.cut
    BY <1>2 DEF WorkerPcs, InTurn
  <2>2. v.rounds = worker.rounds /\ worker.rounds \in Nat
    BY <1>1 DEF WorkerType
  <2> HIDE DEF v
  <2>3. LET w == [v EXCEPT !.rounds = @ + 1]
        IN  /\ w \in WorkerType /\ w.pc = "model" /\ w.id = worker.id
            /\ w.batch = worker.batch /\ w.gen = worker.gen /\ w.cut = worker.cut
    BY <2>1, <2>2 DEF WorkerType
  <2> QED BY <2>3 DEF v
<1> QED BY <1>1, <1>2, <1>3, <1>4 DEF WorkerType

(* The types of the parts of the shared state.                             *)
LEMMA SharedFacts ==
    ASSUME SharedType, ActorType
    PROVE  /\ tracker \in TrackerType /\ tracker.pending \subseteq Ids /\ tracker.recent \in Seq(Ids)
           /\ mailbox \in MailboxType /\ mailbox.queue \in Seq(Supplements)
           /\ mailbox.queue \in Seq(Ids) /\ mailbox.open \in BOOLEAN
           /\ told \in ToldType /\ told.acked \in Seq(Ids)
           /\ told.started \in [Turns -> Nat] /\ told.ended \in [Turns -> Nat]
           /\ chan \in Seq(CommandType) /\ DOMAIN chan = 1 .. Len(chan) /\ Len(chan) \in Nat
           /\ \A k \in DOMAIN chan : /\ chan[k] \in CommandType /\ chan[k].id \in TurnOrNone
                                     /\ chan[k].batch \in Batches /\ chan[k].gen \in Nat
           /\ stops \in Nat
<1>1. mailbox.queue \in Seq(Supplements) /\ Supplements \subseteq Ids
  BY DEF SharedType, MailboxType, Ids
<1>2. mailbox.queue \in Seq(Ids)
  BY <1>1, SeqMonotonic
<1>3. /\ chan \in Seq(CommandType) /\ DOMAIN chan = 1 .. Len(chan) /\ Len(chan) \in Nat
      /\ \A k \in DOMAIN chan : chan[k] \in CommandType
  BY LenProperties, ElementOfSeq DEF SharedType
<1>4. \A m \in CommandType : m.id \in TurnOrNone /\ m.batch \in Batches /\ m.gen \in Nat
  BY DEF CommandType
<1>5. stops \in Nat
  BY Limits DEF SharedType
<1> QED BY <1>1, <1>2, <1>3, <1>4, <1>5
        DEF SharedType, ActorType, TrackerType, MailboxType, ToldType

(* The ids of a command, the turn first. *)
LEMMA CommandIds ==
    ASSUME NEW t \in Turns, NEW b \in Batches
    PROVE  /\ <<t>> \o b \in Seq(Ids) /\ IsInjective(<<t>> \o b)
           /\ ToSet(<<t>> \o b) = {t} \cup ToSet(b)
           /\ {t} \cup ToSet(b) \subseteq Ids /\ IsFiniteSet({t} \cup ToSet(b))
           /\ t \notin ToSet(b) /\ <<t>> \in Seq(Ids)
<1>1. t \in Ids /\ t \notin Supplements /\ Supplements \subseteq Ids
  BY Limits DEF Ids
<1>2. ToSet(b) \subseteq Supplements /\ IsFiniteSet(ToSet(b))
  BY BatchFacts
<1>3. IsFiniteSet({t} \cup ToSet(b))
  BY <1>2, FS_AddElement
<1>4. <<t>> \in Seq(Ids) /\ Len(<<t>>) = 1 /\ <<t>>[1] = t
  BY <1>1
<1>5. /\ b \in Seq(Ids) /\ IsInjective(b) /\ Len(b) \in Nat /\ DOMAIN b = 1 .. Len(b)
  BY BatchFacts, LenProperties
<1> DEFINE c == <<t>> \o b
<1>6. /\ c \in Seq(Ids) /\ Len(c) = 1 + Len(b)
      /\ \A i \in 1 .. 1 + Len(b) : c[i] = IF i <= 1 THEN <<t>>[i] ELSE b[i - 1]
  BY <1>4, <1>5, ConcatProperties
<1> HIDE DEF c
<1>7. /\ DOMAIN c = 1 .. 1 + Len(b) /\ c[1] = t
      /\ \A i \in 1 .. Len(b) : c[i + 1] = b[i]
      /\ \A i \in 2 .. 1 + Len(b) : c[i] = b[i - 1] /\ i - 1 \in DOMAIN b
  BY <1>4, <1>5, <1>6, LenProperties
<1>8. t \notin ToSet(b) /\ ToSet(b) = {b[i] : i \in 1 .. Len(b)}
  BY <1>1, <1>2, <1>5 DEF ToSet
<1>9. ToSet(c) = {t} \cup ToSet(b)
  <2>1. ASSUME NEW i \in DOMAIN c PROVE c[i] \in {t} \cup ToSet(b)
    BY <1>5, <1>7, <1>8
  <2>2. \A i \in 1 .. Len(b) : b[i] \in {c[j] : j \in DOMAIN c}
    BY <1>5, <1>7
  <2>3. t \in {c[j] : j \in DOMAIN c}
    BY <1>5, <1>7
  <2> QED BY <1>8, <2>1, <2>2, <2>3 DEF ToSet
<1>10. IsInjective(c)
  <2>1. SUFFICES ASSUME NEW i \in DOMAIN c, NEW j \in DOMAIN c, c[i] = c[j] PROVE i = j
    BY DEF IsInjective
  <2>2. CASE i = 1 \/ j = 1
    <3>1. \A k \in 2 .. 1 + Len(b) : c[k] \in ToSet(b)
      BY <1>5, <1>7 DEF ToSet
    <3>2. \A k \in DOMAIN c : c[k] = t => k = 1
      BY <1>5, <1>7, <1>8, <3>1
    <3> QED BY <1>7, <2>1, <2>2, <3>2
  <2>3. CASE i # 1 /\ j # 1
    <3>1. i \in 2 .. 1 + Len(b) /\ j \in 2 .. 1 + Len(b)
      BY <1>5, <1>7, <2>3
    <3>2. i - 1 = j - 1
      BY <1>5, <1>7, <2>1, <3>1 DEF IsInjective
    <3> QED BY <3>1, <3>2
  <2> QED BY <2>2, <2>3
<1> QED BY <1>1, <1>2, <1>3, <1>4, <1>6, <1>8, <1>9, <1>10 DEF c

(* Every step keeps the types.                                             *)
LEMMA TypedAfter ==
    ASSUME SharedType, ActorType, Stages, [Next]_vars
    PROVE  SharedType' /\ ActorType'
<1>0. /\ tracker \in TrackerType /\ tracker.pending \subseteq Ids /\ tracker.recent \in Seq(Ids)
      /\ mailbox \in MailboxType /\ mailbox.queue \in Seq(Supplements)
      /\ mailbox.queue \in Seq(Ids) /\ chan \in Seq(CommandType)
      /\ flag \in BOOLEAN /\ stops \in 0 .. MaxStops /\ closing \in BOOLEAN /\ compact \in BOOLEAN
      /\ client \in [Clients -> ClientType] /\ worker \in WorkerType /\ told \in ToldType
      /\ taken \in [Ids -> Int] /\ strayed \subseteq Ids /\ calls \in Nat
  BY SharedFacts DEF SharedType, ActorType
<1>1. /\ worker.id \in TurnOrNone /\ worker.batch \in Batches
      /\ ToSet(worker.batch) \subseteq Ids /\ worker.batch \in Seq(Supplements)
      /\ worker.pc \notin {"idle", "stopped", "received"} => worker.id \in Turns
  BY WorkerSteps, BatchFacts, Limits DEF Stages, WorkerStage, TurnOrNone, Ids
<1>2. /\ Closed \in MailboxType /\ Emptied(mailbox) \in MailboxType
      /\ Opened(mailbox) \in MailboxType
  BY <1>0, MailboxFacts
<1>3. ASSUME NEW ids \in Seq(Ids)
      PROVE  Accept(tracker, ids) \in TrackerType /\ TellAcked(told, ids) \in ToldType
  <2>1. told.acked \o ids \in Seq(Ids)
    BY ConcatProperties, SharedFacts
  <2> QED BY <1>0, <2>1, AcceptTyped DEF TellAcked, ToldType
<1>4. ASSUME NEW ids \in SUBSET Ids
      PROVE  /\ [tracker EXCEPT !.pending = @ \cup ids] \in TrackerType
             /\ [tracker EXCEPT !.pending = @ \ ids] \in TrackerType
             /\ [i \in Ids |-> taken[i] + (IF i \in ids THEN 1 ELSE 0)] \in [Ids -> Int]
             /\ [i \in Ids |-> taken[i] - (IF i \in ids THEN 1 ELSE 0)] \in [Ids -> Int]
  BY <1>0, SMTT(30) DEF TrackerType
<1>5. ASSUME NEW n \in ToldType, NEW t \in Turns
      PROVE  TellStarted(n, t) \in ToldType /\ TellEnded(n, t) \in ToldType
  <2>1. <<>> \in Seq(Ids)
    BY EmptySeq
  <2> QED BY <2>1, ToldFacts
<1>6. UNCHANGED vars => SharedType' /\ ActorType'
  BY DEF vars, shared, ghosts, SharedType, ActorType
<1>7. ASSUME NEW c \in Clients, NEW t \in Turns, NEW b \in Batches, Reserve(c, t, b)
      PROVE  SharedType' /\ ActorType'
  <2>1. {t} \cup ToSet(b) \subseteq Ids
    BY CommandIds
  <2>2. [pc |-> "stamp", id |-> t, batch |-> b, gen |-> 0] \in ClientType
    BY DEF ClientType, ClientPcs, TurnOrNone
  <2>3. [client EXCEPT ![c] = [pc |-> "stamp", id |-> t, batch |-> b, gen |-> 0]]
          \in [Clients -> ClientType]
    BY <2>2, ClientSteps
  <2>4. tracker' \in TrackerType /\ taken' \in [Ids -> Int]
    BY <1>4, <1>7, <2>1, Zenon DEF Reserve
  <2> QED BY <1>0, <1>7, <2>3, <2>4 DEF Reserve, SharedType, ActorType
<1>8. ASSUME NEW c \in Clients, Stamp(c)
      PROVE  SharedType' /\ ActorType'
  <2>0. [client[c] EXCEPT !.pc = "open", !.gen = stops] \in ClientType
    BY <1>0, ClientSteps, SharedFacts, ZenonT(60) DEF ClientType, ClientPcs
  <2>1. client' \in [Clients -> ClientType]
    BY <1>8, <2>0, ClientSteps DEF Stamp
  <2> QED BY <1>0, <1>8, <2>1 DEF Stamp, shared, ghosts, SharedType, ActorType
<1>9. ASSUME NEW c \in Clients, OpenMailbox(c)
      PROVE  SharedType' /\ ActorType'
  <2>1. client' \in [Clients -> ClientType]
    BY <1>0, <1>9, ClientSteps DEF OpenMailbox, ClientPcs
  <2> QED BY <1>0, <1>2, <1>9, <2>1 DEF OpenMailbox, ghosts, SharedType, ActorType
<1>10. ASSUME NEW c \in Clients, Send(c)
      PROVE  SharedType' /\ ActorType'
  <2>1. client' \in [Clients -> ClientType]
    BY <1>0, <1>10, ClientSteps, IdleFacts DEF Send
  <2>2. Command(client[c].id, client[c].batch, client[c].gen) \in CommandType
    BY ClientSteps, CommandFacts
  <2>3. chan' \in Seq(CommandType)
    BY <1>0, <1>10, <2>2, AppendProperties DEF Send
  <2> QED BY <1>0, <1>10, <2>1, <2>3 DEF Send, ghosts, SharedType, ActorType
<1>11. ASSUME NEW c \in Clients, SendFails(c)
      PROVE  SharedType' /\ ActorType'
  <2>1. client' \in [Clients -> ClientType]
    BY <1>0, <1>11, ClientSteps, IdleFacts DEF SendFails
  <2>2. client[c].id \in Turns /\ client[c].batch \in Batches
    BY <1>11, ClientSteps DEF SendFails, Stages, ClientStages, ClientStage
  <2>3. {client[c].id} \cup ToSet(client[c].batch) \subseteq Ids
    BY <2>2, CommandIds
  <2>4. tracker' \in TrackerType /\ taken' \in [Ids -> Int]
    BY <1>4, <1>11, <2>3, Zenon DEF SendFails
  <2> QED BY <1>0, <1>2, <1>11, <2>1, <2>4 DEF SendFails, SharedType, ActorType
<1>12. ASSUME NEW c \in Clients, NEW s \in Supplements, Supplement(c, s)
      PROVE  SharedType' /\ ActorType'
  <2>1. {s} \subseteq Ids
    BY DEF Ids
  <2>2. tracker' \in TrackerType
    BY <1>4, <1>12, <2>1, Zenon DEF Supplement
  <2>3. Append(mailbox.queue, s) \in Seq(Supplements)
    BY <1>0, AppendProperties
  <2>4. mailbox' \in MailboxType
    BY <1>0, <1>12, <2>3 DEF Supplement, MailboxType
  <2>5. taken' \in [Ids -> Int]
    BY <1>0, <1>12, <2>1 DEF Supplement
  <2> QED BY <1>0, <1>12, <2>2, <2>4, <2>5 DEF Supplement, SharedType, ActorType
<1>13. ASSUME NEW c \in Clients, QueueCompact(c)
      PROVE  SharedType' /\ ActorType'
  <2>1. mailbox' \in MailboxType
    BY <1>0, <1>13 DEF QueueCompact, MailboxType
  <2> QED BY <1>0, <1>13, <2>1 DEF QueueCompact, ghosts, SharedType, ActorType
<1>14. ASSUME NEW c \in Clients, Stop(c)
      PROVE  SharedType' /\ ActorType'
  <2>1. client' \in [Clients -> ClientType]
    BY <1>0, <1>14, ClientSteps DEF Stop, ClientPcs
  <2>2. chan' \in Seq(CommandType)
    BY <1>0, <1>14, MarkedFacts DEF Stop
  <2>3. stops' \in 0 .. MaxStops
    BY <1>0, <1>14, Limits DEF Stop
  <2> QED BY <1>0, <1>14, <2>1, <2>2, <2>3 DEF Stop, ghosts, SharedType, ActorType
<1>15. ASSUME NEW c \in Clients, StopFlag(c)
      PROVE  SharedType' /\ ActorType'
  <2>1. client' \in [Clients -> ClientType]
    BY <1>0, <1>15, ClientSteps DEF StopFlag, ClientPcs
  <2>2. chan' \in Seq(CommandType)
    BY <1>0, <1>15, MarkedFacts DEF StopFlag
  <2>3. worker' \in WorkerType
    BY <1>0, <1>15 DEF StopFlag, WorkerType
  <2>4. flag' \in BOOLEAN
    BY <1>15, Zenon DEF StopFlag
  <2> QED BY <1>0, <1>15, <2>1, <2>2, <2>3, <2>4 DEF StopFlag, ghosts, SharedType, ActorType
<1>16. ASSUME NEW c \in Clients, NEW from, NEW to \in ClientPcs, ShutdownStep(c, from, to),
             mailbox' \in MailboxType, chan' \in Seq(CommandType),
             flag' \in BOOLEAN, closing' \in BOOLEAN
      PROVE  SharedType' /\ ActorType'
  <2>1. client' \in [Clients -> ClientType]
    BY <1>0, <1>16, ClientSteps DEF ShutdownStep
  <2> QED BY <1>0, <1>16, <2>1 DEF ShutdownStep, ghosts, SharedType, ActorType
<1>17. ASSUME NEW c \in Clients, Shutdown(c)
      PROVE  SharedType' /\ ActorType'
  <2>1. mailbox' \in MailboxType /\ chan' \in Seq(CommandType)
    BY <1>0, <1>2, <1>17, Zenon DEF Shutdown
  <2>2. flag' \in BOOLEAN /\ closing' \in BOOLEAN
    BY <1>0, <1>17, Zenon DEF Shutdown
  <2>3. "mark" \in ClientPcs
    BY DEF ClientPcs
  <2> QED BY <1>16, <1>17, <2>1, <2>2, <2>3, Zenon DEF Shutdown
<1>18. ASSUME NEW c \in Clients, ShutdownMark(c)
      PROVE  SharedType' /\ ActorType'
  <2>1. mailbox' \in MailboxType /\ chan' \in Seq(CommandType)
    BY <1>0, <1>2, <1>18, Zenon DEF ShutdownMark
  <2>2. flag' \in BOOLEAN /\ closing' \in BOOLEAN
    BY <1>0, <1>18, Zenon DEF ShutdownMark
  <2>3. "raise" \in ClientPcs
    BY DEF ClientPcs
  <2> QED BY <1>16, <1>18, <2>1, <2>2, <2>3, Zenon DEF ShutdownMark
<1>19. ASSUME NEW c \in Clients, ShutdownFlag(c)
      PROVE  SharedType' /\ ActorType'
  <2>1. mailbox' \in MailboxType /\ chan' \in Seq(CommandType)
    BY <1>0, <1>2, <1>19, Zenon DEF ShutdownFlag
  <2>2. flag' \in BOOLEAN /\ closing' \in BOOLEAN
    BY <1>0, <1>19, Zenon DEF ShutdownFlag
  <2>3. "last" \in ClientPcs
    BY DEF ClientPcs
  <2> QED BY <1>16, <1>19, <2>1, <2>2, <2>3, Zenon DEF ShutdownFlag
<1>20. ASSUME NEW c \in Clients, ShutdownSend(c)
      PROVE  SharedType' /\ ActorType'
  <2>1. Command(Nobody, <<>>, 0) \in CommandType
    BY CommandFacts DEF TurnOrNone, Batches
  <2>2. Append(chan, Command(Nobody, <<>>, 0)) \in Seq(CommandType)
    BY <1>0, <2>1, AppendProperties
  <2>3. mailbox' \in MailboxType /\ chan' \in Seq(CommandType)
    BY <1>0, <2>2, <1>20, Zenon DEF ShutdownSend
  <2>4. flag' \in BOOLEAN /\ closing' \in BOOLEAN
    BY <1>0, <1>20, Zenon DEF ShutdownSend
  <2>5. "idle" \in ClientPcs
    BY DEF ClientPcs
  <2> QED BY <1>16, <1>20, <2>3, <2>4, <2>5, Zenon DEF ShutdownSend
<1>21. ASSUME Receive
      PROVE  SharedType' /\ ActorType'
  <2>1. Head(chan) \in CommandType /\ Tail(chan) \in Seq(CommandType)
    BY <1>0, <1>21, HeadTailProperties DEF Receive
  <2>2. Received(Head(chan)) \in WorkerType
    BY <2>1, CommandFacts
  <2> QED BY <1>0, <1>21, <2>1, <2>2 DEF Receive, ghosts, SharedType, ActorType
<1>22. ASSUME Quit
      PROVE  SharedType' /\ ActorType'
  <2>1. <<>> \in Seq(CommandType)
    BY EmptySeq
  <2> QED BY <1>0, <1>22, <2>1, IdleFacts DEF Quit, ghosts, SharedType, ActorType
<1>23. ASSUME NEW from, NEW to \in WorkerPcs, WorkerStep(from, to), SharedType', told' \in ToldType
      PROVE  SharedType' /\ ActorType'
  <2>1. worker' \in WorkerType
    BY <1>23, WorkerSteps DEF WorkerStep
  <2> QED BY <1>0, <1>23, <2>1 DEF WorkerStep, ghosts, ActorType
<1>24. ASSUME Take
      PROVE  SharedType' /\ ActorType'
  <2>1. SharedType'
    BY <1>0, <1>24 DEF Take, shared, SharedType
  <2>2. told' \in ToldType
    BY <1>0, <1>24, Zenon DEF Take
  <2>3. "check" \in WorkerPcs
    BY DEF WorkerPcs, BeforeStart
  <2> QED BY <1>23, <1>24, <2>1, <2>2, <2>3, Zenon DEF Take
<1>25. ASSUME CancelBeforeStart
      PROVE  SharedType' /\ ActorType'
  <2>0. worker.id \in Turns /\ <<worker.id>> \o worker.batch \in Seq(Ids)
    BY <1>1, <1>25, CommandIds DEF CancelBeforeStart, WorkerStep
  <2>1. SharedType'
    BY <1>0, <1>3, <1>25, <2>0 DEF CancelBeforeStart, SharedType
  <2>2. told' \in ToldType
    BY <1>3, <1>5, <1>25, <2>0, Zenon DEF CancelBeforeStart
  <2>3. "cancelled" \in WorkerPcs
    BY DEF WorkerPcs
  <2> QED BY <1>23, <1>25, <2>1, <2>2, <2>3, Zenon DEF CancelBeforeStart
<1>26. ASSUME CancelledFinish
      PROVE  SharedType' /\ ActorType'
  <2>1. worker.id \in Turns
    BY <1>1, <1>26 DEF CancelledFinish
  <2>2. told' \in ToldType /\ worker' \in WorkerType
    BY <1>0, <1>5, <1>26, <2>1, IdleFacts, Zenon DEF CancelledFinish
  <2> QED BY <1>0, <1>26, <2>2 DEF CancelledFinish, shared, ghosts, SharedType, ActorType
<1>27. ASSUME Proceed
      PROVE  SharedType' /\ ActorType'
  <2>1. SharedType'
    BY <1>0, <1>27 DEF Proceed, shared, SharedType
  <2>2. told' \in ToldType
    BY <1>0, <1>27, Zenon DEF Proceed
  <2>3. "clear" \in WorkerPcs
    BY DEF WorkerPcs, BeforeStart
  <2> QED BY <1>23, <1>27, <2>1, <2>2, <2>3, Zenon DEF Proceed
<1>28. ASSUME ClearStop
      PROVE  SharedType' /\ ActorType'
  <2>0. flag' \in BOOLEAN
    BY <1>28, Zenon DEF ClearStop
  <2>1. SharedType'
    BY <1>0, <1>28, <2>0 DEF ClearStop, SharedType
  <2>2. told' \in ToldType
    BY <1>0, <1>28, Zenon DEF ClearStop
  <2>3. "begin" \in WorkerPcs
    BY DEF WorkerPcs, BeforeStart
  <2> QED BY <1>23, <1>28, <2>1, <2>2, <2>3, Zenon DEF ClearStop
<1>29. ASSUME Begin
      PROVE  SharedType' /\ ActorType'
  <2>1. worker.id \in Turns /\ worker.id \in Ids /\ <<worker.id>> \in Seq(Ids)
    BY <1>1, <1>29, CommandIds DEF Begin, Ids
  <2>2. AcceptOne(tracker, worker.id) \in TrackerType
    BY <1>0, <2>1, AcceptOneTyped
  <2>3. mailbox.queue \o worker.batch \in Seq(Supplements)
    BY <1>0, <1>1, ConcatProperties
  <2>4. mailbox' \in MailboxType
    BY <1>0, <1>29, <2>3 DEF Begin, MailboxType
  <2>5. told' \in ToldType
    BY <1>3, <1>5, <1>29, <2>1, Zenon DEF Begin
  <2>6. worker' \in WorkerType
    BY <1>29, WorkerSteps DEF Begin, WorkerPcs, InTurn
  <2>7. strayed' \subseteq Ids
    BY <1>0, <1>1, <1>29 DEF Begin
  <2> QED BY <1>0, <1>29, <2>2, <2>4, <2>5, <2>6, <2>7 DEF Begin, SharedType, ActorType
<1>30. ASSUME NEW how \in {"answered", "failed", "cancelled"}, EndTurn(how), SharedType', told' \in ToldType
      PROVE  SharedType' /\ ActorType'
  <2>1. worker' \in WorkerType
    BY <1>30, WorkerSteps DEF EndTurn, WorkerPcs, InTurn, Ends
  <2> QED BY <1>0, <1>30, <2>1 DEF EndTurn, ghosts, ActorType
<1>31. ASSUME TakeStop
      PROVE  SharedType' /\ ActorType'
  <2>0. flag' \in BOOLEAN
    BY <1>31, Zenon DEF TakeStop
  <2>1. SharedType'
    BY <1>0, <1>31, <2>0 DEF TakeStop, SharedType
  <2>2. told' \in ToldType
    BY <1>0, <1>31, Zenon DEF TakeStop
  <2> QED BY <1>30, <1>31, <2>1, <2>2, Zenon DEF TakeStop
<1>32. ASSUME LookAhead
      PROVE  SharedType' /\ ActorType'
  <2>1. SharedType'
    BY <1>0, <1>32 DEF LookAhead, shared, SharedType
  <2>2. told' \in ToldType
    BY <1>0, <1>32, Zenon DEF LookAhead
  <2>3. "drain" \in WorkerPcs
    BY DEF WorkerPcs, InTurn
  <2> QED BY <1>23, <1>32, <2>1, <2>2, <2>3, Zenon DEF LookAhead
<1>33. ASSUME DrainBeforeRequest
      PROVE  SharedType' /\ ActorType'
  <2>0. compact' \in BOOLEAN
    BY <1>0, <1>33, Zenon DEF DrainBeforeRequest, MailboxType
  <2>1. SharedType'
    BY <1>0, <1>2, <1>3, <1>33, <2>0 DEF DrainBeforeRequest, Drain, SharedType
  <2>2. told' \in ToldType
    BY <1>0, <1>3, <1>33, Zenon DEF DrainBeforeRequest, Drain
  <2>3. "top" \in WorkerPcs
    BY DEF WorkerPcs, InTurn
  <2> QED BY <1>23, <1>33, <2>1, <2>2, <2>3, Zenon DEF DrainBeforeRequest
<1>34. ASSUME AskModel
      PROVE  SharedType' /\ ActorType'
  <2>1. compact' \in BOOLEAN /\ worker' \in WorkerType
    BY <1>34, WorkerSteps, Zenon DEF AskModel
  <2> QED BY <1>0, <1>2, <1>34, <2>1 DEF AskModel, ghosts, SharedType, ActorType
<1>35. ASSUME RunTools
      PROVE  SharedType' /\ ActorType'
  <2>0. compact' \in BOOLEAN
    BY <1>0, <1>35, Zenon DEF RunTools, MailboxType
  <2>1. SharedType'
    BY <1>0, <1>2, <1>3, <1>35, <2>0 DEF RunTools, Drain, SharedType
  <2>2. told' \in ToldType
    BY <1>0, <1>3, <1>35, Zenon DEF RunTools, Drain
  <2>3. "top" \in WorkerPcs
    BY DEF WorkerPcs, InTurn
  <2> QED BY <1>23, <1>35, <2>1, <2>2, <2>3, Zenon DEF RunTools
<1>36. ASSUME NeedApproval
      PROVE  SharedType' /\ ActorType'
  <2>1. SharedType'
    BY <1>0, <1>36 DEF NeedApproval, shared, SharedType
  <2>2. told' \in ToldType
    BY <1>0, <1>36, Zenon DEF NeedApproval
  <2>3. "approval" \in WorkerPcs
    BY DEF WorkerPcs, InTurn
  <2> QED BY <1>23, <1>36, <2>1, <2>2, <2>3, Zenon DEF NeedApproval
<1>37. ASSUME DenyByStop
      PROVE  SharedType' /\ ActorType'
  <2>0. flag' \in BOOLEAN
    BY <1>37, Zenon DEF DenyByStop
  <2>1. SharedType'
    BY <1>0, <1>37, <2>0 DEF DenyByStop, SharedType
  <2>2. told' \in ToldType
    BY <1>0, <1>37, Zenon DEF DenyByStop
  <2>3. "top" \in WorkerPcs
    BY DEF WorkerPcs, InTurn
  <2> QED BY <1>23, <1>37, <2>1, <2>2, <2>3, Zenon DEF DenyByStop
<1>38. ASSUME Approve
      PROVE  SharedType' /\ ActorType'
  <2>0. compact' \in BOOLEAN
    BY <1>0, <1>38, Zenon DEF Approve, MailboxType
  <2>1. SharedType'
    BY <1>0, <1>2, <1>3, <1>38, <2>0 DEF Approve, Drain, SharedType
  <2>2. told' \in ToldType
    BY <1>0, <1>3, <1>38, Zenon DEF Approve, Drain
  <2>3. "top" \in WorkerPcs
    BY DEF WorkerPcs, InTurn
  <2> QED BY <1>23, <1>38, <2>1, <2>2, <2>3, Zenon DEF Approve
<1>39. ASSUME ToolGenFails
      PROVE  SharedType' /\ ActorType'
  <2>1. worker' \in WorkerType
    BY <1>39, WorkerSteps DEF ToolGenFails, WorkerPcs, InTurn, Ends
  <2> QED BY <1>0, <1>39, <2>1 DEF ToolGenFails, shared, ghosts, SharedType, ActorType
<1>40. ASSUME NEW how \in {"answered", "failed"}, Answer(how)
      PROVE  SharedType' /\ ActorType'
  <2>1. SharedType'
    BY <1>0, <1>40 DEF Answer, shared, SharedType
  <2>2. told' \in ToldType
    BY <1>0, <1>40, Zenon DEF Answer
  <2> QED BY <1>30, <1>40, <2>1, <2>2, Zenon DEF Answer
<1>41. ASSUME CloseForHandoff
      PROVE  SharedType' /\ ActorType'
  <2>0. compact' \in BOOLEAN
    BY <1>41, Zenon DEF CloseForHandoff
  <2>1. SharedType'
    BY <1>0, <1>2, <1>3, <1>41, <2>0 DEF CloseForHandoff, SharedType
  <2>2. told' \in ToldType
    BY <1>0, <1>3, <1>41, Zenon DEF CloseForHandoff
  <2>3. "finish" \in WorkerPcs
    BY DEF WorkerPcs, InTurn
  <2> QED BY <1>23, <1>41, <2>1, <2>2, <2>3, Zenon DEF CloseForHandoff
<1>42. ASSUME Finish
      PROVE  SharedType' /\ ActorType'
  <2>1. worker.id \in Turns
    BY <1>1, <1>42 DEF Finish
  <2>2. told' \in ToldType /\ worker' \in WorkerType
    BY <1>0, <1>5, <1>42, <2>1, IdleFacts, Zenon DEF Finish
  <2> QED BY <1>0, <1>42, <2>2 DEF Finish, shared, ghosts, SharedType, ActorType
<1> QED
  BY <1>6, <1>7, <1>8, <1>9, <1>10, <1>11, <1>12, <1>13, <1>14, <1>15, <1>16, <1>17, <1>18, <1>19, <1>20, <1>21, <1>22, <1>23, <1>24, <1>25, <1>26, <1>27, <1>28, <1>29, <1>30, <1>31, <1>32, <1>33, <1>34, <1>35, <1>36, <1>37, <1>38, <1>39, <1>40, <1>41, <1>42, Zenon
     DEF Next, Worker, Dequeue, TurnLoop, Ending, Client, Submit, Batches

-----------------------------------------------------------------------------
(* Where everyone is. *)

(* At first everyone is at rest.                                           *)
LEMMA StagedAtFirst == Init => Stages
<1> SUFFICES ASSUME Init PROVE Stages
  OBVIOUS
<1>1. /\ client = [c \in Clients |-> IdleClient] /\ worker = IdleWorker /\ chan = <<>>
      /\ stops = 0
  BY DEF Init
<1>2. Nobody \notin Turns
  BY Limits DEF Ids
<1>3. ClientStages
  BY <1>1, <1>2, IdleFacts DEF ClientStages, ClientStage
<1>4. CommandStages
  BY <1>1 DEF CommandStages
<1>5. /\ worker.pc = "idle" /\ worker.id = Nobody /\ worker.batch = <<>>
      /\ worker.gen = 0 /\ worker.cut = FALSE
  BY <1>1 DEF IdleWorker
<1>6. WorkerStage
  BY <1>1, <1>5 DEF WorkerStage
<1> QED BY <1>3, <1>4, <1>6 DEF Stages

(* Every step keeps the stages: what a client, a command and the worker    *)
(* hold fits where they are.                                               *)
LEMMA StagedAfter ==
    ASSUME SharedType, ActorType, Stages, [Next]_vars
    PROVE  Stages'
<1>0. /\ chan \in Seq(CommandType) /\ DOMAIN chan = 1 .. Len(chan) /\ Len(chan) \in Nat
      /\ \A k \in DOMAIN chan : /\ chan[k] \in CommandType /\ chan[k].id \in TurnOrNone
                                /\ chan[k].batch \in Batches /\ chan[k].gen \in Nat
      /\ stops \in Nat /\ client \in [Clients -> ClientType] /\ worker \in WorkerType
      /\ Nobody \notin Turns /\ ClientStages /\ CommandStages /\ WorkerStage
  BY SharedFacts, Limits DEF ActorType, Ids, Stages
<1>1. /\ worker.id \in TurnOrNone /\ worker.pc \in WorkerPcs /\ worker.gen \in Nat
      /\ worker.cut \in BOOLEAN
  BY WorkerSteps
<1>2. ASSUME UNCHANGED <<stops, closing, client>>
      PROVE  ClientStages'
  BY <1>0, <1>2 DEF ClientStages, ClientStage
<1>3. ASSUME UNCHANGED <<stops, closing, chan>>
      PROVE  CommandStages'
  BY <1>0, <1>3 DEF CommandStages, CommandStage
<1>4. ASSUME UNCHANGED <<stops, closing, worker>>
      PROVE  WorkerStage'
  BY <1>0, <1>4 DEF WorkerStage
<1>5. ASSUME NEW c \in Clients, NEW x, client' = [client EXCEPT ![c] = x],
             UNCHANGED <<stops, closing>>, ClientStage(x)
      PROVE  ClientStages'
  <2>1. SUFFICES ASSUME NEW d \in Clients PROVE ClientStage(client[d])'
    BY DEF ClientStages
  <2>2. CASE d = c
    BY <1>0, <1>5, <2>2 DEF ClientStage
  <2>3. CASE d # c
    BY <1>0, <1>5, <2>3 DEF ClientStages, ClientStage
  <2> QED BY <2>2, <2>3
<1>6. ASSUME NEW m \in CommandType, CommandStage(m), chan' = Append(chan, m),
             UNCHANGED <<stops, closing>>
      PROVE  CommandStages'
  <2>1. /\ DOMAIN chan' = 1 .. Len(chan) + 1 /\ chan'[Len(chan) + 1] = m
        /\ \A k \in 1 .. Len(chan) : chan'[k] = chan[k]
    BY <1>0, <1>6, AppendProperties, LenProperties
  <2>2. SUFFICES ASSUME NEW k \in DOMAIN chan' PROVE CommandStage(chan[k])'
    BY DEF CommandStages
  <2>3. CASE k = Len(chan) + 1
    BY <1>6, <2>1, <2>3 DEF CommandStage
  <2>4. CASE k # Len(chan) + 1
    <3>1. k \in DOMAIN chan /\ chan'[k] = chan[k]
      BY <1>0, <2>1, <2>4
    <3> QED BY <1>0, <1>6, <3>1 DEF CommandStages, CommandStage
  <2> QED BY <2>3, <2>4
<1>7. ASSUME NEW to, to \in {"check", "clear", "begin", "cancelled"} \cup InTurn,
             worker'.pc = to, worker'.id = worker.id, worker'.batch = worker.batch,
             worker'.gen = worker.gen, worker'.cut = worker.cut, worker.id # Nobody,
             worker.cut => to \in {"check", "cancelled"}, UNCHANGED <<stops, closing>>
      PROVE  WorkerStage'
  <2>1. to \notin {"idle", "stopped", "received"}
    BY <1>7 DEF InTurn
  <2> QED BY <1>0, <1>7, <2>1 DEF WorkerStage
<1>8. ASSUME NEW c \in Clients, NEW t \in Turns, NEW b \in Batches, Reserve(c, t, b)
      PROVE  Stages'
  <2>1. client' = [client EXCEPT ![c] = [pc |-> "stamp", id |-> t, batch |-> b, gen |-> 0]] /\ UNCHANGED <<stops, closing, worker>>
    BY <1>8 DEF Reserve
  <2>2. ClientStage([pc |-> "stamp", id |-> t, batch |-> b, gen |-> 0])
    BY <1>0 DEF ClientStage
  <2>3. ClientStages'
    BY <1>5, <2>1, <2>2
  <2>4. CommandStages'
    BY <1>3, <1>8 DEF Reserve
  <2> QED BY <1>4, <2>1, <2>3, <2>4 DEF Stages
<1>9. ASSUME NEW c \in Clients, Stamp(c)
      PROVE  Stages'
  <2>1. client' = [client EXCEPT ![c] = [client[c] EXCEPT !.pc = "open", !.gen = stops]] /\ UNCHANGED <<stops, closing, worker>>
    BY <1>9 DEF Stamp, shared
  <2>2. ClientStage([client[c] EXCEPT !.pc = "open", !.gen = stops])
    <3>1. client[c] \in ClientType /\ ClientStage(client[c])
      BY <1>0 DEF ClientStages
    <3> DEFINE x == [client[c] EXCEPT !.pc = "open"]
    <3>2. x \in ClientType /\ x.pc = "open" /\ x.id = client[c].id /\ x.batch = client[c].batch
      BY <3>1 DEF ClientType, ClientPcs
    <3> HIDE DEF x
    <3>3. /\ [x EXCEPT !.gen = stops].pc = "open" /\ [x EXCEPT !.gen = stops].id = client[c].id
          /\ [x EXCEPT !.gen = stops].batch = client[c].batch
          /\ [x EXCEPT !.gen = stops].gen = stops
      BY <3>2 DEF ClientType
    <3>4. client[c].id \in Turns
      BY <1>9, <3>1 DEF Stamp, ClientStage
    <3>5. ClientStage([x EXCEPT !.gen = stops])
      BY <1>0, <3>3, <3>4 DEF ClientStage
    <3> QED BY <3>5 DEF x
  <2>3. ClientStages'
    BY <1>5, <2>1, <2>2
  <2>4. CommandStages'
    BY <1>3, <1>9 DEF Stamp, shared
  <2> QED BY <1>4, <2>1, <2>3, <2>4 DEF Stages
<1>10. ASSUME NEW c \in Clients, OpenMailbox(c)
      PROVE  Stages'
  <2>1. client' = [client EXCEPT ![c] = [client[c] EXCEPT !.pc = "send"]] /\ UNCHANGED <<stops, closing, worker>>
    BY <1>10 DEF OpenMailbox
  <2>2. ClientStage([client[c] EXCEPT !.pc = "send"])
    <3>1. client[c] \in ClientType /\ ClientStage(client[c])
      BY <1>0 DEF ClientStages
    <3> QED BY <1>10, <3>1 DEF OpenMailbox, ClientStage, ClientType
  <2>3. ClientStages'
    BY <1>5, <2>1, <2>2
  <2>4. CommandStages'
    BY <1>3, <1>10 DEF OpenMailbox
  <2> QED BY <1>4, <2>1, <2>3, <2>4 DEF Stages
<1>11. ASSUME NEW c \in Clients, Send(c)
      PROVE  Stages'
  <2>1. client' = [client EXCEPT ![c] = IdleClient] /\ UNCHANGED <<stops, closing, worker>>
    BY <1>11 DEF Send
  <2>2. ClientStage(IdleClient)
    BY <1>0, IdleFacts DEF ClientStage, ClientPcs
  <2>3. ClientStages'
    BY <1>5, <2>1, <2>2
  <2> DEFINE m == Command(client[c].id, client[c].batch, client[c].gen)
  <2>0. /\ m \in CommandType /\ m.id = client[c].id /\ m.batch = client[c].batch
        /\ m.gen = client[c].gen /\ m.cut = FALSE
    BY ClientSteps, CommandFacts
  <2>5. chan' = Append(chan, m)
    BY <1>11 DEF Send
  <2>6. client[c].id \in Turns /\ client[c].gen <= stops
    BY <1>0, <1>11 DEF Send, ClientStages, ClientStage
  <2> HIDE DEF m
  <2>7. CommandStage(m)
    BY <1>0, <2>0, <2>6 DEF CommandStage
  <2>4. CommandStages'
    BY <1>6, <2>0, <2>1, <2>5, <2>7
  <2> QED BY <1>4, <2>1, <2>3, <2>4 DEF Stages
<1>12. ASSUME NEW c \in Clients, SendFails(c)
      PROVE  Stages'
  <2>1. client' = [client EXCEPT ![c] = IdleClient] /\ UNCHANGED <<stops, closing, worker>>
    BY <1>12 DEF SendFails
  <2>2. ClientStage(IdleClient)
    BY <1>0, IdleFacts DEF ClientStage, ClientPcs
  <2>3. ClientStages'
    BY <1>5, <2>1, <2>2
  <2>4. CommandStages'
    BY <1>3, <1>12 DEF SendFails
  <2> QED BY <1>4, <2>1, <2>3, <2>4 DEF Stages
<1>13. ASSUME NEW c \in Clients, NEW s \in Supplements, Supplement(c, s)
      PROVE  Stages'
  BY <1>2, <1>3, <1>4, <1>13 DEF Supplement, Stages
<1>14. ASSUME NEW c \in Clients, QueueCompact(c)
      PROVE  Stages'
  BY <1>2, <1>3, <1>4, <1>14 DEF QueueCompact, Stages
<1>15. ASSUME NEW c \in Clients, Stop(c)
      PROVE  Stages'
  <2>1. /\ stops' = stops + 1 /\ UNCHANGED <<closing, worker>> /\ client[c].pc = "idle"
        /\ client' = [client EXCEPT ![c] = [client[c] EXCEPT !.pc = "flag"]]
        /\ chan' = MarkCut(chan)
    BY <1>15 DEF Stop
  <2>2. ClientStages'
    <3>1. SUFFICES ASSUME NEW d \in Clients PROVE ClientStage(client[d])'
      BY DEF ClientStages
    <3>2. client[d] \in ClientType /\ ClientStage(client[d]) /\ client[d].gen \in Nat
      BY <1>0, ClientSteps DEF ClientStages
    <3>3. CASE d = c
      BY <1>0, <2>1, <3>2, <3>3 DEF ClientStage, ClientType
    <3>4. CASE d # c
      BY <1>0, <2>1, <3>2, <3>4 DEF ClientStage
    <3> QED BY <3>3, <3>4
  <2>3. CommandStages'
    <3>1. SUFFICES ASSUME NEW k \in DOMAIN chan' PROVE CommandStage(chan[k])'
      BY DEF CommandStages
    <3>2. /\ k \in DOMAIN chan /\ chan'[k].id = chan[k].id /\ chan'[k].batch = chan[k].batch
          /\ chan'[k].gen = chan[k].gen
      <4>1. /\ DOMAIN chan' = DOMAIN chan
            /\ \A j \in DOMAIN chan : /\ chan'[j].id = chan[j].id /\ chan'[j].batch = chan[j].batch
                                      /\ chan'[j].gen = chan[j].gen
        BY <1>0, <2>1, MarkedFacts
      <4> QED BY <3>1, <4>1
    <3>3. CommandStage(chan[k]) /\ chan[k].gen \in Nat
      BY <1>0, <3>2 DEF CommandStages
    <3> QED BY <1>0, <2>1, <3>2, <3>3 DEF CommandStage
  <2>4. WorkerStage'
    BY <1>0, <1>1, <2>1 DEF WorkerStage
  <2> QED BY <2>2, <2>3, <2>4 DEF Stages
<1>16. ASSUME NEW c \in Clients, StopFlag(c)
      PROVE  Stages'
  <2>1. /\ UNCHANGED <<stops, closing>> /\ client[c].pc = "flag"
        /\ client' = [client EXCEPT ![c] = [client[c] EXCEPT !.pc = "idle"]]
        /\ chan' = MarkEarly(chan)
    BY <1>16 DEF StopFlag
  <2>2. ClientStage([client[c] EXCEPT !.pc = "idle"])
    <3>1. client[c] \in ClientType /\ ClientStage(client[c])
      BY <1>0 DEF ClientStages
    <3> QED BY <1>16, <3>1 DEF StopFlag, ClientStage, ClientType
  <2>3. ClientStages'
    BY <1>5, <2>1, <2>2
  <2>4. CommandStages'
    <3>1. SUFFICES ASSUME NEW k \in DOMAIN chan' PROVE CommandStage(chan[k])'
      BY DEF CommandStages
    <3>2. /\ k \in DOMAIN chan /\ chan'[k].id = chan[k].id /\ chan'[k].batch = chan[k].batch
          /\ chan'[k].gen = chan[k].gen /\ chan'[k].cut = chan[k].cut
      <4>1. /\ DOMAIN chan' = DOMAIN chan
            /\ \A j \in DOMAIN chan : /\ chan'[j].id = chan[j].id /\ chan'[j].batch = chan[j].batch
                                      /\ chan'[j].gen = chan[j].gen /\ chan'[j].cut = chan[j].cut
        BY <1>0, <2>1, MarkedFacts
      <4> QED BY <3>1, <4>1
    <3> QED BY <1>0, <2>1, <3>2 DEF CommandStages, CommandStage
  <2>5. /\ worker'.pc = worker.pc /\ worker'.id = worker.id /\ worker'.batch = worker.batch
        /\ worker'.gen = worker.gen /\ worker'.cut = worker.cut
    BY <1>0, <1>16 DEF StopFlag, WorkerType
  <2>6. WorkerStage'
    BY <1>0, <2>1, <2>5 DEF WorkerStage
  <2> QED BY <2>3, <2>4, <2>6 DEF Stages
<1>17. ASSUME NEW c \in Clients, Shutdown(c)
      PROVE  Stages'
  <2>1. client' = [client EXCEPT ![c] = [client[c] EXCEPT !.pc = "mark"]] /\ UNCHANGED <<stops, closing, worker>>
    BY <1>17 DEF Shutdown, ShutdownStep
  <2>2. ClientStage([client[c] EXCEPT !.pc = "mark"])
    <3>1. client[c] \in ClientType /\ ClientStage(client[c])
      BY <1>0 DEF ClientStages
    <3> QED BY <1>17, <3>1 DEF Shutdown, ClientStage, ClientType, ShutdownStep
  <2>3. ClientStages'
    BY <1>5, <2>1, <2>2
  <2>4. CommandStages'
    BY <1>3, <1>17 DEF Shutdown, ShutdownStep
  <2> QED BY <1>4, <2>1, <2>3, <2>4 DEF Stages
<1>18. ASSUME NEW c \in Clients, ShutdownMark(c)
      PROVE  Stages'
  <2>1. /\ UNCHANGED <<stops, worker, chan>> /\ closing' /\ client[c].pc = "mark"
        /\ client' = [client EXCEPT ![c] = [client[c] EXCEPT !.pc = "raise"]]
    BY <1>18 DEF ShutdownMark, ShutdownStep
  <2>2. ClientStages'
    <3>1. SUFFICES ASSUME NEW d \in Clients PROVE ClientStage(client[d])'
      BY DEF ClientStages
    <3>2. client[d] \in ClientType /\ ClientStage(client[d]) /\ client[d].gen \in Nat
      BY <1>0, ClientSteps DEF ClientStages
    <3>3. CASE d = c
      BY <1>0, <2>1, <3>2, <3>3 DEF ClientStage, ClientType
    <3>4. CASE d # c
      BY <1>0, <2>1, <3>2, <3>4 DEF ClientStage
    <3> QED BY <3>3, <3>4
  <2>3. CommandStages'
    BY <1>0, <2>1 DEF CommandStages, CommandStage
  <2>4. WorkerStage'
    BY <1>0, <2>1 DEF WorkerStage
  <2> QED BY <2>2, <2>3, <2>4 DEF Stages
<1>19. ASSUME NEW c \in Clients, ShutdownFlag(c)
      PROVE  Stages'
  <2>1. client' = [client EXCEPT ![c] = [client[c] EXCEPT !.pc = "last"]] /\ UNCHANGED <<stops, closing, worker>>
    BY <1>19 DEF ShutdownFlag, ShutdownStep
  <2>2. ClientStage([client[c] EXCEPT !.pc = "last"])
    <3>1. client[c] \in ClientType /\ ClientStage(client[c])
      BY <1>0 DEF ClientStages
    <3> QED BY <1>19, <3>1 DEF ShutdownFlag, ClientStage, ClientType, ShutdownStep
  <2>3. ClientStages'
    BY <1>5, <2>1, <2>2
  <2>4. CommandStages'
    BY <1>3, <1>19 DEF ShutdownFlag, ShutdownStep
  <2> QED BY <1>4, <2>1, <2>3, <2>4 DEF Stages
<1>20. ASSUME NEW c \in Clients, ShutdownSend(c)
      PROVE  Stages'
  <2>1. client' = [client EXCEPT ![c] = [client[c] EXCEPT !.pc = "idle"]] /\ UNCHANGED <<stops, closing, worker>>
    BY <1>20 DEF ShutdownSend, ShutdownStep
  <2>2. ClientStage([client[c] EXCEPT !.pc = "idle"])
    <3>1. client[c] \in ClientType /\ ClientStage(client[c])
      BY <1>0 DEF ClientStages
    <3> QED BY <1>20, <3>1 DEF ShutdownSend, ClientStage, ClientType, ShutdownStep
  <2>3. ClientStages'
    BY <1>5, <2>1, <2>2
  <2> DEFINE m == Command(Nobody, <<>>, 0)
  <2>0. /\ m \in CommandType /\ m.id = Nobody /\ m.batch = <<>> /\ m.gen = 0 /\ m.cut = FALSE
    BY CommandFacts DEF TurnOrNone, Batches
  <2>5. chan' = chan \/ chan' = Append(chan, m)
    BY <1>20 DEF ShutdownSend
  <2>6. closing
    BY <1>0, <1>20 DEF ShutdownSend, ShutdownStep, ClientStages, ClientStage
  <2> HIDE DEF m
  <2>7. CommandStage(m)
    BY <1>0, <2>0, <2>6 DEF CommandStage
  <2>4. CommandStages'
    BY <1>3, <1>6, <2>0, <2>1, <2>5, <2>7
  <2> QED BY <1>4, <2>1, <2>3, <2>4 DEF Stages
<1>21. ASSUME Receive
      PROVE  Stages'
  <2>1. /\ UNCHANGED <<stops, closing, client>> /\ chan # <<>> /\ chan' = Tail(chan)
        /\ worker' = Received(Head(chan))
    BY <1>21 DEF Receive
  <2>2. /\ Head(chan) \in CommandType /\ Head(chan) = chan[1] /\ 1 \in DOMAIN chan
        /\ Len(Tail(chan)) = Len(chan) - 1 /\ DOMAIN Tail(chan) = 1 .. Len(chan) - 1
        /\ \A k \in 1 .. Len(chan) - 1 : Tail(chan)[k] = chan[k + 1]
    <3>1. Len(chan) \in Nat \ {0}
      BY <1>0, <2>1, EmptySeq
    <3> QED BY <1>0, <2>1, <3>1, HeadTailProperties, LenProperties
  <2>3. CommandStages'
    <3>1. SUFFICES ASSUME NEW k \in DOMAIN chan' PROVE CommandStage(chan[k])'
      BY DEF CommandStages
    <3>2. k + 1 \in DOMAIN chan /\ chan'[k] = chan[k + 1]
      BY <1>0, <2>1, <2>2
    <3> QED BY <1>0, <2>1, <3>2 DEF CommandStages, CommandStage
  <2>4. /\ worker'.pc = "received" /\ worker'.id = chan[1].id /\ worker'.batch = chan[1].batch
        /\ worker'.gen = chan[1].gen /\ worker'.cut = chan[1].cut
    BY <2>1, <2>2, CommandFacts
  <2>5. WorkerStage'
    BY <1>0, <2>1, <2>2, <2>4 DEF WorkerStage, CommandStages, CommandStage
  <2> QED BY <1>2, <2>1, <2>3, <2>5 DEF Stages
<1>22. ASSUME Quit
      PROVE  Stages'
  <2>1. /\ UNCHANGED <<stops, closing, client>> /\ chan' = <<>> /\ closing
        /\ worker' = [IdleWorker EXCEPT !.pc = "stopped"]
    BY <1>0, <1>22 DEF Quit, WorkerStage
  <2>2. /\ worker'.pc = "stopped" /\ worker'.id = Nobody /\ worker'.batch = <<>>
        /\ worker'.gen = 0 /\ worker'.cut = FALSE
    BY <2>1 DEF IdleWorker
  <2>3. WorkerStage' /\ CommandStages'
    BY <1>0, <2>1, <2>2 DEF WorkerStage, CommandStages
  <2> QED BY <1>2, <2>1, <2>3 DEF Stages
<1>23. ASSUME Take
      PROVE  Stages'
  <2>1. /\ UNCHANGED <<stops, closing, client, chan>>
        /\ worker' = [worker EXCEPT !.pc = "check"]
    BY <1>23 DEF Take, WorkerStep, shared
  <2>2. worker.id # Nobody
    BY <1>0, <1>23 DEF Take, WorkerStep, WorkerStage
  <2>3. worker.cut => "check" \in {"check", "cancelled"}
    BY <1>0, <1>23 DEF Take, WorkerStep, WorkerStage, IsStale
  <2>4. "check" \in {"check", "clear", "begin", "cancelled"} \cup InTurn /\ "check" \in WorkerPcs
    BY DEF InTurn, WorkerPcs, BeforeStart
  <2>5. WorkerStage'
    BY <1>7, <2>1, <2>2, <2>3, <2>4, WorkerSteps
  <2> QED BY <1>2, <1>3, <2>1, <2>5 DEF Stages
<1>24. ASSUME CancelBeforeStart
      PROVE  Stages'
  <2>1. /\ UNCHANGED <<stops, closing, client, chan>>
        /\ worker' = [worker EXCEPT !.pc = "cancelled"]
    BY <1>24 DEF CancelBeforeStart, WorkerStep
  <2>2. worker.id # Nobody
    BY <1>0, <1>24 DEF CancelBeforeStart, WorkerStep, WorkerStage
  <2>3. worker.cut => "cancelled" \in {"check", "cancelled"}
    BY <1>0, <1>24 DEF CancelBeforeStart, WorkerStep, WorkerStage, IsStale
  <2>4. "cancelled" \in {"check", "clear", "begin", "cancelled"} \cup InTurn /\ "cancelled" \in WorkerPcs
    BY DEF InTurn, WorkerPcs, BeforeStart
  <2>5. WorkerStage'
    BY <1>7, <2>1, <2>2, <2>3, <2>4, WorkerSteps
  <2> QED BY <1>2, <1>3, <2>1, <2>5 DEF Stages
<1>25. ASSUME CancelledFinish
      PROVE  Stages'
  <2>1. UNCHANGED <<stops, closing, client, chan>> /\ worker' = IdleWorker
    BY <1>25 DEF CancelledFinish, shared
  <2>2. /\ worker'.pc = "idle" /\ worker'.id = Nobody /\ worker'.batch = <<>>
        /\ worker'.gen = 0 /\ worker'.cut = FALSE
    BY <2>1 DEF IdleWorker
  <2>3. WorkerStage'
    BY <1>0, <2>1, <2>2 DEF WorkerStage
  <2> QED BY <1>2, <1>3, <2>1, <2>3 DEF Stages
<1>26. ASSUME Proceed
      PROVE  Stages'
  <2>1. /\ UNCHANGED <<stops, closing, client, chan>>
        /\ worker' = [worker EXCEPT !.pc = "clear"]
    BY <1>26 DEF Proceed, WorkerStep, shared
  <2>2. worker.id # Nobody
    BY <1>0, <1>26 DEF Proceed, WorkerStep, WorkerStage
  <2>3. worker.cut => "clear" \in {"check", "cancelled"}
    BY <1>0, <1>26 DEF Proceed, WorkerStep, WorkerStage, IsStale
  <2>4. "clear" \in {"check", "clear", "begin", "cancelled"} \cup InTurn /\ "clear" \in WorkerPcs
    BY DEF InTurn, WorkerPcs, BeforeStart
  <2>5. WorkerStage'
    BY <1>7, <2>1, <2>2, <2>3, <2>4, WorkerSteps
  <2> QED BY <1>2, <1>3, <2>1, <2>5 DEF Stages
<1>27. ASSUME ClearStop
      PROVE  Stages'
  <2>1. /\ UNCHANGED <<stops, closing, client, chan>>
        /\ worker' = [worker EXCEPT !.pc = "begin"]
    BY <1>27 DEF ClearStop, WorkerStep
  <2>2. worker.id # Nobody
    BY <1>0, <1>27 DEF ClearStop, WorkerStep, WorkerStage
  <2>3. worker.cut => "begin" \in {"check", "cancelled"}
    BY <1>0, <1>27 DEF ClearStop, WorkerStep, WorkerStage, IsStale
  <2>4. "begin" \in {"check", "clear", "begin", "cancelled"} \cup InTurn /\ "begin" \in WorkerPcs
    BY DEF InTurn, WorkerPcs, BeforeStart
  <2>5. WorkerStage'
    BY <1>7, <2>1, <2>2, <2>3, <2>4, WorkerSteps
  <2> QED BY <1>2, <1>3, <2>1, <2>5 DEF Stages
<1>28. ASSUME Begin
      PROVE  Stages'
  <2>1. /\ UNCHANGED <<stops, closing, client, chan>>
        /\ worker' = [worker EXCEPT !.pc = "top"]
    BY <1>28 DEF Begin
  <2>2. worker.id # Nobody /\ ~worker.cut
    BY <1>0, <1>28 DEF Begin, WorkerStage
  <2>3. "top" \in {"check", "clear", "begin", "cancelled"} \cup InTurn /\ "top" \in WorkerPcs
    BY DEF InTurn, WorkerPcs, BeforeStart
  <2>4. /\ worker'.pc = "top" /\ worker'.id = worker.id /\ worker'.batch = worker.batch
        /\ worker'.gen = worker.gen /\ worker'.cut = worker.cut
    <3>1. {"none", "answered", "failed", "cancelled"} \subseteq Ends
      BY DEF Ends
    <3>2. "cancelled" \in Ends
      BY <1>28, <3>1
    <3> QED BY <2>1, <2>3, <3>1, <3>2, WorkerSteps
  <2>5. WorkerStage'
    BY <1>7, <2>1, <2>2, <2>3, <2>4
  <2> QED BY <1>2, <1>3, <2>1, <2>5 DEF Stages
<1>29. ASSUME TakeStop
      PROVE  Stages'
  <2>1. /\ UNCHANGED <<stops, closing, client, chan>>
        /\ worker' = [worker EXCEPT !.pc = "close", !.end = "cancelled"]
    BY <1>29 DEF TakeStop, EndTurn
  <2>2. worker.id # Nobody /\ ~worker.cut
    BY <1>0, <1>29 DEF TakeStop, WorkerStage
  <2>3. "close" \in {"check", "clear", "begin", "cancelled"} \cup InTurn /\ "close" \in WorkerPcs
    BY DEF InTurn, WorkerPcs, BeforeStart
  <2>4. /\ worker'.pc = "close" /\ worker'.id = worker.id /\ worker'.batch = worker.batch
        /\ worker'.gen = worker.gen /\ worker'.cut = worker.cut
    <3>1. {"none", "answered", "failed", "cancelled"} \subseteq Ends
      BY DEF Ends
    <3>2. "cancelled" \in Ends
      BY <1>29, <3>1
    <3> QED BY <2>1, <2>3, <3>1, <3>2, WorkerSteps
  <2>5. WorkerStage'
    BY <1>7, <2>1, <2>2, <2>3, <2>4
  <2> QED BY <1>2, <1>3, <2>1, <2>5 DEF Stages
<1>30. ASSUME LookAhead
      PROVE  Stages'
  <2>1. /\ UNCHANGED <<stops, closing, client, chan>>
        /\ worker' = [worker EXCEPT !.pc = "drain"]
    BY <1>30 DEF LookAhead, WorkerStep, shared
  <2>2. worker.id # Nobody
    BY <1>0, <1>30 DEF LookAhead, WorkerStep, WorkerStage
  <2>3. worker.cut => "drain" \in {"check", "cancelled"}
    BY <1>0, <1>30 DEF LookAhead, WorkerStep, WorkerStage, IsStale
  <2>4. "drain" \in {"check", "clear", "begin", "cancelled"} \cup InTurn /\ "drain" \in WorkerPcs
    BY DEF InTurn, WorkerPcs, BeforeStart
  <2>5. WorkerStage'
    BY <1>7, <2>1, <2>2, <2>3, <2>4, WorkerSteps
  <2> QED BY <1>2, <1>3, <2>1, <2>5 DEF Stages
<1>31. ASSUME DrainBeforeRequest
      PROVE  Stages'
  <2>1. /\ UNCHANGED <<stops, closing, client, chan>>
        /\ worker' = [worker EXCEPT !.pc = "top"]
    BY <1>31 DEF DrainBeforeRequest, WorkerStep, Drain
  <2>2. worker.id # Nobody
    BY <1>0, <1>31 DEF DrainBeforeRequest, WorkerStep, WorkerStage, Drain
  <2>3. worker.cut => "top" \in {"check", "cancelled"}
    BY <1>0, <1>31 DEF DrainBeforeRequest, WorkerStep, WorkerStage, IsStale, Drain
  <2>4. "top" \in {"check", "clear", "begin", "cancelled"} \cup InTurn /\ "top" \in WorkerPcs
    BY DEF InTurn, WorkerPcs, BeforeStart
  <2>5. WorkerStage'
    BY <1>7, <2>1, <2>2, <2>3, <2>4, WorkerSteps
  <2> QED BY <1>2, <1>3, <2>1, <2>5 DEF Stages
<1>32. ASSUME AskModel
      PROVE  Stages'
  <2>1. /\ UNCHANGED <<stops, closing, client, chan>>
        /\ worker' = [worker EXCEPT !.pc = "model", !.rounds = @ + 1]
    BY <1>32 DEF AskModel
  <2>2. worker.id # Nobody /\ ~worker.cut
    BY <1>0, <1>32 DEF AskModel, WorkerStage
  <2>3. "model" \in {"check", "clear", "begin", "cancelled"} \cup InTurn /\ "model" \in WorkerPcs
    BY DEF InTurn, WorkerPcs, BeforeStart
  <2>4. /\ worker'.pc = "model" /\ worker'.id = worker.id /\ worker'.batch = worker.batch
        /\ worker'.gen = worker.gen /\ worker'.cut = worker.cut
    <3>1. {"none", "answered", "failed", "cancelled"} \subseteq Ends
      BY DEF Ends
    <3>2. "cancelled" \in Ends
      BY <1>32, <3>1
    <3> QED BY <2>1, <2>3, <3>1, <3>2, WorkerSteps
  <2>5. WorkerStage'
    BY <1>7, <2>1, <2>2, <2>3, <2>4
  <2> QED BY <1>2, <1>3, <2>1, <2>5 DEF Stages
<1>33. ASSUME RunTools
      PROVE  Stages'
  <2>1. /\ UNCHANGED <<stops, closing, client, chan>>
        /\ worker' = [worker EXCEPT !.pc = "top"]
    BY <1>33 DEF RunTools, WorkerStep, Drain
  <2>2. worker.id # Nobody
    BY <1>0, <1>33 DEF RunTools, WorkerStep, WorkerStage, Drain
  <2>3. worker.cut => "top" \in {"check", "cancelled"}
    BY <1>0, <1>33 DEF RunTools, WorkerStep, WorkerStage, IsStale, Drain
  <2>4. "top" \in {"check", "clear", "begin", "cancelled"} \cup InTurn /\ "top" \in WorkerPcs
    BY DEF InTurn, WorkerPcs, BeforeStart
  <2>5. WorkerStage'
    BY <1>7, <2>1, <2>2, <2>3, <2>4, WorkerSteps
  <2> QED BY <1>2, <1>3, <2>1, <2>5 DEF Stages
<1>34. ASSUME NeedApproval
      PROVE  Stages'
  <2>1. /\ UNCHANGED <<stops, closing, client, chan>>
        /\ worker' = [worker EXCEPT !.pc = "approval"]
    BY <1>34 DEF NeedApproval, WorkerStep, shared
  <2>2. worker.id # Nobody
    BY <1>0, <1>34 DEF NeedApproval, WorkerStep, WorkerStage
  <2>3. worker.cut => "approval" \in {"check", "cancelled"}
    BY <1>0, <1>34 DEF NeedApproval, WorkerStep, WorkerStage, IsStale
  <2>4. "approval" \in {"check", "clear", "begin", "cancelled"} \cup InTurn /\ "approval" \in WorkerPcs
    BY DEF InTurn, WorkerPcs, BeforeStart
  <2>5. WorkerStage'
    BY <1>7, <2>1, <2>2, <2>3, <2>4, WorkerSteps
  <2> QED BY <1>2, <1>3, <2>1, <2>5 DEF Stages
<1>35. ASSUME DenyByStop
      PROVE  Stages'
  <2>1. /\ UNCHANGED <<stops, closing, client, chan>>
        /\ worker' = [worker EXCEPT !.pc = "top"]
    BY <1>35 DEF DenyByStop, WorkerStep
  <2>2. worker.id # Nobody
    BY <1>0, <1>35 DEF DenyByStop, WorkerStep, WorkerStage
  <2>3. worker.cut => "top" \in {"check", "cancelled"}
    BY <1>0, <1>35 DEF DenyByStop, WorkerStep, WorkerStage, IsStale
  <2>4. "top" \in {"check", "clear", "begin", "cancelled"} \cup InTurn /\ "top" \in WorkerPcs
    BY DEF InTurn, WorkerPcs, BeforeStart
  <2>5. WorkerStage'
    BY <1>7, <2>1, <2>2, <2>3, <2>4, WorkerSteps
  <2> QED BY <1>2, <1>3, <2>1, <2>5 DEF Stages
<1>36. ASSUME Approve
      PROVE  Stages'
  <2>1. /\ UNCHANGED <<stops, closing, client, chan>>
        /\ worker' = [worker EXCEPT !.pc = "top"]
    BY <1>36 DEF Approve, WorkerStep, Drain
  <2>2. worker.id # Nobody
    BY <1>0, <1>36 DEF Approve, WorkerStep, WorkerStage, Drain
  <2>3. worker.cut => "top" \in {"check", "cancelled"}
    BY <1>0, <1>36 DEF Approve, WorkerStep, WorkerStage, IsStale, Drain
  <2>4. "top" \in {"check", "clear", "begin", "cancelled"} \cup InTurn /\ "top" \in WorkerPcs
    BY DEF InTurn, WorkerPcs, BeforeStart
  <2>5. WorkerStage'
    BY <1>7, <2>1, <2>2, <2>3, <2>4, WorkerSteps
  <2> QED BY <1>2, <1>3, <2>1, <2>5 DEF Stages
<1>37. ASSUME ToolGenFails
      PROVE  Stages'
  <2>1. /\ UNCHANGED <<stops, closing, client, chan>>
        /\ worker' = [worker EXCEPT !.pc = "finish", !.end = "answered"]
    BY <1>37 DEF ToolGenFails, shared
  <2>2. worker.id # Nobody /\ ~worker.cut
    BY <1>0, <1>37 DEF ToolGenFails, WorkerStage
  <2>3. "finish" \in {"check", "clear", "begin", "cancelled"} \cup InTurn /\ "finish" \in WorkerPcs
    BY DEF InTurn, WorkerPcs, BeforeStart
  <2>4. /\ worker'.pc = "finish" /\ worker'.id = worker.id /\ worker'.batch = worker.batch
        /\ worker'.gen = worker.gen /\ worker'.cut = worker.cut
    <3>1. {"none", "answered", "failed", "cancelled"} \subseteq Ends
      BY DEF Ends
    <3>2. "cancelled" \in Ends
      BY <1>37, <3>1
    <3> QED BY <2>1, <2>3, <3>1, <3>2, WorkerSteps, ZenonT(60)
  <2>5. WorkerStage'
    BY <1>7, <2>1, <2>2, <2>3, <2>4
  <2> QED BY <1>2, <1>3, <2>1, <2>5 DEF Stages
<1>38. ASSUME NEW how \in {"answered", "failed"}, Answer(how)
      PROVE  Stages'
  <2>1. /\ UNCHANGED <<stops, closing, client, chan>>
        /\ worker' = [worker EXCEPT !.pc = "close", !.end = how]
    BY <1>38 DEF Answer, shared, EndTurn
  <2>2. worker.id # Nobody /\ ~worker.cut
    BY <1>0, <1>38 DEF Answer, WorkerStage
  <2>3. "close" \in {"check", "clear", "begin", "cancelled"} \cup InTurn /\ "close" \in WorkerPcs
    BY DEF InTurn, WorkerPcs, BeforeStart
  <2>4. /\ worker'.pc = "close" /\ worker'.id = worker.id /\ worker'.batch = worker.batch
        /\ worker'.gen = worker.gen /\ worker'.cut = worker.cut
    <3>1. {"none", "answered", "failed", "cancelled"} \subseteq Ends
      BY DEF Ends
    <3>2. how \in Ends
      BY <1>38, <3>1
    <3> QED BY <2>1, <2>3, <3>1, <3>2, WorkerSteps, Zenon
  <2>5. WorkerStage'
    BY <1>7, <2>1, <2>2, <2>3, <2>4
  <2> QED BY <1>2, <1>3, <2>1, <2>5 DEF Stages
<1>39. ASSUME CloseForHandoff
      PROVE  Stages'
  <2>1. /\ UNCHANGED <<stops, closing, client, chan>>
        /\ worker' = [worker EXCEPT !.pc = "finish"]
    BY <1>39 DEF CloseForHandoff, WorkerStep
  <2>2. worker.id # Nobody
    BY <1>0, <1>39 DEF CloseForHandoff, WorkerStep, WorkerStage
  <2>3. worker.cut => "finish" \in {"check", "cancelled"}
    BY <1>0, <1>39 DEF CloseForHandoff, WorkerStep, WorkerStage, IsStale
  <2>4. "finish" \in {"check", "clear", "begin", "cancelled"} \cup InTurn /\ "finish" \in WorkerPcs
    BY DEF InTurn, WorkerPcs, BeforeStart
  <2>5. WorkerStage'
    BY <1>7, <2>1, <2>2, <2>3, <2>4, WorkerSteps
  <2> QED BY <1>2, <1>3, <2>1, <2>5 DEF Stages
<1>40. ASSUME Finish
      PROVE  Stages'
  <2>1. UNCHANGED <<stops, closing, client, chan>> /\ worker' = IdleWorker
    BY <1>40 DEF Finish, shared
  <2>2. /\ worker'.pc = "idle" /\ worker'.id = Nobody /\ worker'.batch = <<>>
        /\ worker'.gen = 0 /\ worker'.cut = FALSE
    BY <2>1 DEF IdleWorker
  <2>3. WorkerStage'
    BY <1>0, <2>1, <2>2 DEF WorkerStage
  <2> QED BY <1>2, <1>3, <2>1, <2>3 DEF Stages
<1>41. ASSUME UNCHANGED vars
      PROVE  Stages'
  BY <1>2, <1>3, <1>4, <1>41 DEF vars, shared, Stages
<1> QED
  BY <1>8, <1>9, <1>10, <1>11, <1>12, <1>13, <1>14, <1>15, <1>16, <1>17, <1>18, <1>19, <1>20, <1>21, <1>22, <1>23, <1>24, <1>25, <1>26, <1>27, <1>28, <1>29, <1>30, <1>31, <1>32, <1>33, <1>34, <1>35, <1>36, <1>37, <1>38, <1>39, <1>40, <1>41, Zenon
     DEF Next, Worker, Dequeue, TurnLoop, Ending, Client, Submit, Batches

-----------------------------------------------------------------------------
(* Starts, ends and acknowledgements. *)

(* At first nothing has started or ended.                                  *)
LEMMA PairedAtFirst == Init => StartsAndEndsPair
<1> SUFFICES ASSUME Init, NEW t \in Turns
             PROVE  /\ told.started[t] = told.ended[t] + (IF IsOn(t) THEN 1 ELSE 0)
                    /\ told.started[t] = Occurs(told.acked, t)
  BY DEF StartsAndEndsPair
<1>1. told.acked = <<>> /\ told.started[t] = 0 /\ told.ended[t] = 0 /\ worker.id = Nobody
  BY DEF Init, IdleWorker
<1>2. ~IsOn(t)
  BY <1>1, Limits DEF IsOn, Ids
<1>3. Occurs(<<>>, t) = 0
  BY EmptySeq, OccursFacts
<1> QED BY <1>1, <1>2, <1>3

(* Every step keeps starts, ends and acknowledgements paired.              *)
LEMMA PairedAfter ==
    ASSUME SharedType, ActorType, Stages, StartsAndEndsPair, [Next]_vars
    PROVE  StartsAndEndsPair'
<1>0. /\ told \in ToldType /\ told.acked \in Seq(Ids) /\ WorkerStage /\ Nobody \notin Turns
      /\ told.started \in [Turns -> Nat] /\ told.ended \in [Turns -> Nat]
      /\ mailbox.queue \in Seq(Ids) /\ \A t \in Turns : t \notin ToSet(mailbox.queue)
      /\ worker.id \in TurnOrNone /\ worker.batch \in Batches
  <2>1. ToSet(mailbox.queue) \subseteq Supplements
    <3>1. mailbox.queue \in Seq(Supplements)
      BY SharedFacts
    <3> QED BY <3>1, LenProperties, ElementOfSeq DEF ToSet
  <2> QED BY <2>1, SharedFacts, WorkerSteps, Limits DEF Ids, Stages
<1>1. \A t \in Turns : Occurs(told.acked, t) \in Nat
  BY <1>0, OccursFacts
<1>2. ASSUME told' = told, \A t \in Turns : IsOn(t)' <=> IsOn(t)
      PROVE  StartsAndEndsPair'
  BY <1>2, Zenon DEF StartsAndEndsPair
<1>3. ASSUME told' = TellAcked(told, mailbox.queue), \A t \in Turns : IsOn(t)' <=> IsOn(t)
      PROVE  StartsAndEndsPair'
  <2>1. /\ told'.acked = told.acked \o mailbox.queue
        /\ told'.started = told.started /\ told'.ended = told.ended
    BY <1>0, <1>3 DEF TellAcked, ToldType
  <2>2. ASSUME NEW t \in Turns PROVE Occurs(told'.acked, t) = Occurs(told.acked, t)
    <3>1. Occurs(mailbox.queue, t) = 0
      BY <1>0, OccursFacts
    <3>2. Occurs(told.acked \o mailbox.queue, t) = Occurs(told.acked, t) + Occurs(mailbox.queue, t)
      BY <1>0, OccursFacts
    <3> QED BY <1>1, <2>1, <3>1, <3>2
  <2> QED BY <1>3, <2>1, <2>2 DEF StartsAndEndsPair
<1>4. ASSUME NEW ids \in Seq(Ids), told' = TellStarted(TellAcked(told, ids), worker.id),
             worker.id \in Turns,
             \A t \in Turns : Occurs(ids, t) = IF t = worker.id THEN 1 ELSE 0,
             ~IsOn(worker.id), worker'.id = worker.id, ~NotStarted'
      PROVE  StartsAndEndsPair'
  <2>1. /\ told'.acked = told.acked \o ids /\ told'.ended = told.ended
        /\ told'.started = [told.started EXCEPT ![worker.id] = @ + 1]
    <3> DEFINE m == TellAcked(told, ids)
    <3>1. m \in ToldType /\ m.acked = told.acked \o ids /\ m.started = told.started /\ m.ended = told.ended
      BY <1>0, <1>4, ToldFacts
    <3> HIDE DEF m
    <3>2. told' = TellStarted(m, worker.id)
      BY <1>4 DEF m
    <3> QED BY <1>4, <3>1, <3>2 DEF TellStarted, ToldType
  <2>2. \A t \in Turns : /\ IsOn(t)' <=> t = worker.id
                         /\ IsOn(t) => FALSE
    BY <1>4 DEF IsOn
  <2>3. ASSUME NEW t \in Turns PROVE Occurs(told'.acked, t) = Occurs(told.acked, t) + Occurs(ids, t)
    BY <1>0, <1>4, <2>1, OccursConcat
  <2>4. SUFFICES ASSUME NEW t \in Turns
        PROVE  /\ told'.started[t] = told'.ended[t] + (IF IsOn(t)' THEN 1 ELSE 0)
               /\ told'.started[t] = Occurs(told'.acked, t)
    BY DEF StartsAndEndsPair
  <2>5. told.started[t] = told.ended[t] /\ told.started[t] = Occurs(told.acked, t)
    BY <1>0, <2>2 DEF StartsAndEndsPair
  <2> QED BY <1>0, <1>1, <1>4, <2>1, <2>2, <2>3, <2>5
<1>5. ASSUME told' = TellEnded(told, worker.id), worker.id \in Turns, ~NotStarted,
             worker'.id = Nobody
      PROVE  StartsAndEndsPair'
  <2>1. /\ told'.acked = told.acked /\ told'.started = told.started
        /\ told'.ended = [told.ended EXCEPT ![worker.id] = @ + 1]
    BY <1>0, <1>5 DEF TellEnded, ToldType
  <2>2. \A t \in Turns : ~IsOn(t)' /\ (IsOn(t) <=> t = worker.id)
    BY <1>0, <1>5 DEF IsOn
  <2>3. SUFFICES ASSUME NEW t \in Turns
        PROVE  /\ told'.started[t] = told'.ended[t] + (IF IsOn(t)' THEN 1 ELSE 0)
               /\ told'.started[t] = Occurs(told'.acked, t)
    BY DEF StartsAndEndsPair
  <2>4. /\ told.started[t] = told.ended[t] + (IF t = worker.id THEN 1 ELSE 0)
        /\ told.started[t] = Occurs(told.acked, t)
    BY <2>2 DEF StartsAndEndsPair
  <2> QED BY <1>0, <2>1, <2>2, <2>4
<1>6. ASSUME NEW c \in Clients, Client(c)
      PROVE  StartsAndEndsPair'
  <2>1. UNCHANGED <<told, worker>> \/ StopFlag(c)
    BY <1>6, Zenon DEF Client, Submit, Reserve, Stamp, OpenMailbox, Send, SendFails, Supplement,
       QueueCompact, Stop, Shutdown, ShutdownMark, ShutdownFlag, ShutdownSend, ShutdownStep
  <2>2. told' = told /\ worker'.id = worker.id /\ worker'.pc = worker.pc
    BY <2>1 DEF StopFlag, ActorType, WorkerType
  <2> QED BY <1>2, <2>2 DEF IsOn, NotStarted
<1>7. ASSUME Receive
      PROVE  StartsAndEndsPair'
  <2>1. told' = told /\ worker.id = Nobody /\ NotStarted'
    BY <1>0, <1>7, CommandFacts DEF Receive, Received, WorkerStage, NotStarted
  <2> QED BY <1>0, <1>2, <2>1 DEF IsOn
<1>8. ASSUME Quit
      PROVE  StartsAndEndsPair'
  <2>1. told' = told /\ worker'.id = Nobody /\ NotStarted
    BY <1>8 DEF Quit, IdleWorker, NotStarted
  <2> QED BY <1>0, <1>2, <2>1 DEF IsOn
<1>9. ASSUME Take
      PROVE  StartsAndEndsPair'
  <2>1. told' = told /\ worker'.id = worker.id /\ (NotStarted' <=> NotStarted)
    BY <1>0, <1>9 DEF Take, WorkerStep, NotStarted, ActorType, WorkerType
  <2> QED BY <1>2, <2>1 DEF IsOn
<1>10. ASSUME CancelBeforeStart
      PROVE  StartsAndEndsPair'
  <2>1. /\ told' = TellStarted(TellAcked(told, <<worker.id>> \o worker.batch), worker.id)
        /\ worker.pc = "check" /\ worker' = [worker EXCEPT !.pc = "cancelled"]
    BY <1>10 DEF CancelBeforeStart, WorkerStep
  <2>2. worker.id \in Turns
    BY <1>0, <2>1 DEF WorkerStage, TurnOrNone
  <2>3. worker'.id = worker.id /\ ~NotStarted' /\ NotStarted
    BY <2>1 DEF NotStarted, ActorType, WorkerType
  <2>4. <<worker.id>> \o worker.batch \in Seq(Ids)
    BY <1>0, <2>2, CommandIds
  <2>5. ASSUME NEW t \in Turns
        PROVE  Occurs(<<worker.id>> \o worker.batch, t) = IF t = worker.id THEN 1 ELSE 0
    <3>1. <<worker.id>> \in Seq(Ids) /\ worker.batch \in Seq(Ids) /\ t \notin ToSet(worker.batch)
      BY <1>0, <2>2, CommandIds, BatchFacts
    <3>2. Occurs(worker.batch, t) = 0
      BY <3>1, OccursFacts
    <3>3. Occurs(<<worker.id>> \o worker.batch, t)
            = Occurs(<<worker.id>>, t) + Occurs(worker.batch, t)
      BY <3>1, OccursConcat
    <3>4. Occurs(<<worker.id>>, t) = IF worker.id = t THEN 1 ELSE 0
      BY <3>1, OccursFacts
    <3> QED BY <3>2, <3>3, <3>4
  <2>6. ~IsOn(worker.id)
    BY <2>3 DEF IsOn
  <2> QED BY <1>4, <2>1, <2>2, <2>3, <2>4, <2>5, <2>6
<1>11. ASSUME CancelledFinish
      PROVE  StartsAndEndsPair'
  <2>1. told' = TellEnded(told, worker.id) /\ worker'.id = Nobody /\ ~NotStarted
    BY <1>11 DEF CancelledFinish, IdleWorker, NotStarted
  <2>2. worker.id \in Turns
    BY <1>0, <1>11 DEF CancelledFinish, WorkerStage, TurnOrNone
  <2> QED BY <1>5, <2>1, <2>2
<1>12. ASSUME Proceed
      PROVE  StartsAndEndsPair'
  <2>1. told' = told /\ worker'.id = worker.id /\ (NotStarted' <=> NotStarted)
    BY <1>0, <1>12 DEF Proceed, WorkerStep, NotStarted, ActorType, WorkerType
  <2> QED BY <1>2, <2>1 DEF IsOn
<1>13. ASSUME ClearStop
      PROVE  StartsAndEndsPair'
  <2>1. told' = told /\ worker'.id = worker.id /\ (NotStarted' <=> NotStarted)
    BY <1>0, <1>13 DEF ClearStop, WorkerStep, NotStarted, ActorType, WorkerType
  <2> QED BY <1>2, <2>1 DEF IsOn
<1>14. ASSUME Begin
      PROVE  StartsAndEndsPair'
  <2>1. /\ told' = TellStarted(TellAcked(told, <<worker.id>>), worker.id)
        /\ worker.pc = "begin" /\ worker' = [worker EXCEPT !.pc = "top"]
    BY <1>14 DEF Begin
  <2>2. worker.id \in Turns
    BY <1>0, <2>1 DEF WorkerStage, TurnOrNone
  <2>3. worker'.id = worker.id /\ ~NotStarted' /\ NotStarted
    BY <2>1 DEF NotStarted, ActorType, WorkerType
  <2>4. <<worker.id>> \in Seq(Ids)
    BY <1>0, <2>2, CommandIds
  <2>5. \A t \in Turns : Occurs(<<worker.id>>, t) = IF t = worker.id THEN 1 ELSE 0
    BY <2>4, OccursFacts
  <2>6. ~IsOn(worker.id)
    BY <2>3 DEF IsOn
  <2> QED BY <1>4, <2>1, <2>2, <2>3, <2>4, <2>5, <2>6
<1>15. ASSUME TakeStop
      PROVE  StartsAndEndsPair'
  <2>1. told' = told /\ worker'.id = worker.id /\ (NotStarted' <=> NotStarted)
    BY <1>0, <1>15 DEF TakeStop, EndTurn, NotStarted, ActorType, WorkerType
  <2> QED BY <1>2, <2>1 DEF IsOn
<1>16. ASSUME LookAhead
      PROVE  StartsAndEndsPair'
  <2>1. told' = told /\ worker'.id = worker.id /\ (NotStarted' <=> NotStarted)
    BY <1>0, <1>16 DEF LookAhead, WorkerStep, NotStarted, ActorType, WorkerType
  <2> QED BY <1>2, <2>1 DEF IsOn
<1>17. ASSUME DrainBeforeRequest
      PROVE  StartsAndEndsPair'
  <2>1. told' = TellAcked(told, mailbox.queue) /\ worker'.id = worker.id /\ (NotStarted' <=> NotStarted)
    BY <1>0, <1>17 DEF DrainBeforeRequest, Drain, WorkerStep, NotStarted, ActorType, WorkerType
  <2> QED BY <1>3, <2>1 DEF IsOn
<1>18. ASSUME AskModel
      PROVE  StartsAndEndsPair'
  <2>1. told' = told /\ worker'.id = worker.id /\ (NotStarted' <=> NotStarted)
    BY <1>0, <1>18 DEF AskModel, NotStarted, ActorType, WorkerType
  <2> QED BY <1>2, <2>1 DEF IsOn
<1>19. ASSUME RunTools
      PROVE  StartsAndEndsPair'
  <2>1. told' = TellAcked(told, mailbox.queue) /\ worker'.id = worker.id /\ (NotStarted' <=> NotStarted)
    BY <1>0, <1>19 DEF RunTools, Drain, WorkerStep, NotStarted, ActorType, WorkerType
  <2> QED BY <1>3, <2>1 DEF IsOn
<1>20. ASSUME NeedApproval
      PROVE  StartsAndEndsPair'
  <2>1. told' = told /\ worker'.id = worker.id /\ (NotStarted' <=> NotStarted)
    BY <1>0, <1>20 DEF NeedApproval, WorkerStep, NotStarted, ActorType, WorkerType
  <2> QED BY <1>2, <2>1 DEF IsOn
<1>21. ASSUME DenyByStop
      PROVE  StartsAndEndsPair'
  <2>1. told' = told /\ worker'.id = worker.id /\ (NotStarted' <=> NotStarted)
    BY <1>0, <1>21 DEF DenyByStop, WorkerStep, NotStarted, ActorType, WorkerType
  <2> QED BY <1>2, <2>1 DEF IsOn
<1>22. ASSUME Approve
      PROVE  StartsAndEndsPair'
  <2>1. told' = TellAcked(told, mailbox.queue) /\ worker'.id = worker.id /\ (NotStarted' <=> NotStarted)
    BY <1>0, <1>22 DEF Approve, Drain, WorkerStep, NotStarted, ActorType, WorkerType
  <2> QED BY <1>3, <2>1 DEF IsOn
<1>23. ASSUME ToolGenFails
      PROVE  StartsAndEndsPair'
  <2>1. told' = told /\ worker'.id = worker.id /\ (NotStarted' <=> NotStarted)
    BY <1>0, <1>23 DEF ToolGenFails, NotStarted, ActorType, WorkerType
  <2> QED BY <1>2, <2>1 DEF IsOn
<1>24. ASSUME NEW how \in {"answered", "failed"}, Answer(how)
      PROVE  StartsAndEndsPair'
  <2>1. told' = told /\ worker'.id = worker.id /\ (NotStarted' <=> NotStarted)
    BY <1>0, <1>24 DEF Answer, EndTurn, NotStarted, ActorType, WorkerType
  <2> QED BY <1>2, <2>1 DEF IsOn
<1>25. ASSUME CloseForHandoff
      PROVE  StartsAndEndsPair'
  <2>1. told' = TellAcked(told, mailbox.queue) /\ worker'.id = worker.id /\ (NotStarted' <=> NotStarted)
    BY <1>0, <1>25 DEF CloseForHandoff, WorkerStep, NotStarted, ActorType, WorkerType
  <2> QED BY <1>3, <2>1 DEF IsOn
<1>26. ASSUME Finish
      PROVE  StartsAndEndsPair'
  <2>1. told' = TellEnded(told, worker.id) /\ worker'.id = Nobody /\ ~NotStarted
    BY <1>26 DEF Finish, IdleWorker, NotStarted
  <2>2. worker.id \in Turns
    BY <1>0, <1>26 DEF Finish, WorkerStage, TurnOrNone
  <2> QED BY <1>5, <2>1, <2>2
<1>27. ASSUME UNCHANGED vars
      PROVE  StartsAndEndsPair'
  BY <1>2, <1>27, Zenon DEF vars, shared, IsOn, NotStarted
<1> QED
  BY <1>6, <1>7, <1>8, <1>9, <1>10, <1>11, <1>12, <1>13, <1>14, <1>15, <1>16, <1>17, <1>18, <1>19, <1>20, <1>21, <1>22, <1>23, <1>24, <1>25, <1>26, <1>27, Zenon
     DEF Next, Worker, Dequeue, TurnLoop, Ending

-----------------------------------------------------------------------------
(* How the places that hold an id change. *)
One(holds) == IF holds THEN 1 ELSE 0

(* A step of one client changes the count of clients by what it picks up   *)
(* and puts down.                                                          *)
LEMMA InCallChanges ==
    ASSUME ActorType, NEW c \in Clients, NEW x \in ClientType,
           client' = [client EXCEPT ![c] = x], NEW i
    PROVE  /\ InCall(i) \in Nat /\ InCall(i)' \in Nat
           /\ InCall(i)' = InCall(i) + One(Holds(x, i)) - One(Holds(client[c], i))
<1> DEFINE H == {d \in Clients : Holds(client[d], i)}
           G == {d \in Clients : Holds(client'[d], i)}
           R == H \ {c}
<1>1. /\ client' \in [Clients -> ClientType] /\ client'[c] = x
      /\ \A d \in Clients : d # c => client'[d] = client[d]
  BY DEF ActorType
<1>2. IsFiniteSet(H) /\ IsFiniteSet(G)
  BY Limits, FS_Subset
<1>3. G = IF Holds(x, i) THEN R \cup {c} ELSE R
  BY <1>1
<1>4. H = IF Holds(client[c], i) THEN R \cup {c} ELSE R
  OBVIOUS
<1>5. InCall(i) = Cardinality(H) /\ InCall(i)' = Cardinality(G)
  BY DEF InCall
<1>6. c \notin R /\ IsFiniteSet(R)
  BY <1>2, FS_RemoveElement
<1> HIDE DEF H, G, R
<1>7. Cardinality(R) \in Nat /\ Cardinality(R \cup {c}) = Cardinality(R) + 1
  BY <1>6, FS_AddElement, FS_CardinalityType
<1>8. Cardinality(G) = Cardinality(R) + One(Holds(x, i))
  BY <1>3, <1>7 DEF One
<1>9. Cardinality(H) = Cardinality(R) + One(Holds(client[c], i))
  BY <1>4, <1>7 DEF One
<1>10. One(Holds(x, i)) \in Nat /\ One(Holds(client[c], i)) \in Nat
  BY DEF One
<1> QED BY <1>5, <1>7, <1>8, <1>9, <1>10

(* Sending, receiving, dropping and marking, and the count of the channel. *)
LEMMA InChannelChanges ==
    ASSUME SharedType, ActorType, NEW i
    PROVE  /\ InChannel(i) \in Nat
           /\ \A m \in CommandType : chan' = Append(chan, m)
                => InChannel(i)' = InChannel(i) + One(Holds(m, i))
           /\ chan # <<>> /\ chan' = Tail(chan)
                => /\ InChannel(i)' \in Nat
                   /\ InChannel(i) = InChannel(i)' + One(Holds(Head(chan), i))
           /\ chan' = <<>> => InChannel(i)' = 0
           /\ chan' = MarkCut(chan) \/ chan' = MarkEarly(chan) => InChannel(i)' = InChannel(i)
<1> DEFINE S == {m \in CommandType : Holds(m, i)}
<1>1. /\ chan \in Seq(CommandType) /\ DOMAIN chan = 1 .. Len(chan) /\ Len(chan) \in Nat
      /\ \A k \in DOMAIN chan : chan[k] \in CommandType
  BY SharedFacts
<1>2. ASSUME NEW s \in Seq(CommandType)
      PROVE  {k \in DOMAIN s : Holds(s[k], i)} = Hits(s, S)
  BY <1>2, LenProperties, ElementOfSeq DEF Hits
<1>3. InChannel(i) = Cardinality(Hits(chan, S))
  BY <1>1, <1>2 DEF InChannel
<1>4. \A m \in CommandType : m \in S <=> Holds(m, i)
  OBVIOUS
<1> HIDE DEF S
<1>5. InChannel(i) \in Nat
  BY <1>1, <1>3, HitsAreFinite
<1>6. ASSUME NEW m \in CommandType, chan' = Append(chan, m)
      PROVE  InChannel(i)' = InChannel(i) + One(Holds(m, i))
  <2>1. Append(chan, m) \in Seq(CommandType)
    BY <1>1, AppendProperties
  <2>2. InChannel(i)' = Cardinality(Hits(Append(chan, m), S))
    BY <1>2, <1>6, <2>1 DEF InChannel
  <2>3. Cardinality(Hits(Append(chan, m), S))
          = Cardinality(Hits(chan, S)) + (IF m \in S THEN 1 ELSE 0)
    BY <1>1, HitsAppend
  <2> QED BY <1>3, <1>4, <2>2, <2>3 DEF One
<1>7. ASSUME chan # <<>>, chan' = Tail(chan)
      PROVE  /\ InChannel(i)' \in Nat
             /\ InChannel(i) = InChannel(i)' + One(Holds(Head(chan), i))
  <2>1. Tail(chan) \in Seq(CommandType) /\ Head(chan) \in CommandType
    BY <1>1, <1>7, HeadTailProperties
  <2>2. InChannel(i)' = Cardinality(Hits(Tail(chan), S))
    BY <1>2, <1>7, <2>1 DEF InChannel
  <2>3. Cardinality(Hits(chan, S))
          = Cardinality(Hits(Tail(chan), S)) + (IF Head(chan) \in S THEN 1 ELSE 0)
    BY <1>1, <1>7, HitsTail
  <2>4. Cardinality(Hits(Tail(chan), S)) \in Nat
    BY <2>1, HitsAreFinite
  <2> QED BY <1>3, <1>4, <2>1, <2>2, <2>3, <2>4 DEF One
<1>8. ASSUME chan' = <<>> PROVE InChannel(i)' = 0
  <2>1. {k \in DOMAIN <<>> : Holds(<<>>[k], i)} = {}
    OBVIOUS
  <2> QED BY <1>8, <2>1, FS_EmptySet DEF InChannel
<1>9. ASSUME chan' = MarkCut(chan) \/ chan' = MarkEarly(chan)
      PROVE  InChannel(i)' = InChannel(i)
  <2>1. /\ DOMAIN chan' = DOMAIN chan
        /\ \A k \in DOMAIN chan : chan'[k].id = chan[k].id /\ chan'[k].batch = chan[k].batch
    BY <1>1, <1>9, MarkedFacts
  <2>2. {k \in DOMAIN chan' : Holds(chan'[k], i)} = {k \in DOMAIN chan : Holds(chan[k], i)}
    BY <2>1 DEF Holds
  <2> QED BY <2>2 DEF InChannel
<1> QED BY <1>5, <1>6, <1>7, <1>8, <1>9

(* All the counts are natural numbers.                                     *)
LEMMA CountsAreNatural ==
    ASSUME SharedType, ActorType, NEW i
    PROVE  /\ InCall(i) \in Nat /\ InChannel(i) \in Nat /\ InHand(i) \in Nat
           /\ InMailbox(i) \in Nat /\ Carried(i) \in Nat
           /\ Pending(i) \in Nat /\ Occurs(told.acked, i) \in Nat
<1>1. IsFiniteSet({c \in Clients : Holds(client[c], i)})
  BY Limits, FS_Subset
<1>2. InCall(i) \in Nat
  BY <1>1, FS_CardinalityType DEF InCall
<1>3. InHand(i) \in Nat /\ Pending(i) \in Nat
  BY DEF InHand, Pending
<1>4. InMailbox(i) \in Nat /\ Occurs(told.acked, i) \in Nat
  BY SharedFacts, OccursFacts DEF InMailbox
<1>5. InChannel(i) \in Nat
  BY InChannelChanges
<1> QED BY <1>2, <1>3, <1>4, <1>5 DEF Carried

(* Removing ids from the pending ones, and adding new ones. *)
LEMMA TrackedWithout ==
    ASSUME NEW t, NEW a, Tracked(t, a), NEW ids
    PROVE  Tracked([t EXCEPT !.pending = @ \ ids], a)
<1> DEFINE u == [t EXCEPT !.pending = @ \ ids]
<1>1. u \in TrackerType /\ u.pending = t.pending \ ids /\ u.recent = t.recent
  BY DEF Tracked, TrackerType
<1>2. IsFiniteSet(t.pending) /\ Cardinality(t.pending) <= Capacity
  BY DEF Tracked
<1> HIDE DEF u
<1>3. IsFiniteSet(u.pending) /\ Cardinality(u.pending) <= Cardinality(t.pending)
  BY <1>1, <1>2, FS_Subset
<1>4. Cardinality(u.pending) <= Capacity
  <2>1. Cardinality(u.pending) \in Nat /\ Cardinality(t.pending) \in Nat
    BY <1>2, <1>3, FS_CardinalityType
  <2> QED BY <1>2, <1>3, <2>1, Limits
<1>5. u.pending \cap ToSet(u.recent) = {}
  BY <1>1 DEF Tracked
<1>6. Tracked(u, a)
  BY <1>1, <1>3, <1>4, <1>5 DEF Tracked
<1> QED BY <1>6 DEF u

(* Reserving ids that the tracker does not remember.                       *)
LEMMA TrackedWith ==
    ASSUME NEW t, NEW a, Tracked(t, a), NEW ids \in SUBSET Ids, IsFiniteSet(ids),
           \A i \in ids : ~Remembers(t, i), HasRoom(t, ids)
    PROVE  Tracked([t EXCEPT !.pending = @ \cup ids], a)
<1> DEFINE u == [t EXCEPT !.pending = @ \cup ids]
<1>1. u \in TrackerType /\ u.pending = t.pending \cup ids /\ u.recent = t.recent
  BY DEF Tracked, TrackerType
<1>2. IsFiniteSet(t.pending)
  BY DEF Tracked
<1>3. t.pending \cap ids = {} /\ ids \cap ToSet(t.recent) = {}
  BY DEF Remembers
<1> HIDE DEF u
<1>4. IsFiniteSet(u.pending) /\ Cardinality(u.pending) <= Capacity
  <2>1. Cardinality(t.pending \cup ids) = Cardinality(t.pending) + Cardinality(ids)
    BY <1>2, <1>3, DisjointUnion
  <2>2. IsFiniteSet(t.pending \cup ids)
    BY <1>2, FS_Union
  <2> QED BY <1>1, <2>1, <2>2 DEF HasRoom
<1>5. u.pending \cap ToSet(u.recent) = {}
  BY <1>1, <1>3 DEF Tracked
<1>6. Tracked(u, a)
  BY <1>1, <1>4, <1>5 DEF Tracked
<1> QED BY <1>6 DEF u

(* A sequence in which nothing occurs twice has no repetition.             *)
LEMMA OnceIsInjective ==
    ASSUME NEW T, NEW s \in Seq(T), \A x \in T : Occurs(s, x) <= 1
    PROVE  IsInjective(s)
<1>1. SUFFICES ASSUME NEW j \in DOMAIN s, NEW k \in DOMAIN s, s[j] = s[k], j # k PROVE FALSE
  BY DEF IsInjective
<1> DEFINE H == {m \in DOMAIN s : s[m] = s[j]}
<1>2. Len(s) \in Nat /\ DOMAIN s = 1 .. Len(s) /\ s[j] \in T
  BY LenProperties, ElementOfSeq
<1>3. IsFiniteSet(H) /\ {j, k} \in SUBSET H
  <2>1. IsFiniteSet(1 .. Len(s))
    BY <1>2, FS_Interval
  <2> QED BY <1>1, <1>2, <2>1, FS_Subset
<1>4. IsFiniteSet({j}) /\ Cardinality({j}) = 1
  BY FS_Singleton
<1>5. Cardinality({j} \cup {k}) = 2
  <2> DEFINE A == {j}
  <2>1. k \notin A /\ IsFiniteSet(A) /\ Cardinality(A) = 1
    BY <1>1, <1>4
  <2> HIDE DEF A
  <2>2. Cardinality(A \cup {k}) = Cardinality(A) + 1
    BY <2>1, FS_AddElement
  <2>3. Cardinality(A \cup {k}) = 2
    BY <2>1, <2>2
  <2> QED BY <2>3 DEF A
<1>6. {j, k} = {j} \cup {k}
  OBVIOUS
<1> HIDE DEF H
<1>7. Cardinality({j, k}) <= Cardinality(H) /\ Cardinality(H) \in Nat
  BY <1>3, FS_Subset, FS_CardinalityType
<1>8. Cardinality(H) <= 1
  BY <1>2 DEF Occurs, H
<1>9. Cardinality({j, k}) = 2
  BY <1>5, <1>6, Zenon
<1> DEFINE a == Cardinality({j, k})
           b == Cardinality(H)
<1>10. a = 2 /\ a <= b /\ b \in Nat /\ b <= 1
  BY <1>7, <1>8, <1>9, Zenon
<1> HIDE DEF a, b
<1> QED BY <1>10

(* In a sequence without repetition each value occurs once.                *)
LEMMA OccursIfInjective ==
    ASSUME NEW T, NEW s \in Seq(T), IsInjective(s), NEW x
    PROVE  Occurs(s, x) = IF x \in ToSet(s) THEN 1 ELSE 0
<1>1. CASE x \notin ToSet(s)
  BY <1>1, OccursFacts
<1>2. CASE x \in ToSet(s)
  <2>1. PICK k \in DOMAIN s : s[k] = x
    BY <1>2 DEF ToSet
  <2>2. {m \in DOMAIN s : s[m] = x} = {k}
    BY <2>1 DEF IsInjective
  <2> QED BY <1>2, <2>2, FS_Singleton DEF Occurs
<1> QED BY <1>1, <1>2

-----------------------------------------------------------------------------
(* Every id is carried once. *)
CountInv == Tracked(tracker, told.acked) /\ CarriedOnce /\ NothingIsLost

(* At first no id is anywhere.                                             *)
LEMMA CountedAtFirst == Init => CountInv
<1> SUFFICES ASSUME Init PROVE CountInv
  OBVIOUS
<1>1. /\ tracker = [pending |-> {}, recent |-> <<>>] /\ chan = <<>> /\ mailbox = Closed
      /\ client = [c \in Clients |-> IdleClient] /\ worker = IdleWorker
      /\ told.acked = <<>> /\ \A i \in Ids : taken[i] = 0
  BY DEF Init
<1>2. Tracked(tracker, told.acked)
  <2>1. tracker.pending = {} /\ tracker.recent = <<>> /\ tracker \in TrackerType
    BY <1>1 DEF TrackerType
  <2>2. IsFiniteSet({}) /\ Cardinality({}) = 0 /\ Len(<<>>) = 0
    BY FS_EmptySet, EmptySeq
  <2> QED BY <1>1, <2>1, <2>2, Limits DEF Tracked, IsInjective
<1>3. ASSUME NEW i \in Ids
      PROVE  /\ Carried(i) = 0 /\ Pending(i) = 0 /\ taken[i] = 0 /\ Occurs(told.acked, i) = 0
  <2>1. i # Nobody
    BY Limits
  <2>2. {c \in Clients : Holds(client[c], i)} = {}
    BY <1>1, <2>1 DEF IdleClient, Holds, ToSet
  <2>3. {k \in DOMAIN chan : Holds(chan[k], i)} = {}
    BY <1>1
  <2>4. InCall(i) = 0 /\ InChannel(i) = 0
    BY <2>2, <2>3, FS_EmptySet DEF InCall, InChannel
  <2>5. InHand(i) = 0
    BY <1>1 DEF InHand, NotStarted, IdleWorker
  <2>6. InMailbox(i) = 0 /\ Occurs(told.acked, i) = 0
    BY <1>1, EmptySeq, OccursFacts DEF InMailbox, Closed
  <2> QED BY <1>1, <2>4, <2>5, <2>6 DEF Carried, Pending
<1>4. ToSet(mailbox.queue) = {}
  BY <1>1 DEF Closed, ToSet
<1> QED BY <1>2, <1>3, <1>4 DEF CountInv, CarriedOnce, NothingIsLost

(* Every step keeps each id in one place, and the tracker as it should be. *)
LEMMA CountedAfter ==
    ASSUME SharedType, ActorType, Stages, CountInv, [Next]_vars
    PROVE  CountInv'
<1>1. /\ tracker \in TrackerType /\ mailbox \in MailboxType
      /\ mailbox.queue \in Seq(Ids) /\ told.acked \in Seq(Ids) /\ told \in ToldType
      /\ taken \in [Ids -> Int] /\ client \in [Clients -> ClientType] /\ worker \in WorkerType
      /\ worker.id \in TurnOrNone /\ worker.batch \in Batches
      /\ ClientStages /\ CommandStages /\ WorkerStage
      /\ Tracked(tracker, told.acked) /\ CarriedOnce /\ NothingIsLost
  BY SharedFacts, WorkerSteps DEF ActorType, Stages, CountInv
<1>2. ASSUME NEW i \in Ids
      PROVE  /\ InCall(i) \in Nat /\ InChannel(i) \in Nat /\ InHand(i) \in Nat
             /\ InMailbox(i) \in Nat /\ Carried(i) \in Nat /\ Pending(i) \in 0 .. 1
             /\ Occurs(told.acked, i) \in Nat
             /\ Carried(i) = InCall(i) + InChannel(i) + InHand(i) + InMailbox(i)
             /\ Carried(i)' = InCall(i)' + InChannel(i)' + InHand(i)' + InMailbox(i)'
             /\ Carried(i) <= Pending(i)
             /\ ~ShuttingDown /\ i \notin strayed
                  => Carried(i) = Pending(i) /\ taken[i] = Carried(i) + Occurs(told.acked, i)
  BY <1>1, CountsAreNatural DEF Carried, Pending, CarriedOnce, NothingIsLost
(* What has to be shown of a step. *)
<1>3. ASSUME Tracked(tracker', told'.acked),
             ~mailbox'.open => ToSet(mailbox'.queue) \subseteq strayed',
             \A i \in Ids :
               /\ Carried(i)' <= Pending(i)'
               /\ ~ShuttingDown' /\ i \notin strayed'
                    => /\ Carried(i)' = Pending(i)'
                       /\ taken'[i] = Carried(i)' + Occurs(told'.acked, i)
      PROVE  CountInv'
  BY <1>3 DEF CountInv, CarriedOnce, NothingIsLost
(* Nothing moves *)
<1>4. ASSUME UNCHANGED <<tracker, taken, strayed>>, told'.acked = told.acked,
             mailbox'.open = mailbox.open, mailbox'.queue = mailbox.queue,
             \A i \in Ids : InCall(i)' + InChannel(i)' + InHand(i)'
                              = InCall(i) + InChannel(i) + InHand(i),
             ShuttingDown => ShuttingDown'
      PROVE  CountInv'
  <2>1. ASSUME NEW i \in Ids PROVE Carried(i)' = Carried(i) /\ Pending(i)' = Pending(i)
    <3>1. InMailbox(i)' = InMailbox(i) /\ Pending(i)' = Pending(i)
      BY <1>4 DEF InMailbox, Pending
    <3>2. InCall(i)' + InChannel(i)' + InHand(i)' = InCall(i) + InChannel(i) + InHand(i)
      BY <1>4
    <3> QED BY <1>2, <3>1, <3>2
  <2>2. ~mailbox'.open => ToSet(mailbox'.queue) \subseteq strayed'
    BY <1>1, <1>4 DEF CarriedOnce
  <2> QED BY <1>1, <1>2, <1>3, <1>4, <2>1, <2>2
(* Something is dropped because of a shutdown *)
<1>5. ASSUME UNCHANGED <<tracker, strayed>>, told'.acked = told.acked, ShuttingDown',
             ~mailbox'.open => ToSet(mailbox'.queue) \subseteq strayed',
             \A i \in Ids : Carried(i)' <= Carried(i) /\ Carried(i)' \in Nat
      PROVE  CountInv'
  <2>1. ASSUME NEW i \in Ids PROVE Carried(i)' <= Pending(i)'
    <3>1. Pending(i)' = Pending(i)
      BY <1>5 DEF Pending
    <3> QED BY <1>2, <1>5, <3>1
  <2> QED BY <1>1, <1>3, <1>5, <2>1
(* The shutdown stays *)
<1>6. ASSUME NEW c \in Clients, NEW x, client' = [client EXCEPT ![c] = x],
             client[c].pc \notin {"mark", "raise", "last"} \/ closing', closing => closing'
      PROVE  ShuttingDown => ShuttingDown'
  <2>1. SUFFICES ASSUME ~closing', NEW d \in Clients, client[d].pc \in {"mark", "raise", "last"}
                 PROVE  client'[d].pc \in {"mark", "raise", "last"}
    BY <1>6, Zenon DEF ShuttingDown
  <2>2. d # c
    BY <1>6, <2>1
  <2> QED BY <1>1, <1>6, <2>1, <2>2
<1>7. ASSUME UNCHANGED <<closing, client>> PROVE ShuttingDown' <=> ShuttingDown
  BY <1>7 DEF ShuttingDown
(* The counts a step leaves alone *)
<1>8. ASSUME NEW i
      PROVE  /\ client' = client => InCall(i)' = InCall(i)
             /\ chan' = chan => InChannel(i)' = InChannel(i)
             /\ mailbox'.queue = mailbox.queue => InMailbox(i)' = InMailbox(i)
             /\ mailbox'.queue = <<>> => InMailbox(i)' = 0
             /\ worker'.id = worker.id /\ worker'.batch = worker.batch
                /\ (NotStarted' <=> NotStarted) => InHand(i)' = InHand(i)
             /\ ~NotStarted => InHand(i) = 0
             /\ ~NotStarted' => InHand(i)' = 0
             /\ NotStarted => InHand(i) = One(Holds(worker, i))
  <2>1. Occurs(<<>>, i) = 0
    BY EmptySeq, OccursFacts
  <2>2. client' = client => InCall(i)' = InCall(i)
    BY DEF InCall
  <2>3. chan' = chan => InChannel(i)' = InChannel(i)
    BY DEF InChannel
  <2>4. /\ mailbox'.queue = mailbox.queue => InMailbox(i)' = InMailbox(i)
        /\ mailbox'.queue = <<>> => InMailbox(i)' = 0
    BY <2>1 DEF InMailbox
  <2>5. /\ worker'.id = worker.id /\ worker'.batch = worker.batch
           /\ (NotStarted' <=> NotStarted) => InHand(i)' = InHand(i)
        /\ ~NotStarted => InHand(i) = 0
        /\ ~NotStarted' => InHand(i)' = 0
        /\ NotStarted => InHand(i) = One(Holds(worker, i))
    BY DEF InHand, Holds, One
  <2> QED BY <2>2, <2>3, <2>4, <2>5
(* Ids that a turn or a drain accepts *)
<1>9. ASSUME NEW ids \in Seq(Ids), IsInjective(ids), ToSet(ids) \subseteq tracker.pending,
             tracker' = Accept(tracker, ids), told'.acked = told.acked \o ids,
             UNCHANGED <<client, closing, taken, strayed>>,
             ~mailbox'.open => ToSet(mailbox'.queue) \subseteq strayed',
             \A i \in Ids : /\ i \in ToSet(ids) => Carried(i)' = 0
                            /\ i \notin ToSet(ids) => Carried(i)' = Carried(i)
      PROVE  CountInv'
  <2>1. Tracked(tracker', told'.acked) /\ tracker'.pending = tracker.pending \ ToSet(ids)
    BY <1>1, <1>9, AcceptKeeps
  <2>2. ASSUME NEW i \in Ids
        PROVE  Occurs(told'.acked, i) = Occurs(told.acked, i) + One(i \in ToSet(ids))
    <3>1. Occurs(told'.acked, i) = Occurs(told.acked, i) + Occurs(ids, i)
      BY <1>1, <1>9, OccursConcat
    <3>2. Occurs(ids, i) = One(i \in ToSet(ids))
      BY <1>9, OccursIfInjective DEF One
    <3> QED BY <3>1, <3>2
  <2>3. ASSUME NEW i \in Ids
        PROVE  /\ Carried(i)' <= Pending(i)'
               /\ ~ShuttingDown' /\ i \notin strayed'
                    => /\ Carried(i)' = Pending(i)'
                       /\ taken'[i] = Carried(i)' + Occurs(told'.acked, i)
    <3>1. taken'[i] = taken[i] /\ strayed' = strayed /\ (ShuttingDown' <=> ShuttingDown)
      BY <1>7, <1>9
    <3>2. CASE i \in ToSet(ids)
      <4>1. Pending(i) = 1 /\ Pending(i)' = 0 /\ Carried(i)' = 0
        BY <1>9, <2>1, <3>2 DEF Pending
      <4>2. Occurs(told'.acked, i) = Occurs(told.acked, i) + 1
        BY <2>2, <3>2 DEF One
      <4> QED BY <1>2, <3>1, <4>1, <4>2
    <3>3. CASE i \notin ToSet(ids)
      <4>1. Pending(i)' = Pending(i) /\ Carried(i)' = Carried(i)
        BY <1>9, <2>1, <3>3 DEF Pending
      <4>2. Occurs(told'.acked, i) = Occurs(told.acked, i)
        BY <1>2, <2>2, <3>3 DEF One
      <4> QED BY <1>2, <3>1, <4>1, <4>2
    <3> QED BY <3>2, <3>3
  <2> QED BY <1>3, <1>9, <2>1, <2>3
(* A client that keeps what it holds *)
<1>10. ASSUME NEW c \in Clients, NEW x \in ClientType, client' = [client EXCEPT ![c] = x],
              x.id = client[c].id, x.batch = client[c].batch
       PROVE  \A i \in Ids : InCall(i)' = InCall(i)
  <2>1. ASSUME NEW i \in Ids PROVE InCall(i)' = InCall(i)
    <3>1. One(Holds(x, i)) = One(Holds(client[c], i)) /\ One(Holds(x, i)) \in Nat
      BY <1>10 DEF Holds, One
    <3>2. /\ InCall(i) \in Nat /\ InCall(i)' \in Nat
          /\ InCall(i)' = InCall(i) + One(Holds(x, i)) - One(Holds(client[c], i))
      BY <1>10, InCallChanges
    <3> QED BY <3>1, <3>2
  <2> QED BY <2>1
<1>11. ASSUME NEW c \in Clients, NEW x \in ClientType, client' = [client EXCEPT ![c] = x],
              x.id = client[c].id, x.batch = client[c].batch,
              client[c].pc \notin {"mark", "raise", "last"} \/ closing', closing => closing',
              UNCHANGED <<tracker, taken, strayed>>, told'.acked = told.acked,
              mailbox'.open = mailbox.open, mailbox'.queue = mailbox.queue,
              \A i \in Ids : InChannel(i)' = InChannel(i) /\ InHand(i)' = InHand(i)
       PROVE  CountInv'
  <2>1. \A i \in Ids : InCall(i)' = InCall(i)
    BY <1>10, <1>11
  <2>2. ShuttingDown => ShuttingDown'
    BY <1>6, <1>11
  <2> QED BY <1>4, <1>11, <2>1, <2>2
(* A step of the worker that moves no id *)
<1>12. ASSUME UNCHANGED <<tracker, chan, closing, client, taken, strayed>>,
              told'.acked = told.acked,
              mailbox'.open = mailbox.open, mailbox'.queue = mailbox.queue,
              \/ /\ worker'.id = worker.id /\ worker'.batch = worker.batch
                 /\ NotStarted' <=> NotStarted
              \/ ~NotStarted /\ ~NotStarted'
       PROVE  CountInv'
  <2>1. ASSUME NEW i \in Ids
        PROVE  InCall(i)' = InCall(i) /\ InChannel(i)' = InChannel(i) /\ InHand(i)' = InHand(i)
    <3>1. InCall(i)' = InCall(i) /\ InChannel(i)' = InChannel(i)
      BY <1>8, <1>12
    <3>2. InHand(i)' = InHand(i)
      BY <1>8, <1>12
    <3> QED BY <3>1, <3>2
  <2>2. ShuttingDown => ShuttingDown'
    BY <1>7, <1>12
  <2>3. \A i \in Ids : InCall(i)' + InChannel(i)' + InHand(i)'
                         = InCall(i) + InChannel(i) + InHand(i)
    BY <2>1
  <2> QED BY <1>4, <1>12, <2>2, <2>3
(* The mailbox is drained *)
<1>13. ASSUME tracker' = Accept(tracker, mailbox.queue),
              told'.acked = told.acked \o mailbox.queue, mailbox'.queue = <<>>,
              UNCHANGED <<chan, closing, client, taken, strayed>>, ~NotStarted, ~NotStarted'
       PROVE  CountInv'
  <2>1. \A i \in Ids : /\ InMailbox(i) = Occurs(mailbox.queue, i) /\ InMailbox(i) <= 1
                       /\ InMailbox(i) > 0 => Pending(i) = 1
    <3>1. ASSUME NEW i \in Ids
          PROVE  /\ InMailbox(i) = Occurs(mailbox.queue, i) /\ InMailbox(i) <= 1
                 /\ InMailbox(i) > 0 => Pending(i) = 1
      <4>1. InMailbox(i) = Occurs(mailbox.queue, i)
        BY DEF InMailbox
      <4> QED BY <1>2, <4>1
    <3> QED BY <3>1
  <2>2. IsInjective(mailbox.queue)
    <3>1. \A i \in Ids : Occurs(mailbox.queue, i) <= 1
      BY <2>1
    <3> QED BY <1>1, <3>1, OnceIsInjective
  <2>3. ASSUME NEW i \in Ids PROVE i \in ToSet(mailbox.queue) <=> InMailbox(i) > 0
    BY <1>1, <2>1, OccursFacts
  <2>4. ToSet(mailbox.queue) \subseteq tracker.pending
    <3>1. SUFFICES ASSUME NEW i \in ToSet(mailbox.queue) PROVE i \in tracker.pending
      OBVIOUS
    <3>2. i \in Ids
      BY <1>1, <3>1, ElementOfSeq DEF ToSet
    <3> QED BY <2>1, <2>3, <3>1, <3>2 DEF Pending
  <2>5. ASSUME NEW i \in Ids
        PROVE  /\ i \in ToSet(mailbox.queue) => Carried(i)' = 0
               /\ i \notin ToSet(mailbox.queue) => Carried(i)' = Carried(i)
    <3>1. InCall(i)' = InCall(i) /\ InChannel(i)' = InChannel(i) /\ InMailbox(i)' = 0
      BY <1>8, <1>13
    <3>2. InHand(i)' = 0 /\ InHand(i) = 0
      BY <1>8, <1>13
    <3> QED BY <1>2, <2>3, <3>1, <3>2
  <2>6. ToSet(mailbox'.queue) \subseteq strayed'
    BY <1>13 DEF ToSet
  <2> QED BY <1>1, <1>9, <1>13, <2>2, <2>4, <2>5, <2>6
(* What a client and the worker are known to hold *)
<1>14. ASSUME NEW c \in Clients
       PROVE  /\ client[c] \in ClientType /\ client[c].batch \in Batches
              /\ client[c].id \in TurnOrNone
              /\ client[c].pc \in {"stamp", "open", "send"} => client[c].id \in Turns
              /\ client[c].pc \in {"raise", "last"} => closing
              /\ client[c].pc = "idle" => \A i \in Ids : ~Holds(client[c], i)
  <2>1. /\ client[c] \in ClientType /\ client[c].batch \in Batches
        /\ client[c].id \in TurnOrNone
    BY ClientSteps
  <2>2. /\ client[c].pc \in {"stamp", "open", "send"} => client[c].id \in Turns
        /\ client[c].pc \in {"raise", "last"} => closing
        /\ client[c].pc = "idle" => client[c].id = Nobody /\ client[c].batch = <<>>
    BY <1>1, <2>1 DEF ClientStages, ClientStage, TurnOrNone
  <2>3. client[c].pc = "idle" => \A i \in Ids : ~Holds(client[c], i)
    BY <2>2, Limits DEF Holds, ToSet
  <2> QED BY <2>1, <2>2, <2>3
<1>15. worker.pc \in {"check", "clear", "begin"} \cup InTurn => worker.id \in Turns
  BY <1>1 DEF WorkerStage, TurnOrNone, InTurn
(* The handle *)
<1>16. ASSUME NEW c \in Clients, NEW t \in Turns, NEW b \in Batches, Reserve(c, t, b)
       PROVE  CountInv'
  <2> DEFINE ids == {t} \cup ToSet(b)
             x == [pc |-> "stamp", id |-> t, batch |-> b, gen |-> 0]
  <2>1. /\ client[c].pc = "idle" /\ \A i \in ids : ~Remembers(tracker, i)
        /\ HasRoom(tracker, ids) /\ tracker' = [tracker EXCEPT !.pending = @ \cup ids]
        /\ taken' = [i \in Ids |-> taken[i] + (IF i \in ids THEN 1 ELSE 0)]
        /\ client' = [client EXCEPT ![c] = x]
        /\ UNCHANGED <<chan, mailbox, closing, worker, told, strayed>>
    BY <1>16, Zenon DEF Reserve
  <2>2. x \in ClientType /\ \A i \in Ids : Holds(x, i) <=> i \in ids
    BY DEF ClientType, ClientPcs, TurnOrNone, Holds
  <2>3. ids \in SUBSET Ids /\ IsFiniteSet(ids)
    BY CommandIds
  <2> HIDE DEF ids, x
  <2>4. /\ Tracked(tracker', told'.acked) /\ tracker'.pending = tracker.pending \cup ids
    BY <1>1, <2>1, <2>3, TrackedWith DEF TrackerType
  <2>5. ShuttingDown => ShuttingDown'
    <3>1. client[c].pc \notin {"mark", "raise", "last"} /\ (closing => closing')
      BY <2>1
    <3> QED BY <1>6, <2>1, <3>1
  <2>6. ASSUME NEW i \in Ids
        PROVE  /\ Carried(i)' = Carried(i) + One(i \in ids)
               /\ Pending(i)' = Pending(i) + One(i \in ids)
               /\ taken'[i] = taken[i] + One(i \in ids) /\ One(i \in ids) \in Nat
    <3>1. One(i \in ids) \in Nat /\ taken'[i] = taken[i] + One(i \in ids)
      BY <2>1 DEF One
    <3>2. Pending(i)' = Pending(i) + One(i \in ids)
      BY <2>1, <2>4 DEF Pending, One, Remembers
    <3>3. InCall(i)' = InCall(i) + One(i \in ids)
      <4>1. One(Holds(x, i)) = One(i \in ids) /\ One(Holds(client[c], i)) = 0
        BY <1>14, <2>1, <2>2 DEF One
      <4>2. InCall(i)' = InCall(i) + One(Holds(x, i)) - One(Holds(client[c], i))
        BY <2>1, <2>2, InCallChanges
      <4> QED BY <1>2, <3>1, <4>1, <4>2
    <3>4. InChannel(i)' = InChannel(i) /\ InHand(i)' = InHand(i) /\ InMailbox(i)' = InMailbox(i)
      BY <2>1 DEF InChannel, InHand, InMailbox, NotStarted
    <3> QED BY <1>2, <3>1, <3>2, <3>3, <3>4
  <2>7. ASSUME NEW i \in Ids
        PROVE  /\ Carried(i)' <= Pending(i)'
               /\ ~ShuttingDown' /\ i \notin strayed'
                    => /\ Carried(i)' = Pending(i)'
                       /\ taken'[i] = Carried(i)' + Occurs(told'.acked, i)
    <3>1. /\ Occurs(told'.acked, i) = Occurs(told.acked, i) /\ taken[i] \in Int
          /\ strayed' = strayed
      BY <1>1, <2>1
    <3>2. Carried(i)' <= Pending(i)'
      BY <1>2, <2>6
    <3>3. ~ShuttingDown' /\ i \notin strayed'
            => Carried(i) = Pending(i) /\ taken[i] = Carried(i) + Occurs(told.acked, i)
      BY <1>2, <2>5, <3>1
    <3> QED BY <1>2, <2>6, <3>1, <3>2, <3>3
  <2>8. ~mailbox'.open => ToSet(mailbox'.queue) \subseteq strayed'
    BY <1>1, <2>1 DEF CarriedOnce
  <2> QED BY <1>3, <2>4, <2>7, <2>8
<1>17. ASSUME NEW c \in Clients, Stamp(c)
       PROVE  CountInv'
  <2> DEFINE x == [client[c] EXCEPT !.pc = "open", !.gen = stops]
  <2>1. /\ client[c].pc = "stamp" /\ client' = [client EXCEPT ![c] = x]
        /\ UNCHANGED <<tracker, chan, mailbox, closing, worker, told, taken, strayed>>
    BY <1>17, Zenon DEF Stamp, shared, ghosts
  <2>2. x \in ClientType /\ x.id = client[c].id /\ x.batch = client[c].batch
    <3>1. client[c] \in ClientType /\ stops \in Nat
      BY <1>14, SharedFacts
    <3> DEFINE y == [client[c] EXCEPT !.pc = "open"]
    <3>2. y \in ClientType /\ y.id = client[c].id /\ y.batch = client[c].batch
      BY <3>1 DEF ClientType, ClientPcs
    <3> HIDE DEF y
    <3>3. [y EXCEPT !.gen = stops] \in ClientType
          /\ [y EXCEPT !.gen = stops].id = client[c].id
          /\ [y EXCEPT !.gen = stops].batch = client[c].batch
      BY <3>1, <3>2 DEF ClientType
    <3> QED BY <3>3 DEF y
  <2> HIDE DEF x
  <2>3. \A i \in Ids : InChannel(i)' = InChannel(i) /\ InHand(i)' = InHand(i)
    BY <2>1 DEF InChannel, InHand, NotStarted
  <2>4. client[c].pc \notin {"mark", "raise", "last"} /\ (closing => closing')
    BY <2>1
  <2> QED BY <1>11, <2>1, <2>2, <2>3, <2>4
<1>18. ASSUME NEW c \in Clients, OpenMailbox(c)
       PROVE  CountInv'
  <2> DEFINE x == [client[c] EXCEPT !.pc = "send"]
  <2>1. /\ client[c].pc = "open" /\ client' = [client EXCEPT ![c] = x]
        /\ mailbox' = Opened(mailbox)
        /\ UNCHANGED <<tracker, chan, closing, worker, told, taken, strayed>>
    BY <1>18, Zenon DEF OpenMailbox, ghosts
  <2>2. x \in ClientType /\ x.id = client[c].id /\ x.batch = client[c].batch
    BY <1>14 DEF ClientType, ClientPcs
  <2>3. mailbox'.open /\ mailbox'.queue = IF mailbox.open THEN mailbox.queue ELSE <<>>
    BY <1>1, <2>1, MailboxFacts
  <2> HIDE DEF x
  <2>4. \A i \in Ids : InChannel(i)' = InChannel(i) /\ InHand(i)' = InHand(i)
    BY <2>1 DEF InChannel, InHand, NotStarted
  <2>5. client[c].pc \notin {"mark", "raise", "last"} /\ (closing => closing')
    BY <2>1
  <2>6. CASE mailbox.open
    <3>1. mailbox'.open = mailbox.open /\ mailbox'.queue = mailbox.queue
      BY <1>1, <2>1, <2>6 DEF Opened
    <3> QED BY <1>11, <2>1, <2>2, <2>4, <2>5, <3>1
  <2>7. CASE ~mailbox.open
    <3>1. \A i \in Ids : InCall(i)' = InCall(i)
      BY <1>10, <2>1, <2>2
    <3>2. ShuttingDown => ShuttingDown'
      BY <1>6, <2>1, <2>5
    <3>3. ASSUME NEW i \in Ids
          PROVE  /\ Carried(i)' <= Pending(i)'
                 /\ ~ShuttingDown' /\ i \notin strayed'
                      => /\ Carried(i)' = Pending(i)'
                         /\ taken'[i] = Carried(i)' + Occurs(told'.acked, i)
      <4>1. /\ InCall(i)' = InCall(i) /\ InChannel(i)' = InChannel(i)
            /\ InHand(i)' = InHand(i)
        BY <2>4, <3>1
      <4>2. InMailbox(i)' = 0
        BY <1>8, <2>3, <2>7
      <4>3. Pending(i)' = Pending(i)
        BY <2>1 DEF Pending
      <4>4. i \notin strayed => InMailbox(i) = 0
        <5>1. i \notin strayed => i \notin ToSet(mailbox.queue)
          BY <1>1, <2>7 DEF CarriedOnce
        <5>2. InMailbox(i) > 0 <=> i \in ToSet(mailbox.queue)
          BY <1>1, OccursFacts DEF InMailbox
        <5> QED BY <1>2, <5>1, <5>2
      <4> QED BY <1>2, <2>1, <3>2, <4>1, <4>2, <4>3, <4>4
    <3>4. Tracked(tracker', told'.acked)
      BY <1>1, <2>1
    <3> QED BY <1>3, <2>3, <3>3, <3>4
  <2> QED BY <2>6, <2>7
<1>19. ASSUME NEW c \in Clients, Send(c)
       PROVE  CountInv'
  <2> DEFINE m == Command(client[c].id, client[c].batch, client[c].gen)
  <2>1. /\ client[c].pc = "send" /\ chan' = Append(chan, m)
        /\ client' = [client EXCEPT ![c] = IdleClient]
        /\ UNCHANGED <<tracker, mailbox, closing, worker, told, taken, strayed>>
    BY <1>19, Zenon DEF Send, ghosts
  <2>2. m \in CommandType /\ m.id = client[c].id /\ m.batch = client[c].batch
    BY CommandFacts, ClientSteps
  <2> HIDE DEF m
  <2>3. IdleClient \in ClientType /\ IdleClient.id = Nobody /\ IdleClient.batch = <<>>
    BY IdleFacts
  <2>4. ASSUME NEW i \in Ids
        PROVE  InCall(i)' + InChannel(i)' + InHand(i)' = InCall(i) + InChannel(i) + InHand(i)
    <3>1. One(Holds(IdleClient, i)) = 0 /\ One(Holds(m, i)) = One(Holds(client[c], i))
          /\ One(Holds(m, i)) \in Nat
      BY <2>2, <2>3, Limits DEF One, Holds, ToSet
    <3>2. InCall(i)' = InCall(i) + One(Holds(IdleClient, i)) - One(Holds(client[c], i))
      BY <2>1, <2>3, InCallChanges
    <3>3. InChannel(i)' = InChannel(i) + One(Holds(m, i))
      BY <2>1, <2>2, InChannelChanges
    <3>4. InHand(i)' = InHand(i)
      BY <2>1 DEF InHand, NotStarted
    <3> QED BY <1>2, <3>1, <3>2, <3>3, <3>4
  <2>5. client[c].pc \notin {"mark", "raise", "last"} /\ (closing => closing')
    BY <2>1
  <2>6. ShuttingDown => ShuttingDown'
    BY <1>6, <2>1, <2>5
  <2> QED BY <1>4, <2>1, <2>4, <2>6
<1>20. ASSUME NEW c \in Clients, SendFails(c)
       PROVE  CountInv'
  <2> DEFINE ids == {client[c].id} \cup ToSet(client[c].batch)
  <2>1. /\ client[c].pc = "send" /\ worker.pc = "stopped" /\ mailbox' = Closed
        /\ tracker' = [tracker EXCEPT !.pending = @ \ ids]
        /\ client' = [client EXCEPT ![c] = IdleClient]
        /\ UNCHANGED <<chan, closing, worker, told, strayed>>
    BY <1>20, Zenon DEF SendFails
  <2>2. \A i \in Ids : Holds(client[c], i) <=> i \in ids
    BY DEF Holds
  <2> HIDE DEF ids
  <2>3. Tracked(tracker', told'.acked) /\ tracker'.pending = tracker.pending \ ids
    BY <1>1, <2>1, TrackedWithout DEF TrackerType
  <2>4. closing /\ ShuttingDown'
    BY <1>1, <2>1 DEF WorkerStage, ShuttingDown
  <2>5. mailbox'.queue = <<>> /\ ToSet(mailbox'.queue) = {}
    BY <2>1 DEF Closed, ToSet
  <2>6. IdleClient \in ClientType /\ IdleClient.id = Nobody /\ IdleClient.batch = <<>>
    BY IdleFacts
  <2>7. ASSUME NEW i \in Ids PROVE Carried(i)' <= Pending(i)'
    <3>1. One(Holds(IdleClient, i)) = 0 /\ One(Holds(client[c], i)) = One(i \in ids)
          /\ One(i \in ids) \in Nat /\ (i \in ids => One(i \in ids) = 1)
          /\ (i \notin ids => One(i \in ids) = 0)
      BY <2>2, <2>6, Limits DEF One, Holds, ToSet
    <3>2. /\ InCall(i)' = InCall(i) + One(Holds(IdleClient, i)) - One(Holds(client[c], i))
          /\ InCall(i)' \in Nat
      BY <2>1, <2>6, InCallChanges
    <3>3. InChannel(i)' = InChannel(i) /\ InHand(i)' = InHand(i) /\ InMailbox(i)' = 0
      BY <1>8, <2>1, <2>5 DEF InHand, NotStarted
    <3>4. Pending(i)' = IF i \in ids THEN 0 ELSE Pending(i)
      BY <2>3 DEF Pending
    <3> QED BY <1>2, <3>1, <3>2, <3>3, <3>4
  <2> QED BY <1>3, <2>3, <2>4, <2>5, <2>7
<1>21. ASSUME NEW c \in Clients, NEW s \in Supplements, Supplement(c, s)
       PROVE  CountInv'
  <2>1. /\ mailbox.open /\ ~Remembers(tracker, s) /\ HasRoom(tracker, {s})
        /\ tracker' = [tracker EXCEPT !.pending = @ \cup {s}]
        /\ mailbox' = [mailbox EXCEPT !.queue = Append(@, s)]
        /\ taken' = [taken EXCEPT ![s] = @ + 1]
        /\ UNCHANGED <<chan, closing, client, worker, told, strayed>>
    BY <1>21, Zenon DEF Supplement
  <2>2. s \in Ids /\ {s} \in SUBSET Ids /\ IsFiniteSet({s}) /\ \A i \in {s} : i = s
    BY FS_Singleton DEF Ids
  <2>3. \A i \in {s} : ~Remembers(tracker, i)
    BY <2>1, <2>2
  <2>4. Tracked(tracker', told'.acked) /\ tracker'.pending = tracker.pending \cup {s}
    BY <1>1, <2>1, <2>2, <2>3, TrackedWith DEF TrackerType
  <2>5. mailbox'.open /\ mailbox'.queue = Append(mailbox.queue, s)
    BY <1>1, <2>1 DEF MailboxType
  <2>6. ShuttingDown => ShuttingDown'
    BY <1>7, <2>1
  <2>7. ASSUME NEW i \in Ids
        PROVE  /\ Carried(i)' = Carried(i) + One(i = s)
               /\ Pending(i)' = Pending(i) + One(i = s)
               /\ taken'[i] = taken[i] + One(i = s) /\ One(i = s) \in Nat
    <3>1. One(i = s) \in Nat /\ taken'[i] = taken[i] + One(i = s)
      BY <1>1, <2>1, <2>2 DEF One
    <3>2. Pending(i)' = Pending(i) + One(i = s)
      BY <2>1, <2>4 DEF Pending, One, Remembers
    <3>3. InMailbox(i)' = InMailbox(i) + One(i = s)
      <4>1. Occurs(Append(mailbox.queue, s), i) = Occurs(mailbox.queue, i) + (IF s = i THEN 1 ELSE 0)
        BY <1>1, <2>2, OccursFacts
      <4> QED BY <2>5, <4>1 DEF InMailbox, One
    <3>4. InCall(i)' = InCall(i) /\ InChannel(i)' = InChannel(i) /\ InHand(i)' = InHand(i)
      BY <2>1 DEF InCall, InChannel, InHand, NotStarted
    <3> QED BY <1>2, <3>1, <3>2, <3>3, <3>4
  <2>8. ASSUME NEW i \in Ids
        PROVE  /\ Carried(i)' <= Pending(i)'
               /\ ~ShuttingDown' /\ i \notin strayed'
                    => /\ Carried(i)' = Pending(i)'
                       /\ taken'[i] = Carried(i)' + Occurs(told'.acked, i)
    <3>1. /\ Occurs(told'.acked, i) = Occurs(told.acked, i) /\ taken[i] \in Int
          /\ strayed' = strayed
      BY <1>1, <2>1
    <3>2. Carried(i)' <= Pending(i)'
      BY <1>2, <2>7
    <3>3. ~ShuttingDown' /\ i \notin strayed'
            => Carried(i) = Pending(i) /\ taken[i] = Carried(i) + Occurs(told.acked, i)
      BY <1>2, <2>6, <3>1
    <3> QED BY <1>2, <2>7, <3>1, <3>2, <3>3
  <2> QED BY <1>3, <2>4, <2>5, <2>8
<1>22. ASSUME NEW c \in Clients, QueueCompact(c)
       PROVE  CountInv'
  <2>1. UNCHANGED <<tracker, chan, closing, client, worker, told, taken, strayed>>
    BY <1>22, Zenon DEF QueueCompact, ghosts
  <2>2. mailbox'.open = mailbox.open /\ mailbox'.queue = mailbox.queue
    BY <1>1, <1>22 DEF QueueCompact, MailboxType
  <2>3. NotStarted' <=> NotStarted
    BY <2>1 DEF NotStarted
  <2> QED BY <1>12, <2>1, <2>2, <2>3
<1>23. ASSUME NEW c \in Clients, Stop(c)
       PROVE  CountInv'
  <2> DEFINE x == [client[c] EXCEPT !.pc = "flag"]
  <2>1. /\ client[c].pc = "idle" /\ client' = [client EXCEPT ![c] = x]
        /\ UNCHANGED <<tracker, mailbox, told, taken, strayed>>
    BY <1>23, Zenon DEF Stop, ghosts
  <2>2. x \in ClientType /\ x.id = client[c].id /\ x.batch = client[c].batch
    BY <1>14 DEF ClientType, ClientPcs
  <2> HIDE DEF x
  <2>3. ASSUME NEW i \in Ids PROVE InChannel(i)' = InChannel(i) /\ InHand(i)' = InHand(i)
    <3>1. chan' = MarkCut(chan) /\ worker' = worker
      BY <1>23, Zenon DEF Stop
    <3>2. InChannel(i)' = InChannel(i)
      BY <3>1, InChannelChanges
    <3>3. InHand(i)' = InHand(i)
      BY <3>1 DEF InHand, NotStarted
    <3> QED BY <3>2, <3>3
  <2>4. (client[c].pc \notin {"mark", "raise", "last"} \/ closing') /\ (closing => closing')
    BY <1>23, <2>1 DEF Stop
  <2> QED BY <1>11, <2>1, <2>2, <2>3, <2>4
<1>24. ASSUME NEW c \in Clients, StopFlag(c)
       PROVE  CountInv'
  <2> DEFINE x == [client[c] EXCEPT !.pc = "idle"]
  <2>1. /\ client[c].pc = "flag" /\ client' = [client EXCEPT ![c] = x]
        /\ UNCHANGED <<tracker, mailbox, told, taken, strayed>>
    BY <1>24, Zenon DEF StopFlag, ghosts
  <2>2. x \in ClientType /\ x.id = client[c].id /\ x.batch = client[c].batch
    BY <1>14 DEF ClientType, ClientPcs
  <2> HIDE DEF x
  <2>3. ASSUME NEW i \in Ids PROVE InChannel(i)' = InChannel(i) /\ InHand(i)' = InHand(i)
    <3>1. /\ chan' = MarkEarly(chan)
          /\ worker' = [worker EXCEPT !.early = @ \/ NotStarted]
      BY <1>24, Zenon DEF StopFlag
    <3>2. InChannel(i)' = InChannel(i)
      BY <3>1, InChannelChanges
    <3>3. InHand(i)' = InHand(i)
      <4>1. worker'.id = worker.id /\ worker'.batch = worker.batch /\ worker'.pc = worker.pc
        BY <1>1, <3>1 DEF WorkerType
      <4>2. NotStarted' <=> NotStarted
        BY <4>1 DEF NotStarted
      <4> QED BY <1>8, <4>1, <4>2
    <3> QED BY <3>2, <3>3
  <2>4. (client[c].pc \notin {"mark", "raise", "last"} \/ closing') /\ (closing => closing')
    BY <1>24, <2>1 DEF StopFlag
  <2> QED BY <1>11, <2>1, <2>2, <2>3, <2>4
<1>25. ASSUME NEW c \in Clients, Shutdown(c)
       PROVE  CountInv'
  <2> DEFINE x == [client[c] EXCEPT !.pc = "mark"]
  <2>1. /\ client' = [client EXCEPT ![c] = x] /\ mailbox' = Closed
        /\ UNCHANGED <<tracker, chan, worker, told, strayed>>
    BY <1>25, Zenon DEF Shutdown, ShutdownStep, ghosts
  <2>2. /\ x \in ClientType /\ x.id = client[c].id /\ x.batch = client[c].batch /\ x.pc = "mark"
    BY <1>14 DEF ClientType, ClientPcs
  <2> HIDE DEF x
  <2>3. ShuttingDown'
    BY <1>1, <2>1, <2>2 DEF ShuttingDown
  <2>4. mailbox'.queue = <<>> /\ ToSet(mailbox'.queue) \subseteq strayed'
    BY <2>1 DEF Closed, ToSet
  <2>5. ASSUME NEW i \in Ids PROVE Carried(i)' <= Carried(i) /\ Carried(i)' \in Nat
    <3>1. InCall(i)' = InCall(i)
      BY <1>10, <2>1, <2>2
    <3>2. InChannel(i)' = InChannel(i) /\ InMailbox(i)' = 0
      BY <1>8, <2>1, <2>4
    <3>3. InHand(i)' = InHand(i)
      BY <2>1 DEF InHand, NotStarted
    <3> QED BY <1>2, <3>1, <3>2, <3>3
  <2> QED BY <1>5, <2>1, <2>3, <2>4, <2>5
<1>26. ASSUME NEW c \in Clients, ShutdownMark(c)
       PROVE  CountInv'
  <2> DEFINE x == [client[c] EXCEPT !.pc = "raise"]
  <2>1. /\ client[c].pc = "mark" /\ client' = [client EXCEPT ![c] = x]
        /\ UNCHANGED <<tracker, mailbox, told, taken, strayed>>
    BY <1>26, Zenon DEF ShutdownMark, ShutdownStep, ghosts
  <2>2. x \in ClientType /\ x.id = client[c].id /\ x.batch = client[c].batch
    BY <1>14 DEF ClientType, ClientPcs
  <2> HIDE DEF x
  <2>3. ASSUME NEW i \in Ids PROVE InChannel(i)' = InChannel(i) /\ InHand(i)' = InHand(i)
    <3>1. chan' = chan /\ worker' = worker
      BY <1>26, Zenon DEF ShutdownMark, ShutdownStep
    <3>2. InChannel(i)' = InChannel(i)
      BY <3>1 DEF InChannel
    <3>3. InHand(i)' = InHand(i)
      BY <3>1 DEF InHand, NotStarted
    <3> QED BY <3>2, <3>3
  <2>4. (client[c].pc \notin {"mark", "raise", "last"} \/ closing') /\ (closing => closing')
    BY <1>26 DEF ShutdownMark
  <2> QED BY <1>11, <2>1, <2>2, <2>3, <2>4
<1>27. ASSUME NEW c \in Clients, ShutdownFlag(c)
       PROVE  CountInv'
  <2> DEFINE x == [client[c] EXCEPT !.pc = "last"]
  <2>1. /\ client[c].pc = "raise" /\ client' = [client EXCEPT ![c] = x]
        /\ UNCHANGED <<tracker, mailbox, told, taken, strayed>>
    BY <1>27, Zenon DEF ShutdownFlag, ShutdownStep, ghosts
  <2>2. x \in ClientType /\ x.id = client[c].id /\ x.batch = client[c].batch
    BY <1>14 DEF ClientType, ClientPcs
  <2> HIDE DEF x
  <2>3. ASSUME NEW i \in Ids PROVE InChannel(i)' = InChannel(i) /\ InHand(i)' = InHand(i)
    <3>1. chan' = chan /\ worker' = worker
      BY <1>27, Zenon DEF ShutdownFlag, ShutdownStep
    <3>2. InChannel(i)' = InChannel(i)
      BY <3>1 DEF InChannel
    <3>3. InHand(i)' = InHand(i)
      BY <3>1 DEF InHand, NotStarted
    <3> QED BY <3>2, <3>3
  <2>4. (client[c].pc \notin {"mark", "raise", "last"} \/ closing') /\ (closing => closing')
    BY <1>14, <1>27, <2>1 DEF ShutdownFlag
  <2> QED BY <1>11, <2>1, <2>2, <2>3, <2>4
<1>28. ASSUME NEW c \in Clients, ShutdownSend(c)
       PROVE  CountInv'
  <2> DEFINE x == [client[c] EXCEPT !.pc = "idle"]
  <2>1. /\ client[c].pc = "last" /\ client' = [client EXCEPT ![c] = x]
        /\ UNCHANGED <<tracker, mailbox, told, taken, strayed>>
    BY <1>28, Zenon DEF ShutdownSend, ShutdownStep, ghosts
  <2>2. x \in ClientType /\ x.id = client[c].id /\ x.batch = client[c].batch
    BY <1>14 DEF ClientType, ClientPcs
  <2> HIDE DEF x
  <2>3. ASSUME NEW i \in Ids PROVE InChannel(i)' = InChannel(i) /\ InHand(i)' = InHand(i)
    <3>1. /\ worker' = worker
          /\ chan' = IF worker.pc = "stopped" THEN chan
                     ELSE Append(chan, Command(Nobody, <<>>, 0))
      BY <1>28, Zenon DEF ShutdownSend, ShutdownStep
    <3> DEFINE m == Command(Nobody, <<>>, 0)
    <3>2. m \in CommandType /\ m.id = Nobody /\ m.batch = <<>>
      BY CommandFacts DEF TurnOrNone, Batches
    <3> HIDE DEF m
    <3>3. One(Holds(m, i)) = 0
      BY <3>2, Limits DEF One, Holds, ToSet
    <3>4. CASE worker.pc = "stopped"
      BY <3>1, <3>4 DEF InChannel, InHand, NotStarted
    <3>5. CASE worker.pc # "stopped"
      <4>1. chan' = Append(chan, m)
        BY <3>1, <3>5 DEF m
      <4>2. InChannel(i)' = InChannel(i) + One(Holds(m, i))
        BY <3>2, <4>1, InChannelChanges
      <4>3. InHand(i)' = InHand(i)
        BY <3>1 DEF InHand, NotStarted
      <4> QED BY <1>2, <3>3, <4>2, <4>3
    <3> QED BY <3>4, <3>5
  <2>4. (client[c].pc \notin {"mark", "raise", "last"} \/ closing') /\ (closing => closing')
    BY <1>14, <1>28, <2>1 DEF ShutdownSend
  <2> QED BY <1>11, <2>1, <2>2, <2>3, <2>4
(* The worker *)
<1>29. ASSUME Receive
       PROVE  CountInv'
  <2>1. /\ worker.pc = "idle" /\ chan # <<>> /\ worker' = Received(Head(chan))
        /\ chan' = Tail(chan)
        /\ UNCHANGED <<tracker, mailbox, closing, client, told, taken, strayed>>
    BY <1>29, Zenon DEF Receive, ghosts
  <2>2. Head(chan) \in CommandType
    BY <2>1, SharedFacts, HeadTailProperties
  <2>3. /\ worker'.pc = "received" /\ worker'.id = Head(chan).id
        /\ worker'.batch = Head(chan).batch
    BY <2>1, <2>2, CommandFacts
  <2>4. ASSUME NEW i \in Ids
        PROVE  InCall(i)' + InChannel(i)' + InHand(i)' = InCall(i) + InChannel(i) + InHand(i)
    <3>1. InHand(i) = 0 /\ InHand(i)' = One(Holds(Head(chan), i))
      BY <2>1, <2>3 DEF InHand, NotStarted, One, Holds
    <3>2. InChannel(i)' \in Nat /\ InChannel(i) = InChannel(i)' + One(Holds(Head(chan), i))
      BY <2>1, InChannelChanges
    <3>3. InCall(i)' = InCall(i) /\ One(Holds(Head(chan), i)) \in Nat
      BY <1>8, <2>1 DEF One
    <3> QED BY <1>2, <3>1, <3>2, <3>3
  <2>5. ShuttingDown => ShuttingDown'
    BY <1>7, <2>1
  <2> QED BY <1>4, <2>1, <2>4, <2>5
<1>30. ASSUME Quit
       PROVE  CountInv'
  <2>1. /\ worker.pc = "received" /\ (worker.id = Nobody \/ closing)
        /\ worker' = [IdleWorker EXCEPT !.pc = "stopped"] /\ chan' = <<>>
        /\ UNCHANGED <<tracker, mailbox, closing, client, told, strayed>>
    BY <1>30, Zenon DEF Quit, ghosts
  <2>2. ShuttingDown'
    BY <1>1, <2>1 DEF WorkerStage, ShuttingDown
  <2>3. ~NotStarted'
    BY <2>1 DEF NotStarted, IdleWorker
  <2>4. ASSUME NEW i \in Ids PROVE Carried(i)' <= Carried(i) /\ Carried(i)' \in Nat
    <3>1. InCall(i)' = InCall(i) /\ InMailbox(i)' = InMailbox(i) /\ InHand(i)' = 0
      BY <1>8, <2>1, <2>3
    <3>2. InChannel(i)' = 0
      BY <2>1, InChannelChanges
    <3> QED BY <1>2, <3>1, <3>2
  <2>5. ~mailbox'.open => ToSet(mailbox'.queue) \subseteq strayed'
    BY <1>1, <2>1 DEF CarriedOnce
  <2> QED BY <1>5, <2>1, <2>2, <2>4, <2>5
<1>31. ASSUME Take
       PROVE  CountInv'
  <2>1. /\ worker.pc \in {"received"} /\ worker' = [worker EXCEPT !.pc = "check"]
        /\ UNCHANGED <<tracker, chan, mailbox, closing, client, told, taken, strayed>>
    BY <1>31, Zenon DEF Take, WorkerStep, shared, ghosts
  <2>2. worker'.pc = "check" /\ worker'.id = worker.id /\ worker'.batch = worker.batch
    BY <2>1, WorkerSteps DEF WorkerPcs, BeforeStart, InTurn
  <2>3. NotStarted' <=> NotStarted
    BY <2>1, <2>2 DEF NotStarted
  <2> QED BY <1>12, <2>1, <2>2, <2>3
<1>32. ASSUME Proceed
       PROVE  CountInv'
  <2>1. /\ worker.pc \in {"check"} /\ worker' = [worker EXCEPT !.pc = "clear"]
        /\ UNCHANGED <<tracker, chan, mailbox, closing, client, told, taken, strayed>>
    BY <1>32, Zenon DEF Proceed, WorkerStep, shared, ghosts
  <2>2. worker'.pc = "clear" /\ worker'.id = worker.id /\ worker'.batch = worker.batch
    BY <2>1, WorkerSteps DEF WorkerPcs, BeforeStart, InTurn
  <2>3. NotStarted' <=> NotStarted
    BY <2>1, <2>2 DEF NotStarted
  <2> QED BY <1>12, <2>1, <2>2, <2>3
<1>33. ASSUME ClearStop
       PROVE  CountInv'
  <2>1. /\ worker.pc \in {"clear"} /\ worker' = [worker EXCEPT !.pc = "begin"]
        /\ UNCHANGED <<tracker, chan, mailbox, closing, client, told, taken, strayed>>
    BY <1>33, Zenon DEF ClearStop, WorkerStep, ghosts
  <2>2. worker'.pc = "begin" /\ worker'.id = worker.id /\ worker'.batch = worker.batch
    BY <2>1, WorkerSteps DEF WorkerPcs, BeforeStart, InTurn
  <2>3. NotStarted' <=> NotStarted
    BY <2>1, <2>2 DEF NotStarted
  <2> QED BY <1>12, <2>1, <2>2, <2>3
<1>34. ASSUME CancelledFinish
       PROVE  CountInv'
  <2>1. /\ worker.pc \in {"cancelled"} /\ worker' = IdleWorker
        /\ UNCHANGED <<tracker, chan, mailbox, closing, client, taken, strayed>>
    BY <1>34, Zenon DEF CancelledFinish, shared, ghosts
  <2>2. ~NotStarted /\ ~NotStarted'
    BY <2>1 DEF NotStarted, IdleWorker
  <2>3. told'.acked = told.acked
    <3>1. worker.id \in Turns
      BY <1>1, <2>1 DEF WorkerStage, TurnOrNone
    <3>2. told' = TellEnded(told, worker.id)
      BY <1>34 DEF CancelledFinish
    <3>3. TellEnded(told, worker.id).acked = told.acked
      BY <1>1, <3>1 DEF TellEnded, ToldType
    <3> QED BY <3>2, <3>3
  <2> QED BY <1>12, <2>1, <2>2, <2>3
<1>35. ASSUME TakeStop
       PROVE  CountInv'
  <2>1. /\ worker.pc \in {"top", "model"} /\ worker' = [worker EXCEPT !.pc = "close", !.end = "cancelled"]
        /\ UNCHANGED <<tracker, chan, mailbox, closing, client, told, taken, strayed>>
    BY <1>35, Zenon DEF TakeStop, EndTurn, ghosts
  <2>2. worker'.pc = "close" /\ worker'.id = worker.id /\ worker'.batch = worker.batch
    <3>1. "close" \in WorkerPcs /\ "cancelled" \in Ends
      BY DEF WorkerPcs, Ends, InTurn
    <3> QED BY <2>1, <3>1, WorkerSteps
  <2>3. NotStarted' <=> NotStarted
    BY <2>1, <2>2 DEF NotStarted
  <2> QED BY <1>12, <2>1, <2>2, <2>3
<1>36. ASSUME LookAhead
       PROVE  CountInv'
  <2>1. /\ worker.pc \in {"top"} /\ worker' = [worker EXCEPT !.pc = "drain"]
        /\ UNCHANGED <<tracker, chan, mailbox, closing, client, told, taken, strayed>>
    BY <1>36, Zenon DEF LookAhead, WorkerStep, shared, ghosts
  <2>2. worker'.pc = "drain" /\ worker'.id = worker.id /\ worker'.batch = worker.batch
    BY <2>1, WorkerSteps DEF WorkerPcs, BeforeStart, InTurn
  <2>3. NotStarted' <=> NotStarted
    BY <2>1, <2>2 DEF NotStarted
  <2> QED BY <1>12, <2>1, <2>2, <2>3
<1>37. ASSUME AskModel
       PROVE  CountInv'
  <2>1. /\ worker.pc \in {"drain"} /\ worker' = [worker EXCEPT !.pc = "model", !.rounds = @ + 1]
        /\ UNCHANGED <<tracker, chan, closing, client, told, taken, strayed>>
    BY <1>37, Zenon DEF AskModel, ghosts
  <2>2. worker'.pc = "model" /\ worker'.id = worker.id /\ worker'.batch = worker.batch
    BY <2>1, WorkerSteps
  <2>3. NotStarted' <=> NotStarted
    BY <2>1, <2>2 DEF NotStarted
  <2>4. mailbox'.open = mailbox.open /\ mailbox'.queue = mailbox.queue
    BY <1>1, <1>37, MailboxFacts DEF AskModel
  <2> QED BY <1>12, <2>1, <2>2, <2>3, <2>4
<1>38. ASSUME NeedApproval
       PROVE  CountInv'
  <2>1. /\ worker.pc \in {"model"} /\ worker' = [worker EXCEPT !.pc = "approval"]
        /\ UNCHANGED <<tracker, chan, mailbox, closing, client, told, taken, strayed>>
    BY <1>38, Zenon DEF NeedApproval, WorkerStep, shared, ghosts
  <2>2. worker'.pc = "approval" /\ worker'.id = worker.id /\ worker'.batch = worker.batch
    BY <2>1, WorkerSteps DEF WorkerPcs, BeforeStart, InTurn
  <2>3. NotStarted' <=> NotStarted
    BY <2>1, <2>2 DEF NotStarted
  <2> QED BY <1>12, <2>1, <2>2, <2>3
<1>39. ASSUME DenyByStop
       PROVE  CountInv'
  <2>1. /\ worker.pc \in {"approval"} /\ worker' = [worker EXCEPT !.pc = "top"]
        /\ UNCHANGED <<tracker, chan, mailbox, closing, client, told, taken, strayed>>
    BY <1>39, Zenon DEF DenyByStop, WorkerStep, ghosts
  <2>2. worker'.pc = "top" /\ worker'.id = worker.id /\ worker'.batch = worker.batch
    BY <2>1, WorkerSteps DEF WorkerPcs, BeforeStart, InTurn
  <2>3. NotStarted' <=> NotStarted
    BY <2>1, <2>2 DEF NotStarted
  <2> QED BY <1>12, <2>1, <2>2, <2>3
<1>40. ASSUME ToolGenFails
       PROVE  CountInv'
  <2>1. /\ worker.pc \in {"top"} /\ worker' = [worker EXCEPT !.pc = "finish", !.end = "answered"]
        /\ UNCHANGED <<tracker, chan, mailbox, closing, client, told, taken, strayed>>
    BY <1>40, Zenon DEF ToolGenFails, shared, ghosts
  <2>2. worker'.pc = "finish" /\ worker'.id = worker.id /\ worker'.batch = worker.batch
    <3>1. "finish" \in WorkerPcs /\ "answered" \in Ends
      BY DEF WorkerPcs, Ends, InTurn
    <3> QED BY <2>1, <3>1, WorkerSteps
  <2>3. NotStarted' <=> NotStarted
    BY <2>1, <2>2 DEF NotStarted
  <2> QED BY <1>12, <2>1, <2>2, <2>3
<1>41. ASSUME NEW how \in {"answered", "failed"}, Answer(how)
       PROVE  CountInv'
  <2>1. /\ worker.pc \in {"model"} /\ worker' = [worker EXCEPT !.pc = "close", !.end = how]
        /\ UNCHANGED <<tracker, chan, mailbox, closing, client, told, taken, strayed>>
    BY <1>41, Zenon DEF Answer, EndTurn, shared, ghosts
  <2>2. worker'.pc = "close" /\ worker'.id = worker.id /\ worker'.batch = worker.batch
    <3>1. "close" \in WorkerPcs /\ how \in Ends
      BY <1>41 DEF WorkerPcs, Ends, InTurn
    <3> QED BY <2>1, <3>1, WorkerSteps
  <2>3. NotStarted' <=> NotStarted
    BY <2>1, <2>2 DEF NotStarted
  <2> QED BY <1>12, <2>1, <2>2, <2>3
<1>42. ASSUME Finish
       PROVE  CountInv'
  <2>1. /\ worker.pc \in {"finish"} /\ worker' = IdleWorker
        /\ UNCHANGED <<tracker, chan, mailbox, closing, client, taken, strayed>>
    BY <1>42, Zenon DEF Finish, shared, ghosts
  <2>2. ~NotStarted /\ ~NotStarted'
    BY <2>1 DEF NotStarted, IdleWorker
  <2>3. told'.acked = told.acked
    <3>1. worker.id \in Turns
      BY <1>1, <2>1 DEF WorkerStage, TurnOrNone
    <3>2. told' = TellEnded(told, worker.id)
      BY <1>42 DEF Finish
    <3>3. TellEnded(told, worker.id).acked = told.acked
      BY <1>1, <3>1 DEF TellEnded, ToldType
    <3> QED BY <3>2, <3>3
  <2> QED BY <1>12, <2>1, <2>2, <2>3
<1>43. ASSUME DrainBeforeRequest
       PROVE  CountInv'
  <2>1. /\ worker.pc = "drain" /\ worker' = [worker EXCEPT !.pc = "top"]
        /\ tracker' = Accept(tracker, mailbox.queue) /\ told' = TellAcked(told, mailbox.queue)
        /\ mailbox' \in {Emptied(mailbox), Closed}
        /\ UNCHANGED <<chan, closing, client, taken, strayed>>
    BY <1>43, Zenon DEF DrainBeforeRequest, Drain, WorkerStep, ghosts
  <2>2. ~NotStarted /\ ~NotStarted'
    BY <1>1, <2>1 DEF NotStarted, WorkerType
  <2>3. told'.acked = told.acked \o mailbox.queue
    BY <1>1, <2>1 DEF TellAcked, ToldType
  <2>4. mailbox'.queue = <<>>
    BY <1>1, <2>1, MailboxFacts
  <2> QED BY <1>13, <2>1, <2>2, <2>3, <2>4
<1>44. ASSUME RunTools
       PROVE  CountInv'
  <2>1. /\ worker.pc = "model" /\ worker' = [worker EXCEPT !.pc = "top"]
        /\ tracker' = Accept(tracker, mailbox.queue) /\ told' = TellAcked(told, mailbox.queue)
        /\ mailbox' \in {Emptied(mailbox), Closed}
        /\ UNCHANGED <<chan, closing, client, taken, strayed>>
    BY <1>44, Zenon DEF RunTools, Drain, WorkerStep, ghosts
  <2>2. ~NotStarted /\ ~NotStarted'
    BY <1>1, <2>1 DEF NotStarted, WorkerType
  <2>3. told'.acked = told.acked \o mailbox.queue
    BY <1>1, <2>1 DEF TellAcked, ToldType
  <2>4. mailbox'.queue = <<>>
    BY <1>1, <2>1, MailboxFacts
  <2> QED BY <1>13, <2>1, <2>2, <2>3, <2>4
<1>45. ASSUME Approve
       PROVE  CountInv'
  <2>1. /\ worker.pc = "approval" /\ worker' = [worker EXCEPT !.pc = "top"]
        /\ tracker' = Accept(tracker, mailbox.queue) /\ told' = TellAcked(told, mailbox.queue)
        /\ mailbox' \in {Emptied(mailbox), Closed}
        /\ UNCHANGED <<chan, closing, client, taken, strayed>>
    BY <1>45, Zenon DEF Approve, Drain, WorkerStep, ghosts
  <2>2. ~NotStarted /\ ~NotStarted'
    BY <1>1, <2>1 DEF NotStarted, WorkerType
  <2>3. told'.acked = told.acked \o mailbox.queue
    BY <1>1, <2>1 DEF TellAcked, ToldType
  <2>4. mailbox'.queue = <<>>
    BY <1>1, <2>1, MailboxFacts
  <2> QED BY <1>13, <2>1, <2>2, <2>3, <2>4
<1>46. ASSUME CloseForHandoff
       PROVE  CountInv'
  <2>1. /\ worker.pc = "close" /\ worker' = [worker EXCEPT !.pc = "finish"]
        /\ tracker' = Accept(tracker, mailbox.queue) /\ told' = TellAcked(told, mailbox.queue)
        /\ mailbox' \in {Emptied(mailbox), Closed}
        /\ UNCHANGED <<chan, closing, client, taken, strayed>>
    BY <1>46, Zenon DEF CloseForHandoff, WorkerStep, ghosts
  <2>2. ~NotStarted /\ ~NotStarted'
    BY <1>1, <2>1 DEF NotStarted, WorkerType
  <2>3. told'.acked = told.acked \o mailbox.queue
    BY <1>1, <2>1 DEF TellAcked, ToldType
  <2>4. mailbox'.queue = <<>>
    BY <1>1, <2>1, MailboxFacts
  <2> QED BY <1>13, <2>1, <2>2, <2>3, <2>4
<1>47. ASSUME CancelBeforeStart
       PROVE  CountInv'
  <2> DEFINE ids == <<worker.id>> \o worker.batch
  <2>1. /\ worker.pc = "check" /\ worker' = [worker EXCEPT !.pc = "cancelled"]
        /\ tracker' = Accept(tracker, ids)
        /\ told' = TellStarted(TellAcked(told, ids), worker.id)
        /\ UNCHANGED <<chan, mailbox, closing, client, taken, strayed>>
    BY <1>47, Zenon DEF CancelBeforeStart, WorkerStep, ghosts
  <2>2. worker.id \in Turns /\ NotStarted
    BY <1>15, <2>1 DEF NotStarted
  <2>3. /\ ids \in Seq(Ids) /\ IsInjective(ids) /\ ToSet(ids) \subseteq Ids
        /\ \A i \in Ids : Holds(worker, i) <=> i \in ToSet(ids)
    <3>1. /\ ids \in Seq(Ids) /\ IsInjective(ids) /\ {worker.id} \cup ToSet(worker.batch) \subseteq Ids
          /\ ToSet(ids) = {worker.id} \cup ToSet(worker.batch)
      BY <1>1, <2>2, CommandIds
    <3> HIDE DEF ids
    <3> QED BY <3>1 DEF Holds
  <2> HIDE DEF ids
  <2>4. told'.acked = told.acked \o ids
    BY <1>1, <2>1, <2>2, <2>3, AckedFacts
  <2>5. ~NotStarted'
    BY <1>1, <2>1 DEF NotStarted, WorkerType
  <2>6. ASSUME NEW i \in Ids PROVE InHand(i) = One(i \in ToSet(ids))
    BY <2>2, <2>3 DEF InHand, One
  <2>7. ToSet(ids) \subseteq tracker.pending
    <3>1. ASSUME NEW i \in ToSet(ids) PROVE i \in tracker.pending
      <4>1. i \in Ids /\ InHand(i) = 1
        BY <2>3, <2>6 DEF One
      <4>2. Pending(i) = 1
        BY <1>2, <4>1
      <4> QED BY <4>2 DEF Pending
    <3> QED BY <3>1
  <2>8. ASSUME NEW i \in Ids
        PROVE  /\ i \in ToSet(ids) => Carried(i)' = 0
               /\ i \notin ToSet(ids) => Carried(i)' = Carried(i)
    <3>1. InCall(i)' = InCall(i) /\ InChannel(i)' = InChannel(i) /\ InMailbox(i)' = InMailbox(i)
      BY <1>8, <2>1
    <3>2. InHand(i)' = 0
      BY <1>8, <2>5
    <3>3. /\ i \in ToSet(ids) => InHand(i) = 1
          /\ i \notin ToSet(ids) => InHand(i) = 0
      BY <2>6 DEF One
    <3> QED BY <1>2, <3>1, <3>2, <3>3
  <2>9. ~mailbox'.open => ToSet(mailbox'.queue) \subseteq strayed'
    BY <1>1, <2>1 DEF CarriedOnce
  <2> QED BY <1>9, <2>1, <2>3, <2>4, <2>7, <2>8, <2>9
<1>48. ASSUME Begin
       PROVE  CountInv'
  <2> DEFINE t == worker.id
             b == worker.batch
  <2>1. /\ worker.pc = "begin" /\ worker' = [worker EXCEPT !.pc = "top"]
        /\ mailbox' = [mailbox EXCEPT !.queue = @ \o b]
        /\ strayed' = IF mailbox.open THEN strayed ELSE strayed \cup ToSet(b)
        /\ tracker' = AcceptOne(tracker, t)
        /\ told' = TellStarted(TellAcked(told, <<t>>), t)
        /\ UNCHANGED <<chan, closing, client, taken>>
    BY <1>48, Zenon DEF Begin
  <2>2. t \in Turns /\ b \in Batches /\ NotStarted
    BY <1>1, <1>15, <2>1 DEF NotStarted
  <2>3. t \in Ids /\ <<t>> \in Seq(Ids) /\ t \notin ToSet(b) /\ b \in Seq(Ids) /\ IsInjective(b)
    BY <2>2, CommandIds, BatchFacts DEF Ids
  <2>4. ~NotStarted'
    BY <1>1, <2>1 DEF NotStarted, WorkerType
  <2>5. ASSUME NEW i \in Ids PROVE InHand(i) = One(i = t \/ i \in ToSet(b))
    BY <2>2 DEF InHand, One, Holds
  <2> HIDE DEF t, b
  <2>6. t \in tracker.pending
    <3>1. InHand(t) = 1
      BY <2>3, <2>5 DEF One
    <3>2. Pending(t) = 1
      BY <1>2, <2>3, <3>1
    <3> QED BY <3>2 DEF Pending
  <2>7. told'.acked = Append(told.acked, t)
    <3>1. told'.acked = told.acked \o <<t>>
      BY <1>1, <2>1, <2>2, <2>3, AckedFacts
    <3> QED BY <1>1, <2>3, <3>1, AppendIsConcat
  <2>8. /\ Tracked(tracker', told'.acked) /\ tracker'.pending = tracker.pending \ {t}
    <3>1. /\ Tracked(AcceptOne(tracker, t), Append(told.acked, t))
          /\ AcceptOne(tracker, t).pending = tracker.pending \ {t}
      BY <1>1, <2>6, AcceptOneKeeps
    <3> QED BY <2>1, <2>7, <3>1
  <2>9. mailbox'.open = mailbox.open /\ mailbox'.queue = mailbox.queue \o b
    BY <1>1, <2>1 DEF MailboxType
  <2>10. ASSUME NEW i \in Ids
         PROVE  InMailbox(i)' = InMailbox(i) + One(i \in ToSet(b))
    <3>1. InMailbox(i)' = Occurs(mailbox.queue, i) + Occurs(b, i)
      BY <1>1, <2>3, <2>9, OccursConcat DEF InMailbox
    <3>2. Occurs(b, i) = One(i \in ToSet(b))
      BY <2>3, OccursIfInjective DEF One
    <3> QED BY <3>1, <3>2 DEF InMailbox
  <2>11. ASSUME NEW i \in Ids
         PROVE  /\ Carried(i)' = Carried(i) - One(i = t) /\ Pending(i)' = Pending(i) - One(i = t)
                /\ Occurs(told'.acked, i) = Occurs(told.acked, i) + One(i = t)
                /\ One(i = t) \in Nat
    <3>1. InCall(i)' = InCall(i) /\ InChannel(i)' = InChannel(i) /\ InHand(i)' = 0
      BY <1>8, <2>1, <2>4
    <3>2. One(i = t \/ i \in ToSet(b)) = One(i = t) + One(i \in ToSet(b))
          /\ One(i = t) \in Nat /\ One(i \in ToSet(b)) \in Nat
      BY <2>3 DEF One
    <3>3. InMailbox(i)' = InMailbox(i) + One(i \in ToSet(b))
      BY <2>10
    <3>4. InHand(i) = One(i = t) + One(i \in ToSet(b))
      BY <2>5, <3>2
    <3>5. Carried(i)' = Carried(i) - One(i = t)
      BY <1>2, <3>1, <3>2, <3>3, <3>4
    <3>6. Pending(i)' = Pending(i) - One(i = t)
      BY <2>6, <2>8 DEF Pending, One
    <3>7. Occurs(told'.acked, i) = Occurs(told.acked, i) + One(i = t)
      <4>1. Occurs(Append(told.acked, t), i) = Occurs(told.acked, i) + (IF t = i THEN 1 ELSE 0)
        BY <1>1, <2>3, OccursAppend
      <4> QED BY <2>7, <4>1 DEF One
    <3> QED BY <3>2, <3>5, <3>6, <3>7
  <2>12. ASSUME NEW i \in Ids
         PROVE  /\ Carried(i)' <= Pending(i)'
                /\ ~ShuttingDown' /\ i \notin strayed'
                     => /\ Carried(i)' = Pending(i)'
                        /\ taken'[i] = Carried(i)' + Occurs(told'.acked, i)
    <3>1. taken'[i] = taken[i] /\ (ShuttingDown' <=> ShuttingDown)
          /\ (i \notin strayed' => i \notin strayed)
      BY <1>7, <2>1
    <3> QED BY <1>2, <2>11, <3>1
  <2>13. ASSUME ~mailbox'.open PROVE ToSet(mailbox'.queue) \subseteq strayed'
    <3>1. SUFFICES ASSUME NEW x \in ToSet(mailbox'.queue) PROVE x \in strayed'
      OBVIOUS
    <3>2. strayed' = strayed \cup ToSet(b) /\ ToSet(mailbox.queue) \subseteq strayed
      BY <1>1, <2>1, <2>9, <2>13 DEF CarriedOnce
    <3>3. mailbox.queue \o b \in Seq(Ids)
      BY <1>1, <2>3, ConcatProperties
    <3>4. Occurs(mailbox.queue \o b, x) > 0
      BY <2>9, <3>1, <3>3, OccursFacts
    <3>5. Occurs(mailbox.queue \o b, x) = Occurs(mailbox.queue, x) + Occurs(b, x)
      BY <1>1, <2>3, OccursConcat
    <3>6. /\ Occurs(mailbox.queue, x) \in Nat /\ Occurs(b, x) \in Nat
          /\ Occurs(mailbox.queue, x) > 0 <=> x \in ToSet(mailbox.queue)
          /\ Occurs(b, x) > 0 <=> x \in ToSet(b)
      BY <1>1, <2>3, OccursFacts
    <3> QED BY <3>2, <3>4, <3>5, <3>6
  <2> QED BY <1>3, <2>8, <2>12, <2>13
<1>49. ASSUME UNCHANGED vars
       PROVE  CountInv'
  <2>1. UNCHANGED <<tracker, chan, mailbox, closing, client, worker, told, taken, strayed>>
    BY <1>49, Zenon DEF vars, shared, ghosts
  <2>2. NotStarted' <=> NotStarted
    BY <2>1 DEF NotStarted
  <2> QED BY <1>12, <2>1, <2>2
<1> QED BY <1>16, <1>17, <1>18, <1>19, <1>20, <1>21, <1>22, <1>23, <1>24, <1>25, <1>26, <1>27, <1>28,
           <1>29, <1>30, <1>31, <1>32, <1>33, <1>34, <1>35, <1>36, <1>37, <1>38, <1>39, <1>40, <1>41, <1>42, <1>43, <1>44, <1>45, <1>46, <1>47, <1>48, <1>49, Zenon
        DEF Next, Worker, Dequeue, TurnLoop, Ending, Client, Submit, Batches

-----------------------------------------------------------------------------
(* The theorems. *)

(* The worker and its handle always stay within the inductive invariant:   *)
(* the types, where every client, command and the worker stand, what the   *)
(* tracker remembers, and that each id is in one place (lib.rs 471-520,    *)
(* 1810-1970).                                                             *)
THEOREM InvariantHolds == Spec => []IInv
<1>1. Init => IInv
  BY TypedAtFirst, StagedAtFirst, PairedAtFirst, CountedAtFirst
     DEF IInv, StaticInv, CountInv
<1>2. IInv /\ [Next]_vars => IInv'
  BY TypedAfter, StagedAfter, PairedAfter, CountedAfter DEF IInv, StaticInv, CountInv
<1> QED BY <1>1, <1>2, PTL DEF Spec

(* The type invariant that the run checks.                                 *)
LEMMA InvariantTypes == IInv => TypeOK
<1> SUFFICES ASSUME IInv PROVE TypeOK
  OBVIOUS
<1>1. SharedType /\ ActorType /\ CommandStages /\ Tracked(tracker, told.acked)
  BY DEF IInv, StaticInv, Stages
<1>2. /\ tracker.pending \subseteq Ids /\ Cardinality(tracker.pending) <= Capacity
      /\ ToSet(tracker.recent) \subseteq Ids /\ Len(tracker.recent) <= Capacity
      /\ IsInjective(tracker.recent)
  <2>1. tracker.recent \in Seq(Ids) /\ tracker.pending \subseteq Ids
    BY <1>1, SharedFacts
  <2>2. ToSet(tracker.recent) \subseteq Ids
    BY <2>1, ElementOfSeq DEF ToSet
  <2> QED BY <1>1, <2>1, <2>2 DEF Tracked
<1>3. \A k \in DOMAIN chan : chan[k].id \in Turns \cup {Nobody} /\ chan[k].gen \in 0 .. stops
  <2>1. SUFFICES ASSUME NEW k \in DOMAIN chan
                 PROVE  chan[k].id \in Turns \cup {Nobody} /\ chan[k].gen \in 0 .. stops
    OBVIOUS
  <2>2. chan[k].id \in TurnOrNone /\ chan[k].gen \in Nat /\ stops \in Nat
    BY <1>1, SharedFacts
  <2>3. chan[k].gen <= stops
    BY <1>1 DEF CommandStages, CommandStage
  <2> QED BY <2>2, <2>3 DEF TurnOrNone
<1>4. /\ mailbox.open \in BOOLEAN /\ mailbox.marker \in BOOLEAN
      /\ ToSet(mailbox.queue) \subseteq Supplements
  <2>1. mailbox \in MailboxType /\ mailbox.queue \in Seq(Supplements)
    BY <1>1, SharedFacts
  <2>2. ToSet(mailbox.queue) \subseteq Supplements
    BY <2>1, ElementOfSeq DEF ToSet
  <2> QED BY <2>1, <2>2 DEF MailboxType
<1>5. /\ flag \in BOOLEAN /\ closing \in BOOLEAN /\ compact \in BOOLEAN
      /\ stops \in 0 .. MaxStops
  BY <1>1 DEF SharedType
<1> QED BY <1>2, <1>3, <1>4, <1>5, Zenon DEF TypeOK

(* Until a shutdown, every id that a call reserved is on its way once or   *)
(* was acknowledged once, and it is pending in the tracker exactly while it *)
(* is on its way; and the state has its types.                             *)
THEOREM IdsAreCarriedOrAcknowledged == Spec => []WorkerInv
<1>1. IInv => WorkerInv
  <2> SUFFICES ASSUME IInv PROVE WorkerInv
    OBVIOUS
  <2>1. SharedType /\ ActorType /\ NothingIsLost
    BY DEF IInv, StaticInv
  <2>2. ASSUME ~ShuttingDown, NEW i \in Ids \ strayed
        PROVE  /\ taken[i] = Carried(i) + Occurs(told.acked, i)
               /\ i \in tracker.pending <=> Carried(i) > 0
    <3>1. Carried(i) = Pending(i) /\ taken[i] = Carried(i) + Occurs(told.acked, i)
      BY <2>1, <2>2 DEF NothingIsLost
    <3> QED BY <3>1 DEF Pending
  <2>3. EveryIdIsCarriedOrAcknowledged
    BY <2>2 DEF EveryIdIsCarriedOrAcknowledged
  <2> QED BY <2>3, InvariantTypes DEF WorkerInv
<1> QED BY <1>1, InvariantHolds, PTL

(* An id is acknowledged a second time only after Capacity others were     *)
(* acknowledged in between: a retried command cannot run again while the   *)
(* tracker still has it (lib.rs 494-505).                                  *)
THEOREM NoEarlyRerun == Spec => []RerunOnlyAfterEviction
<1>1. IInv => RerunOnlyAfterEviction
  BY DEF IInv, Tracked, RerunOnlyAfterEviction
<1> QED BY <1>1, InvariantHolds, PTL

(* A turn that starts ends once, and is acknowledged as often as it starts, *)
(* whichever way it ends (lib.rs 1865-1970).                               *)
THEOREM EachStartHasItsEnd == Spec => []StartsAndEndsPair
<1>1. IInv => StartsAndEndsPair
  BY DEF IInv, StaticInv
<1> QED BY <1>1, InvariantHolds, PTL

(* A turn that a Stop found in the channel never reaches the model         *)
(* (lib.rs 1865-1891).                                                     *)
THEOREM QueuedWorkIsCut == Spec => []StopCutsTheQueue
<1>1. IInv => StopCutsTheQueue
  BY DEF IInv, StaticInv, Stages, WorkerStage, StopCutsTheQueue
<1> QED BY <1>1, InvariantHolds, PTL
=============================================================================
