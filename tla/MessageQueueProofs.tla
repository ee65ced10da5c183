------------------------- MODULE MessageQueueProofs -------------------------
(***************************************************************************)
(* The queue stays well formed and implements the Outbox, whatever the     *)
(* sets of commands and payloads and the capacity are.                     *)
(***************************************************************************)
EXTENDS MessageQueueMachine, SequenceTheorems, FiniteSetTheorems, WellFoundedInduction, TLAPS

(* Every nonempty set of naturals has a least element. *)
LEMMA LeastNat ==
    ASSUME NEW K \in SUBSET Nat, K # {}
    PROVE  \E m \in K : \A n \in K : m <= n
<1> DEFINE R == OpToRel(<, Nat)
<1>1. R = {ss \in Nat \X Nat : ss[1] < ss[2]}
  BY Zenon DEF OpToRel
<1>2. IsWellFoundedOn(R, Nat)
  BY NatLessThanWellFounded, Zenon
<1> HIDE DEF R
<1>3. PICK m \in K : \A n \in K : <<n, m>> \notin R
  BY <1>2, WFMin, Zenon
<1>4. \A n \in K : ~(n < m)
  BY <1>1, <1>3
<1> QED BY <1>3, <1>4

(* What RemoveAt leaves of a sequence. *)
LEMMA RemoveAtProperties ==
    ASSUME NEW S, NEW s \in Seq(S), NEW k \in DOMAIN s
    PROVE  /\ RemoveAt(s, k) \in Seq(S)
           /\ Len(RemoveAt(s, k)) = Len(s) - 1
           /\ \A i \in 1 .. Len(s) - 1 :
                RemoveAt(s, k)[i] = IF i < k THEN s[i] ELSE s[i+1]
<1> DEFINE a == SubSeq(s, 1, k-1)
           b == SubSeq(s, k+1, Len(s))
<1>0. k \in 1 .. Len(s) /\ Len(s) \in Nat
  BY LenProperties
<1>1. a \in Seq(S) /\ Len(a) = k - 1 /\ \A i \in 1 .. k-1 : a[i] = s[i]
  BY <1>0, SubSeqProperties, ElementOfSeq, \A i \in 1 .. k-1 : s[i] \in S
<1>2. b \in Seq(S) /\ Len(b) = Len(s) - k /\ \A i \in 1 .. Len(s)-k : b[i] = s[k+i]
  <2>1. \A i \in k+1 .. Len(s) : s[i] \in S
    BY <1>0, ElementOfSeq
  <2>2. /\ b \in Seq(S)
        /\ Len(b) = IF k+1 <= Len(s) THEN Len(s)-(k+1)+1 ELSE 0
        /\ \A i \in 1 .. Len(s)-(k+1)+1 : b[i] = s[(k+1)+i-1]
    BY <1>0, <2>1, SubSeqProperties, k+1 \in Int, Len(s) \in Int
  <2> QED BY <2>2, <1>0
<1>3. RemoveAt(s, k) = a \o b
  BY DEF RemoveAt
<1> HIDE DEF a, b
<1>4. /\ a \o b \in Seq(S)
      /\ Len(a \o b) = Len(a) + Len(b)
      /\ \A i \in 1 .. Len(a) + Len(b) :
            (a \o b)[i] = IF i <= Len(a) THEN a[i] ELSE b[i - Len(a)]
  BY <1>1, <1>2, ConcatProperties
<1>5. Len(a \o b) = Len(s) - 1
  BY <1>0, <1>1, <1>2, <1>4
<1>6. ASSUME NEW i \in 1 .. Len(s) - 1
      PROVE  (a \o b)[i] = IF i < k THEN s[i] ELSE s[i+1]
  <2>1. CASE i < k
    <3>1. i \in 1 .. Len(a) + Len(b) /\ i <= Len(a) /\ i \in 1 .. k-1
      BY <2>1, <1>0, <1>1, <1>2
    <3> QED BY <3>1, <2>1, <1>1, <1>4
  <2>2. CASE ~(i < k)
    <3>0. i \in 1 .. Len(a) + Len(b) /\ ~(i <= Len(a))
      BY <2>2, <1>0, <1>1, <1>2
    <3>1. (a \o b)[i] = b[i - (k-1)]
      BY <3>0, <1>1, <1>4
    <3>2. i - (k-1) \in 1 .. Len(s)-k /\ k + (i - (k-1)) = i + 1
      BY <2>2, <1>0
    <3> QED BY <3>1, <3>2, <1>2, <2>2
  <2> QED BY <2>1, <2>2
<1> QED BY <1>3, <1>4, <1>5, <1>6

(* next_enqueue_seq recomputed by restore is above every surviving seq.    *)
LEMMA NextSeqAfterIsAbove ==
    ASSUME NEW q \in QueueType, SeqsBelowNext(q)
    PROVE  /\ NextSeqAfter(q.items) \in Nat
           /\ \A i \in DOMAIN q.items : q.items[i].seq < NextSeqAfter(q.items)
<1>0. q.items \in Seq(Item) /\ q.nextSeq \in Nat
  BY DEF QueueType
<1>1. \A i \in DOMAIN q.items : q.items[i] \in Item /\ q.items[i].seq \in Nat
  <2>1. \A i \in DOMAIN q.items : q.items[i] \in Item
    BY <1>0
  <2> QED BY <2>1 DEF Item
<1>2. CASE q.items = <<>>
  BY <1>2 DEF NextSeqAfter
<1>3. CASE q.items # <<>>
  <2> DEFINE seqs == {q.items[i].seq : i \in DOMAIN q.items}
             bounds == {n \in Nat : \A i \in DOMAIN q.items : q.items[i].seq <= n}
  <2>1. q.nextSeq \in bounds
    BY <1>0, <1>1 DEF SeqsBelowNext
  <2>2. PICK m \in bounds : \A n \in bounds : m <= n
    BY <2>1, LeastNat
  <2>3. 1 \in DOMAIN q.items
    BY <1>0, <1>3
  <2>4. m \in seqs
    <3>1. SUFFICES ASSUME \A i \in DOMAIN q.items : q.items[i].seq # m
                   PROVE  FALSE
      OBVIOUS
    <3>2. \A i \in DOMAIN q.items : q.items[i].seq <= m - 1
      BY <3>1, <2>2, <1>1
    <3>3. m - 1 \in bounds
      BY <3>2, <2>2, <2>3, <1>1
    <3> QED BY <3>3, <2>2
  <2>5. m \in seqs /\ \A x \in seqs : m >= x
    BY <2>4, <2>2, <1>1
  <2>6. Max(seqs) \in seqs /\ \A x \in seqs : Max(seqs) >= x
    BY <2>5, Zenon DEF Max
  <2>7. NextSeqAfter(q.items) = Max(seqs) + 1
    BY <1>3 DEF NextSeqAfter
  <2> HIDE DEF seqs
  <2>8. seqs \subseteq Nat /\ \A i \in DOMAIN q.items : q.items[i].seq \in seqs
    BY <1>1 DEF seqs
  <2>9. Max(seqs) \in Nat
    BY <2>6, <2>8, Zenon
  <2>10. ASSUME NEW i \in DOMAIN q.items
         PROVE  q.items[i].seq < NextSeqAfter(q.items)
    <3>1. Max(seqs) >= q.items[i].seq /\ q.items[i].seq \in Nat
      BY <2>6, <2>8, <1>1, Zenon
    <3> QED BY <3>1, <2>7, <2>9
  <2>11. NextSeqAfter(q.items) \in Nat
    BY <2>7, <2>9
  <2> QED BY <2>10, <2>11, Zenon
<1> QED BY <1>2, <1>3, Zenon

-----------------------------------------------------------------------------
Good(q) == q \in QueueType /\ WellFormed(q)

(* The item found under an id that is queued carries that id.              *)
LEMMA ItemOfProperties ==
    ASSUME NEW q \in QueueType, NEW id \in Ids(q)
    PROVE  /\ Position(q, id) \in DOMAIN q.items
           /\ ItemOf(q, id) \in Item
           /\ ItemOf(q, id).id = id
<1>1. \E i \in DOMAIN q.items : q.items[i].id = id
  BY DEF Ids
<1>2. Position(q, id) \in DOMAIN q.items /\ q.items[Position(q, id)].id = id
  BY <1>1, Zenon DEF Position
<1>3. q.items \in Seq(Item)
  BY DEF QueueType
<1> QED BY <1>2, <1>3 DEF ItemOf

LEMMA NewQueueIsGood == Good(NewQueue)
BY QueueAssumption
   DEF Good, NewQueue, QueueType, Continuations, WellFormed, Distinct, SeqsBelowNext, Ids

LEMMA RestoreIsGood ==
    ASSUME NEW q, Good(q)
    PROVE  Good(Restore(q))
<1>0. q \in QueueType /\ WellFormed(q)
  BY DEF Good
<1>1. SeqsBelowNext(q)
  BY <1>0 DEF WellFormed
<1>2. /\ NextSeqAfter(q.items) \in Nat
      /\ \A i \in DOMAIN q.items : q.items[i].seq < NextSeqAfter(q.items)
  BY <1>0, <1>1, NextSeqAfterIsAbove
<1> DEFINE r == Restore(q)
<1>3. /\ r \in QueueType
      /\ r.items = q.items
      /\ r.nextSeq = NextSeqAfter(q.items)
      /\ r.dispatching = NoCommand
  BY <1>0, <1>2 DEF Restore, QueueType, Continuations
<1> HIDE DEF r
<1>4. WellFormed(r)
  BY <1>0, <1>2, <1>3 DEF WellFormed, Distinct, SeqsBelowNext
<1> QED BY <1>3, <1>4 DEF Good, r

LEMMA EnqueueIsGood ==
    ASSUME NEW q, Good(q), NEW id \in Commands, NEW p \in Payloads, CanEnqueue(q, id)
    PROVE  Good(Enqueue(q, id, p))
<1> DEFINE item == [id |-> id, seq |-> q.nextSeq, payload |-> p]
           r == Enqueue(q, id, p)
<1>0. q \in QueueType /\ WellFormed(q) /\ q.items \in Seq(Item)
  BY DEF Good, QueueType
<1>1. item \in Item
  BY <1>0 DEF Item, QueueType
<1>2. /\ Append(q.items, item) \in Seq(Item)
      /\ Len(Append(q.items, item)) = Len(q.items) + 1
      /\ \A i \in 1 .. Len(q.items) : Append(q.items, item)[i] = q.items[i]
      /\ Append(q.items, item)[Len(q.items) + 1] = item
  BY <1>0, <1>1, AppendProperties
<1>3. /\ r \in QueueType
      /\ r.items = Append(q.items, item)
      /\ r.nextSeq = q.nextSeq + 1
      /\ r.dispatching = q.dispatching
  <2> DEFINE longer == Append(q.items, item)
             e == [q EXCEPT !.items = longer, !.nextSeq = @ + 1]
  <2>1. r = [e EXCEPT !.revision = @ + 1]
    BY DEF Enqueue, Bump
  <2>2. longer \in Seq(Item)
    BY <1>2
  <2> HIDE DEF longer, r
  <2>0. q.nextSeq + 1 \in Nat
    BY <1>0 DEF QueueType
  <2>3. /\ e \in QueueType
        /\ e.items = longer
        /\ e.nextSeq = q.nextSeq + 1
        /\ e.dispatching = q.dispatching
    BY <1>0, <2>0, <2>2 DEF QueueType
  <2> HIDE DEF e
  <2>4. /\ r \in QueueType
        /\ r.items = e.items
        /\ r.nextSeq = e.nextSeq
        /\ r.dispatching = e.dispatching
    BY <2>1, <2>3 DEF QueueType
  <2> QED BY <2>3, <2>4 DEF longer
<1>4. \A i \in DOMAIN q.items : q.items[i].id # id /\ q.items[i].seq < q.nextSeq
  BY <1>0 DEF CanEnqueue, Ids, WellFormed, SeqsBelowNext
<1> HIDE DEF r
<1>5. DOMAIN r.items = 1 .. Len(q.items) + 1 /\ DOMAIN q.items = 1 .. Len(q.items)
  BY <1>0, <1>2, <1>3, LenProperties
<1>6. item.id = id /\ item.seq = q.nextSeq /\ q.nextSeq \in Nat /\ Len(q.items) \in Nat
  BY <1>0 DEF QueueType
<1>7. \A i \in DOMAIN q.items : q.items[i].seq \in Nat
  <2>1. \A i \in DOMAIN q.items : q.items[i] \in Item
    BY <1>0
  <2> QED BY <2>1 DEF Item
<1> HIDE DEF item
<1>a. ASSUME NEW i \in DOMAIN r.items
      PROVE  \/ i = Len(q.items) + 1 /\ r.items[i] = item
             \/ i \in DOMAIN q.items /\ r.items[i] = q.items[i]
  BY <1>2, <1>3, <1>5, <1>6
<1>b. ASSUME NEW i \in DOMAIN r.items, NEW j \in DOMAIN r.items, i # j
      PROVE  r.items[i].id # r.items[j].id /\ r.items[i].seq # r.items[j].seq
  <2>1. CASE i = Len(q.items) + 1
    <3>1. r.items[i] = item /\ j \in DOMAIN q.items /\ r.items[j] = q.items[j]
      BY <1>a, <1>b, <1>5, <1>6, <2>1
    <3> QED BY <3>1, <1>4, <1>6, <1>7
  <2>2. CASE j = Len(q.items) + 1
    <3>1. r.items[j] = item /\ i \in DOMAIN q.items /\ r.items[i] = q.items[i]
      BY <1>a, <1>b, <1>5, <1>6, <2>2
    <3> QED BY <3>1, <1>4, <1>6, <1>7
  <2>3. CASE i \in DOMAIN q.items /\ j \in DOMAIN q.items
    <3>1. r.items[i] = q.items[i] /\ r.items[j] = q.items[j]
      BY <1>2, <1>3, <1>5, <2>3
    <3> QED BY <3>1, <2>3, <1>0, <1>b DEF WellFormed, Distinct
  <2> QED BY <2>1, <2>2, <2>3, <1>a
<1>c. ASSUME NEW i \in DOMAIN r.items PROVE r.items[i].seq < r.nextSeq
  BY <1>a, <1>3, <1>4, <1>6, <1>7
<1>8. Distinct(r) /\ SeqsBelowNext(r)
  BY <1>b, <1>c DEF Distinct, SeqsBelowNext
<1>9. Len(r.items) <= Capacity
  BY <1>0, <1>2, <1>3, <1>6, QueueAssumption DEF CanEnqueue
<1>10. r.dispatching \in Ids(r) \cup {NoCommand}
  BY <1>0, <1>2, <1>3, <1>5, <1>6 DEF WellFormed, Ids
<1> QED BY <1>3, <1>8, <1>9, <1>10 DEF Good, WellFormed, r

-----------------------------------------------------------------------------
(* A queue whose items are some of a good queue's items, each at most once *)
(* and with its id and seq, is good.                                       *)
LEMMA PickedIsGood ==
    ASSUME NEW q, Good(q), NEW r \in QueueType,
           NEW f \in [DOMAIN r.items -> DOMAIN q.items],
           \A i, j \in DOMAIN r.items : f[i] = f[j] => i = j,
           \A i \in DOMAIN r.items : /\ r.items[i].id = q.items[f[i]].id
                                     /\ r.items[i].seq = q.items[f[i]].seq,
           Len(r.items) <= Len(q.items),
           r.nextSeq = q.nextSeq,
           r.dispatching \in Ids(r) \cup {NoCommand}
    PROVE  Good(r)
<1>0. q \in QueueType /\ WellFormed(q)
  BY DEF Good
<1>a. \A i \in DOMAIN r.items : f[i] \in DOMAIN q.items
  OBVIOUS
<1>b. ASSUME NEW i \in DOMAIN r.items, NEW j \in DOMAIN r.items, i # j
      PROVE  r.items[i].id # r.items[j].id /\ r.items[i].seq # r.items[j].seq
  <2>1. f[i] # f[j] /\ f[i] \in DOMAIN q.items /\ f[j] \in DOMAIN q.items
    BY <1>a, <1>b
  <2>2. /\ q.items[f[i]].id # q.items[f[j]].id
        /\ q.items[f[i]].seq # q.items[f[j]].seq
    BY <1>0, <2>1 DEF WellFormed, Distinct
  <2> QED BY <2>2
<1>c. ASSUME NEW i \in DOMAIN r.items PROVE r.items[i].seq < r.nextSeq
  <2>1. q.items[f[i]].seq < q.nextSeq
    BY <1>0, <1>a DEF WellFormed, SeqsBelowNext
  <2> QED BY <2>1
<1>1. Distinct(r) /\ SeqsBelowNext(r)
  BY <1>b, <1>c DEF Distinct, SeqsBelowNext
<1>2. Len(q.items) \in Nat /\ Len(r.items) \in Nat
  BY <1>0, LenProperties DEF QueueType
<1>3. Len(r.items) <= Capacity
  BY <1>0, <1>2, QueueAssumption DEF WellFormed
<1> QED BY <1>1, <1>3 DEF Good, WellFormed

(* Flags may change freely: only the items, the next seq and the command   *)
(* being dispatched matter.                                                *)
LEMMA SameItemsIsGood ==
    ASSUME NEW q, Good(q), NEW r \in QueueType,
           r.items = q.items, r.nextSeq = q.nextSeq,
           r.dispatching \in Ids(q) \cup {NoCommand}
    PROVE  Good(r)
BY DEF Good, WellFormed, Distinct, SeqsBelowNext, Ids

LEMMA BumpIsGood ==
    ASSUME NEW q, Good(q)
    PROVE  Good(Bump(q))
<1> DEFINE r == Bump(q)
<1>0. q \in QueueType /\ q.dispatching \in Ids(q) \cup {NoCommand}
  BY DEF Good, WellFormed
<1>1. q.revision + 1 \in Nat
  BY <1>0 DEF QueueType
<1>2. /\ r \in QueueType
      /\ r.items = q.items /\ r.nextSeq = q.nextSeq /\ r.dispatching = q.dispatching
  BY <1>0, <1>1 DEF Bump, QueueType
<1> HIDE DEF r
<1>3. Good(r)
  BY <1>0, <1>2, SameItemsIsGood
<1> QED BY <1>3 DEF r

LEMMA FlagsAreGood ==
    ASSUME NEW q, Good(q)
    PROVE  /\ \A enabled \in BOOLEAN : Good(SetAutoSend(q, enabled))
           /\ Good(Grant(q))
           /\ \A reason \in BlockReasons : Good(Block(q, reason))
           /\ Good(RejectDispatch(q))
           /\ CanBeginAutomatic(q) => Good(BeginAutomatic(q))
           /\ \A id \in Ids(q) : Good(BeginImmediate(q, id))
<1>0. q \in QueueType /\ q.dispatching \in Ids(q) \cup {NoCommand}
  BY DEF Good, WellFormed
<1>1. ASSUME NEW enabled \in BOOLEAN PROVE Good(SetAutoSend(q, enabled))
  <2> DEFINE r == [q EXCEPT !.autoSend = enabled]
  <2>1. r \in QueueType /\ r.items = q.items /\ r.nextSeq = q.nextSeq
        /\ r.dispatching = q.dispatching
    BY <1>0 DEF QueueType
  <2> HIDE DEF r
  <2>2. Good(Bump(r))
    BY <1>0, <2>1, SameItemsIsGood, BumpIsGood
  <2> QED BY <2>2 DEF SetAutoSend, r
<1>2. ASSUME NEW c \in Continuations PROVE Good(Bump([q EXCEPT !.continuation = c]))
  <2> DEFINE r == [q EXCEPT !.continuation = c]
  <2>1. r \in QueueType /\ r.items = q.items /\ r.nextSeq = q.nextSeq
        /\ r.dispatching = q.dispatching
    BY <1>0 DEF QueueType
  <2> HIDE DEF r
  <2>2. Good(Bump(r))
    BY <1>0, <2>1, SameItemsIsGood, BumpIsGood
  <2> QED BY <2>2 DEF r
<1>3. ASSUME NEW id \in Ids(q) \cup {NoCommand}, NEW c \in Continuations
      PROVE  Good(Bump([q EXCEPT !.dispatching = id, !.continuation = c]))
  <2> DEFINE r == [q EXCEPT !.dispatching = id, !.continuation = c]
  <2>0. id \in Commands \cup {NoCommand}
    BY <1>0, ItemOfProperties DEF Item
  <2>1. r \in QueueType /\ r.items = q.items /\ r.nextSeq = q.nextSeq
        /\ r.dispatching = id
    BY <1>0, <2>0 DEF QueueType
  <2> HIDE DEF r
  <2>2. Good(Bump(r))
    BY <1>0, <2>1, SameItemsIsGood, BumpIsGood
  <2> QED BY <2>2 DEF r
<1>4. \A reason \in BlockReasons : Good(Block(q, reason))
  BY <1>2 DEF Block, Continuations
<1>5. Good(Grant(q))
  BY <1>2 DEF Grant, Continuations
<1>6. Good(RejectDispatch(q))
  BY <1>3 DEF RejectDispatch, Continuations
<1>7. CanBeginAutomatic(q) => Good(BeginAutomatic(q))
  <2>1. CanBeginAutomatic(q) => q.items[1].id \in Ids(q)
    BY <1>0 DEF CanBeginAutomatic, Ids, QueueType
  <2> QED BY <1>3, <2>1 DEF BeginAutomatic, Continuations
<1>8. ASSUME NEW id \in Ids(q) PROVE Good(BeginImmediate(q, id))
  <2> DEFINE r == [q EXCEPT !.dispatching = id]
  <2>0. id \in Commands
    BY <1>0, ItemOfProperties DEF Item
  <2>1. r \in QueueType /\ r.items = q.items /\ r.nextSeq = q.nextSeq
        /\ r.dispatching = id
    BY <1>0, <2>0 DEF QueueType
  <2> HIDE DEF r
  <2>2. Good(Bump(r))
    BY <1>0, <2>1, SameItemsIsGood, BumpIsGood
  <2> QED BY <2>2 DEF BeginImmediate, r
<1> QED BY <1>1, <1>4, <1>5, <1>6, <1>7, <1>8

LEMMA UpdatePayloadIsGood ==
    ASSUME NEW q, Good(q), NEW id \in Ids(q), NEW p \in Payloads
    PROVE  Good(UpdatePayload(q, id, p))
<1> DEFINE k == Position(q, id)
           edited == [q.items[k] EXCEPT !.payload = p]
           items == [q.items EXCEPT ![k] = edited]
           r == [q EXCEPT !.items = items]
<1>0. q \in QueueType /\ WellFormed(q) /\ q.items \in Seq(Item)
  BY DEF Good, QueueType
<1>1. k \in DOMAIN q.items /\ q.items[k] \in Item
  BY <1>0, ItemOfProperties DEF ItemOf
<1>2. edited \in Item /\ edited.id = q.items[k].id /\ edited.seq = q.items[k].seq
  BY <1>1 DEF Item
<1> HIDE DEF edited, k
<1>3. /\ items \in Seq(Item) /\ DOMAIN items = DOMAIN q.items /\ Len(items) = Len(q.items)
      /\ \A i \in DOMAIN items : items[i] = IF i = k THEN edited ELSE q.items[i]
  BY <1>0, <1>1, <1>2
<1> HIDE DEF items
<1>4. /\ r \in QueueType
      /\ r.items = items /\ r.nextSeq = q.nextSeq /\ r.dispatching = q.dispatching
  BY <1>0, <1>3 DEF QueueType
<1> HIDE DEF r
<1>5. \A i \in DOMAIN r.items : /\ r.items[i].id = q.items[i].id
                                /\ r.items[i].seq = q.items[i].seq
  BY <1>2, <1>3, <1>4
<1>6. Ids(r) = Ids(q)
  BY <1>3, <1>4, <1>5 DEF Ids
<1> DEFINE f == [i \in DOMAIN r.items |-> i]
<1>7. /\ f \in [DOMAIN r.items -> DOMAIN q.items]
      /\ \A i \in DOMAIN r.items : f[i] = i
  BY <1>3, <1>4
<1> HIDE DEF f
<1>8. Len(r.items) <= Len(q.items) /\ r.dispatching \in Ids(r) \cup {NoCommand}
  BY <1>0, <1>3, <1>4, <1>6, LenProperties DEF WellFormed
<1>9. Good(r)
  BY <1>4, <1>5, <1>7, <1>8, PickedIsGood
<1> QED BY <1>9, BumpIsGood DEF UpdatePayload, r, items, edited, k

(* Removing a queued item and clearing or keeping the reservation.         *)
LEMMA WithoutItemIsGood ==
    ASSUME NEW q, Good(q), NEW id \in Ids(q), NEW d \in {q.dispatching, NoCommand}, d # id
    PROVE  Good([WithoutItem(q, id) EXCEPT !.dispatching = d])
<1> DEFINE k == Position(q, id)
           items == RemoveAt(q.items, k)
           w == [q EXCEPT !.items = items]
           r == [w EXCEPT !.dispatching = d]
<1>0. /\ q \in QueueType /\ WellFormed(q) /\ q.items \in Seq(Item)
      /\ d \in Commands \cup {NoCommand}
  BY DEF Good, QueueType
<1>1. k \in DOMAIN q.items /\ q.items[k].id = id
  BY <1>0, ItemOfProperties DEF ItemOf
<1> HIDE DEF k
<1>2. /\ items \in Seq(Item) /\ Len(items) = Len(q.items) - 1
      /\ \A i \in 1 .. Len(q.items) - 1 :
            items[i] = IF i < k THEN q.items[i] ELSE q.items[i+1]
  BY <1>0, <1>1, RemoveAtProperties
<1> HIDE DEF items
<1>3. w \in QueueType /\ w.items = items /\ w.nextSeq = q.nextSeq
  BY <1>0, <1>2 DEF QueueType
<1> HIDE DEF w
<1>4. r \in QueueType /\ r.items = items /\ r.nextSeq = q.nextSeq /\ r.dispatching = d
  BY <1>0, <1>3 DEF QueueType
<1> HIDE DEF r
<1>5. /\ Len(q.items) \in Nat /\ DOMAIN q.items = 1 .. Len(q.items)
      /\ DOMAIN r.items = 1 .. Len(q.items) - 1
  BY <1>0, <1>2, <1>4, LenProperties
<1> DEFINE f == [i \in DOMAIN r.items |-> IF i < k THEN i ELSE i + 1]
<1>6. /\ f \in [DOMAIN r.items -> DOMAIN q.items]
      /\ \A i \in DOMAIN r.items : f[i] = IF i < k THEN i ELSE i + 1
  BY <1>5
<1> HIDE DEF f
<1>7. \A i \in DOMAIN r.items : r.items[i] = q.items[f[i]]
  BY <1>2, <1>4, <1>5, <1>6
<1>8. \A i, j \in DOMAIN r.items : f[i] = f[j] => i = j
  BY <1>1, <1>5, <1>6
<1>9. d \in Ids(r) \cup {NoCommand}
  <2>1. SUFFICES ASSUME d # NoCommand PROVE d \in Ids(r)
    OBVIOUS
  <2>2. PICK j \in DOMAIN q.items : q.items[j].id = d
    BY <1>0, <2>1 DEF WellFormed, Ids
  <2>3. j # k
    BY <1>1, <2>2
  <2>4. \E i \in DOMAIN r.items : f[i] = j
    <3>1. CASE j < k
      BY <3>1, <1>1, <1>5, <1>6
    <3>2. CASE j > k
      <4>1. j - 1 \in DOMAIN r.items /\ ~(j - 1 < k) /\ (j - 1) + 1 = j
        BY <3>2, <1>1, <1>5
      <4> QED BY <4>1, <1>6
    <3> QED BY <3>1, <3>2, <2>3, <1>1, <1>5
  <2> QED BY <2>2, <2>4, <1>7 DEF Ids
<1>10. Len(r.items) <= Len(q.items)
  BY <1>2, <1>4, <1>5
<1>11. Good(r)
  BY <1>4, <1>6, <1>7, <1>8, <1>9, <1>10, PickedIsGood
<1> QED BY <1>11 DEF WithoutItem, r, w, items, k

LEMMA RemoveIsGood ==
    ASSUME NEW q, Good(q), NEW id \in Ids(q)
    PROVE  /\ CanEdit(q, id) => Good(RemoveItem(q, id))
           /\ Good(ConfirmStarted(q, id))
<1>0. q \in QueueType /\ id \in Commands
  BY ItemOfProperties DEF Good, Item
<1>1. CanEdit(q, id) => Good(RemoveItem(q, id))
  <2>1. SUFFICES ASSUME CanEdit(q, id) PROVE Good(RemoveItem(q, id))
    OBVIOUS
  <2> DEFINE w == WithoutItem(q, id)
  <2>2. Good([w EXCEPT !.dispatching = q.dispatching])
    BY <2>1, WithoutItemIsGood DEF CanEdit
  <2>3. [w EXCEPT !.dispatching = q.dispatching] = w
    BY <1>0 DEF WithoutItem, QueueType
  <2> QED BY <2>2, <2>3, BumpIsGood DEF RemoveItem
<1>2. Good(ConfirmStarted(q, id))
  <2>1. NoCommand # id
    BY <1>0, QueueAssumption
  <2> QED BY <2>1, WithoutItemIsGood, BumpIsGood DEF ConfirmStarted
<1> QED BY <1>1, <1>2

LEMMA ReorderIsGood ==
    ASSUME NEW q, Good(q), NEW order \in Orders(q)
    PROVE  Good(Reorder(q, order))
<1> DEFINE items == [i \in DOMAIN q.items |-> ItemOf(q, order[i])]
           r == [q EXCEPT !.items = items]
           f == [i \in DOMAIN q.items |-> Position(q, order[i])]
<1>0. q \in QueueType /\ WellFormed(q) /\ q.items \in Seq(Item)
  BY DEF Good, QueueType
<1>1. /\ \A i \in DOMAIN q.items : order[i] \in Ids(q)
      /\ \A i, j \in DOMAIN q.items : order[i] = order[j] => i = j
      /\ \A id \in Ids(q) : \E i \in DOMAIN q.items : order[i] = id
  BY DEF Orders, Bijection, Injection, Surjection, IsInjective
<1>2. \A i \in DOMAIN q.items :
        /\ Position(q, order[i]) \in DOMAIN q.items
        /\ ItemOf(q, order[i]) \in Item
        /\ ItemOf(q, order[i]).id = order[i]
  BY <1>0, <1>1, ItemOfProperties
<1>3. /\ items \in Seq(Item) /\ DOMAIN items = DOMAIN q.items
      /\ Len(items) = Len(q.items) /\ Len(items) \in Nat
      /\ \A i \in DOMAIN items : items[i] = ItemOf(q, order[i])
  <2>1. Len(q.items) \in Nat /\ DOMAIN q.items = 1..Len(q.items)
    BY <1>0
  <2>2. DOMAIN items = DOMAIN q.items
    BY Zenon
  <2>3. \A i \in DOMAIN q.items : items[i] = ItemOf(q, order[i])
    BY Zenon
  <2>4. items \in [1..Len(q.items) -> Item]
    BY <2>1, <1>2, Zenon
  <2> HIDE DEF items
  <2>5. items \in Seq(Item) /\ Len(items) = Len(q.items)
    BY <2>1, <2>4
  <2> QED BY <2>1, <2>2, <2>3, <2>5, Zenon
<1> HIDE DEF items
<1>4. /\ r \in QueueType
      /\ r.items = items /\ r.nextSeq = q.nextSeq /\ r.dispatching = q.dispatching
  BY <1>0, <1>3 DEF QueueType
<1> HIDE DEF r
<1>5. f \in [DOMAIN r.items -> DOMAIN q.items] /\ \A i \in DOMAIN r.items :
        r.items[i] = q.items[f[i]] /\ r.items[i].id = order[i]
  BY <1>2, <1>3, <1>4 DEF ItemOf
<1> HIDE DEF f
<1>6. \A i, j \in DOMAIN r.items : f[i] = f[j] => i = j
  BY <1>1, <1>3, <1>4, <1>5
<1>7. r.dispatching \in Ids(r) \cup {NoCommand}
  <2>1. Ids(q) \subseteq Ids(r)
    <3>1. SUFFICES ASSUME NEW id \in Ids(q) PROVE id \in Ids(r)
      OBVIOUS
    <3>2. PICK i \in DOMAIN q.items : order[i] = id
      BY <1>1
    <3>3. i \in DOMAIN r.items /\ r.items[i].id = id
      BY <3>2, <1>3, <1>4, <1>5
    <3> QED BY <3>3 DEF Ids
  <2> QED BY <2>1, <1>0, <1>4 DEF WellFormed
<1>8. Len(r.items) <= Len(q.items)
  BY <1>3, <1>4
<1>9. Good(r)
  BY <1>4, <1>5, <1>6, <1>7, <1>8, PickedIsGood
<1> QED BY <1>9, BumpIsGood DEF Reorder, r, items

-----------------------------------------------------------------------------
CommandType == [stage : {"none", "saves", "appends"}, undo : QueueType, left : Nat]

LEMMA IInvUnfolded ==
    IInv <=> /\ Good(queue) /\ Good(disk) /\ Good(command.undo)
             /\ command \in CommandType
<1>1. command \in CommandType => command.undo \in QueueType
  BY DEF CommandType
<1> QED BY <1>1, Zenon DEF IInv, TypeOK, QueueIdentity, Good, CommandType

LEMMA NoCommandIsGood == Good(NoCommandRuns.undo) /\ NoCommandRuns \in CommandType
BY NewQueueIsGood DEF NoCommandRuns, CommandType, Good

LEMMA InitEstablishesIInv == Init => IInv
BY NewQueueIsGood, NoCommandIsGood, IInvUnfolded, Zenon DEF Init

(* A command of the lane that leaves a good queue keeps the invariant.     *)
LEMMA CommandKeepsIInv ==
    ASSUME IInv, NEW stage \in {"saves", "appends"}, NEW q, Good(q), Command(stage, q)
    PROVE  IInv'
<1>1. /\ queue' = q /\ disk' = disk
      /\ command' = [stage |-> stage, undo |-> queue, left |-> q.revision]
  BY DEF Command, Becomes
<1>2. Good(queue) /\ Good(disk)
  BY IInvUnfolded
<1>3. command' \in CommandType /\ command'.undo = queue
  BY <1>1, <1>2 DEF CommandType, Good, QueueType
<1>4. Good(queue)' /\ Good(disk)' /\ Good(command.undo)'
  BY <1>1, <1>2, <1>3 DEF Good, WellFormed, Distinct, SeqsBelowNext, Ids
<1>5. (command \in CommandType)'
  BY <1>1, <1>2, <1>3 DEF CommandType
<1> QED BY <1>4, <1>5, IInvUnfolded, PTL

(* So does a handler that leaves a good queue, saved or not.               *)
LEMMA HandledKeepsIInv ==
    ASSUME IInv, NEW q, Good(q), Handled(q)
    PROVE  IInv'
<1>1. queue' = q /\ disk' \in {disk, q} /\ command' = command
  BY DEF Handled, Becomes, MayBeWritten
<1>2. Good(queue) /\ Good(disk) /\ Good(command.undo) /\ command \in CommandType
  BY IInvUnfolded
<1>3. Good(queue)' /\ Good(disk)' /\ Good(command.undo)'
  BY <1>1, <1>2 DEF Good, WellFormed, Distinct, SeqsBelowNext, Ids
<1>4. (command \in CommandType)'
  BY <1>1, <1>2 DEF CommandType
<1> QED BY <1>3, <1>4, IInvUnfolded, PTL

(* And the end of a command: saved, put back or given up.                  *)
LEMMA CommandEndKeepsIInv ==
    ASSUME IInv, command' = NoCommandRuns,
           Good(queue'), Good(disk')
    PROVE  IInv'
<1>1. command' \in CommandType /\ Good(command'.undo)
  BY NoCommandIsGood
<1>2. Good(queue)' /\ Good(disk)' /\ Good(command.undo)'
  BY <1>1 DEF Good, WellFormed, Distinct, SeqsBelowNext, Ids
<1>3. (command \in CommandType)'
  BY <1>1 DEF CommandType
<1> QED BY <1>2, <1>3, IInvUnfolded, PTL

(* Every command, event, save and restart keeps the queue, its file and    *)
(* what a command would put back well formed.                              *)
LEMMA NextPreservesIInv == IInv /\ [Next]_vars => IInv'
<1> SUFFICES ASSUME IInv, [Next]_vars
             PROVE  IInv'
  OBVIOUS
<1>0. /\ Good(queue) /\ Good(disk) /\ Good(command.undo)
      /\ command \in CommandType
  BY IInvUnfolded
<1>1. CASE Accept
  BY <1>0, <1>1, EnqueueIsGood, CommandKeepsIInv DEF Accept
<1>2. CASE Edit
  BY <1>0, <1>2, UpdatePayloadIsGood, CommandKeepsIInv DEF Edit, CanEdit
<1>3. CASE Withdraw
  BY <1>0, <1>3, RemoveIsGood, CommandKeepsIInv DEF Withdraw, CanEdit
<1>4. CASE SendAsSupplement
  BY <1>0, <1>4, RemoveIsGood, CommandKeepsIInv DEF SendAsSupplement, CanEdit
<1>5. CASE Rearrange
  BY <1>0, <1>5, ReorderIsGood, CommandKeepsIInv DEF Rearrange
<1>6. CASE ToggleAutoSend
  BY <1>0, <1>6, FlagsAreGood, CommandKeepsIInv DEF ToggleAutoSend
<1>7. CASE Saved
  BY <1>0, <1>7, CommandEndKeepsIInv DEF Saved
<1>8. CASE RollBack
  BY <1>0, <1>8, CommandEndKeepsIInv DEF RollBack
<1>9. CASE SupplementFails
  BY <1>0, <1>9, CommandEndKeepsIInv DEF SupplementFails
<1>10. CASE CompleteNormally
  BY <1>0, <1>10, FlagsAreGood, HandledKeepsIInv DEF CompleteNormally
<1>11. CASE BlockContinuation
  BY <1>0, <1>11, FlagsAreGood, HandledKeepsIInv DEF BlockContinuation
<1>12. CASE DispatchAutomatic
  BY <1>0, <1>12, FlagsAreGood, HandledKeepsIInv DEF DispatchAutomatic
<1>13. CASE DispatchImmediate
  BY <1>0, <1>13, FlagsAreGood, HandledKeepsIInv DEF DispatchImmediate, CanBeginImmediate
<1>14. CASE DispatchRejected
  BY <1>0, <1>14, FlagsAreGood, HandledKeepsIInv DEF DispatchRejected
<1>15. CASE TurnStarted
  BY <1>0, <1>15, RemoveIsGood, HandledKeepsIInv DEF TurnStarted, CanConfirm
<1>16. CASE Restart
  BY <1>0, <1>16, RestoreIsGood, CommandEndKeepsIInv DEF Restart, MayBeWritten
<1>17. CASE Interrupted
  <2>1. /\ queue' = NewQueue /\ disk' \in {disk, NewQueue}
        /\ command' = command
    BY <1>17 DEF Interrupted, MayBeWritten
  <2>2. Good(queue)' /\ Good(disk)' /\ Good(command.undo)'
    BY <1>0, <2>1, NewQueueIsGood DEF Good, WellFormed, Distinct, SeqsBelowNext, Ids
  <2>3. (command \in CommandType)'
    BY <1>0, <2>1 DEF CommandType
  <2> QED BY <2>2, <2>3, IInvUnfolded, PTL
<1>18. CASE UNCHANGED vars
  <2>1. queue' = queue /\ disk' = disk /\ command' = command
    BY <1>18 DEF vars
  <2>2. Good(queue)' /\ Good(disk)' /\ Good(command.undo)'
    BY <1>0, <2>1 DEF Good, WellFormed, Distinct, SeqsBelowNext, Ids
  <2>3. (command \in CommandType)'
    BY <1>0, <2>1 DEF CommandType
  <2> QED BY <2>2, <2>3, IInvUnfolded, PTL
<1> QED
  BY <1>1, <1>2, <1>3, <1>4, <1>5, <1>6, <1>7, <1>8, <1>9, <1>10, <1>11, <1>12,
     <1>13, <1>14, <1>15, <1>16, <1>17, <1>18 DEF Next

(* The queue's fields keep their types in every behaviour.                 *)
THEOREM QueueTypeCorrect == Spec => []TypeOK
<1>1. IInv => TypeOK
  BY DEF IInv
<1> QED BY <1>1, InitEstablishesIInv, NextPreservesIInv, PTL DEF Spec

(* Distinct ids and seqs, capacity, and a queued command under dispatch:   *)
(* the guarantees of SessionMessageQueue across reorder and restore.       *)
THEOREM QueueIdentityHolds == Spec => []QueueIdentity
<1>1. IInv => QueueIdentity
  BY DEF IInv
<1> QED BY <1>1, InitEstablishesIInv, NextPreservesIInv, PTL DEF Spec

(* Both at once, as the run checks them.                                   *)
THEOREM QueueInvHolds == Spec => []QueueInv
<1>1. TypeOK /\ QueueIdentity => QueueInv
  BY DEF QueueInv
<1> QED BY <1>1, QueueTypeCorrect, QueueIdentityHolds, PTL

-----------------------------------------------------------------------------
LEMMA BumpRaises ==
    ASSUME NEW q, "revision" \in DOMAIN q
    PROVE  Bump(q).revision = q.revision + 1
BY DEF Bump

SameRevision(e, x) == "revision" \in DOMAIN e /\ e.revision = x.revision

LEMMA OtherFieldsKeepTheRevision ==
    ASSUME NEW x, "revision" \in DOMAIN x, NEW v
    PROVE  /\ SameRevision([x EXCEPT !.items = v], x)
           /\ SameRevision([x EXCEPT !.nextSeq = v], x)
           /\ SameRevision([x EXCEPT !.dispatching = v], x)
           /\ SameRevision([x EXCEPT !.continuation = v], x)
           /\ SameRevision([x EXCEPT !.autoSend = v], x)
BY DEF SameRevision

(* Every mutating method counts up exactly once, whatever else it changes. *)
LEMMA MutationsRaise ==
    ASSUME NEW q \in QueueType
    PROVE  /\ \A id, p : Enqueue(q, id, p).revision = q.revision + 1
           /\ \A id, p : UpdatePayload(q, id, p).revision = q.revision + 1
           /\ \A id : RemoveItem(q, id).revision = q.revision + 1
           /\ \A order : Reorder(q, order).revision = q.revision + 1
           /\ \A enabled : \/ SetAutoSend(q, enabled) = q
                           \/ SetAutoSend(q, enabled).revision = q.revision + 1
           /\ Grant(q).revision = q.revision + 1
           /\ \A reason : Block(q, reason).revision = q.revision + 1
           /\ BeginAutomatic(q).revision = q.revision + 1
           /\ \A id : BeginImmediate(q, id).revision = q.revision + 1
           /\ RejectDispatch(q).revision = q.revision + 1
           /\ \A id : ConfirmStarted(q, id).revision = q.revision + 1
<1>0. DOMAIN q = {"items", "nextSeq", "revision", "autoSend", "continuation", "dispatching"}
  BY DEF QueueType
<1>1. ASSUME NEW v, NEW w
      PROVE  /\ Bump([q EXCEPT !.items = v]).revision = q.revision + 1
             /\ Bump([[q EXCEPT !.items = v] EXCEPT !.nextSeq = w]).revision = q.revision + 1
             /\ Bump([[q EXCEPT !.items = v] EXCEPT !.dispatching = w]).revision = q.revision + 1
             /\ Bump([q EXCEPT !.autoSend = v]).revision = q.revision + 1
             /\ Bump([q EXCEPT !.continuation = v]).revision = q.revision + 1
             /\ Bump([q EXCEPT !.dispatching = v]).revision = q.revision + 1
             /\ Bump([[q EXCEPT !.dispatching = v] EXCEPT !.continuation = w]).revision
                  = q.revision + 1
  <2>0. "revision" \in DOMAIN q
    BY <1>0
  <2>1. \A e : SameRevision(e, q) => Bump(e).revision = q.revision + 1
    BY BumpRaises DEF SameRevision
  <2>2. \A e, d : SameRevision(e, d) /\ SameRevision(d, q) => SameRevision(e, q)
    BY DEF SameRevision
  <2>3. /\ SameRevision([q EXCEPT !.items = v], q)
        /\ SameRevision([q EXCEPT !.autoSend = v], q)
        /\ SameRevision([q EXCEPT !.continuation = v], q)
        /\ SameRevision([q EXCEPT !.dispatching = v], q)
    BY <2>0, OtherFieldsKeepTheRevision, Zenon
  <2>4. \A e : SameRevision(e, q) => "revision" \in DOMAIN e
    BY DEF SameRevision
  <2>5. \A e : SameRevision(e, q) =>
               /\ SameRevision([e EXCEPT !.nextSeq = w], q)
               /\ SameRevision([e EXCEPT !.dispatching = w], q)
               /\ SameRevision([e EXCEPT !.continuation = w], q)
    BY <2>2, <2>4, OtherFieldsKeepTheRevision, Zenon
  <2> QED BY <2>1, <2>3, <2>5, Zenon
<1>2. \A id, p : Enqueue(q, id, p).revision = q.revision + 1
  BY <1>1, ZenonT(60) DEF Enqueue
<1>3. \A id, p : UpdatePayload(q, id, p).revision = q.revision + 1
  BY <1>1 DEF UpdatePayload
<1>4. \A id : RemoveItem(q, id).revision = q.revision + 1
  BY <1>1 DEF RemoveItem, WithoutItem
<1>5. \A order : Reorder(q, order).revision = q.revision + 1
  BY <1>1 DEF Reorder
<1>6. \A enabled : SetAutoSend(q, enabled) = q \/ SetAutoSend(q, enabled).revision = q.revision + 1
  BY <1>1 DEF SetAutoSend
<1>7. \A c : Bump([q EXCEPT !.continuation = c]).revision = q.revision + 1
  BY <1>1
<1>8. BeginAutomatic(q).revision = q.revision + 1
  BY <1>1 DEF BeginAutomatic
<1>9. \A id : BeginImmediate(q, id).revision = q.revision + 1
  BY <1>1 DEF BeginImmediate
<1>10. RejectDispatch(q).revision = q.revision + 1
  BY <1>1 DEF RejectDispatch
<1>11. \A id : ConfirmStarted(q, id).revision = q.revision + 1
  BY <1>1 DEF ConfirmStarted, WithoutItem
<1> QED
  BY <1>2, <1>3, <1>4, <1>5, <1>6, <1>7, <1>8, <1>9, <1>10, <1>11 DEF Grant, Block

Ordered ==
    \/ Interrupted \/ Restart \/ PutBack
    \/ Visible(queue') = Visible(queue)
    \/ queue'.revision > queue.revision

(* Unless a command was put back, the process restarted or its MEM was     *)
(* left, what interfaces can see of the queue changes only together with a *)
(* higher revision.                                                        *)
THEOREM RevisionsOrderProjections == Spec => RevisionOrdersProjections
<1>1. ASSUME IInv, [Next]_vars PROVE [Ordered]_vars
  <2>0. queue \in QueueType /\ queue.revision \in Nat
    BY <1>1, IInvUnfolded DEF Good, QueueType
  <2>1. \A q : queue' = q /\ (q = queue \/ q.revision = queue.revision + 1) => Ordered
    BY <2>0 DEF Ordered
  <2>2. CASE Accept
    BY <2>0, <2>1, <2>2, MutationsRaise DEF Accept, Command, Becomes
  <2>3. CASE Edit
    BY <2>0, <2>1, <2>3, MutationsRaise DEF Edit, Command, Becomes
  <2>4. CASE Withdraw
    BY <2>0, <2>1, <2>4, MutationsRaise DEF Withdraw, Command, Becomes
  <2>5. CASE SendAsSupplement
    BY <2>0, <2>1, <2>5, MutationsRaise DEF SendAsSupplement, Command, Becomes
  <2>6. CASE Rearrange
    BY <2>0, <2>1, <2>6, MutationsRaise DEF Rearrange, Command, Becomes
  <2>7. CASE ToggleAutoSend
    BY <2>0, <2>1, <2>7, MutationsRaise DEF ToggleAutoSend, Command, Becomes
  <2>8. CASE Saved
    BY <2>8 DEF Saved, Ordered
  <2>9. CASE RollBack \/ SupplementFails \/ Interrupted \/ Restart
    BY <2>9 DEF Ordered, PutBack
  <2>10. CASE CompleteNormally
    BY <2>0, <2>1, <2>10, MutationsRaise DEF CompleteNormally, Handled, Becomes
  <2>11. CASE BlockContinuation
    BY <2>0, <2>1, <2>11, MutationsRaise DEF BlockContinuation, Handled, Becomes
  <2>12. CASE DispatchAutomatic
    BY <2>0, <2>1, <2>12, MutationsRaise DEF DispatchAutomatic, Handled, Becomes
  <2>13. CASE DispatchImmediate
    BY <2>0, <2>1, <2>13, MutationsRaise DEF DispatchImmediate, Handled, Becomes
  <2>14. CASE DispatchRejected
    BY <2>0, <2>1, <2>14, MutationsRaise DEF DispatchRejected, Handled, Becomes
  <2>15. CASE TurnStarted
    BY <2>0, <2>1, <2>15, MutationsRaise DEF TurnStarted, Handled, Becomes
  <2>16. CASE UNCHANGED vars
    BY <2>16
  <2> QED
    BY <1>1, <2>2, <2>3, <2>4, <2>5, <2>6, <2>7, <2>8, <2>9, <2>10, <2>11, <2>12, <2>13,
       <2>14, <2>15, <2>16 DEF Next
<1>2. [Ordered]_vars => [ Interrupted \/ Restart \/ PutBack \/ Visible(queue') = Visible(queue)
                          \/ queue'.revision > queue.revision ]_vars
  BY DEF Ordered
<1> QED BY <1>1, <1>2, InitEstablishesIInv, NextPreservesIInv, PTL
        DEF Spec, RevisionOrdersProjections

-----------------------------------------------------------------------------
(* The queue with its file and its commands implements the Outbox, and     *)
(* only the user changes its order.                                        *)

(* What the methods do to the items and to the dispatch. *)
LEMMA MethodFields ==
    ASSUME NEW q \in QueueType, NEW id, NEW p
    PROVE  /\ Enqueue(q, id, p).items = Append(q.items, [id |-> id, seq |-> q.nextSeq, payload |-> p])
           /\ Enqueue(q, id, p).dispatching = q.dispatching
           /\ UpdatePayload(q, id, p).dispatching = q.dispatching
           /\ RemoveItem(q, id).items = RemoveAt(q.items, Position(q, id))
           /\ RemoveItem(q, id).dispatching = q.dispatching
           /\ ConfirmStarted(q, id).items = RemoveAt(q.items, Position(q, id))
           /\ ConfirmStarted(q, id).dispatching = NoCommand
           /\ \A f : /\ Reorder(q, f).items = [i \in DOMAIN q.items |-> ItemOf(q, f[i])]
                     /\ Reorder(q, f).dispatching = q.dispatching
<1>0. DOMAIN q = {"items", "nextSeq", "revision", "autoSend", "continuation", "dispatching"}
  BY DEF QueueType
<1>1. ASSUME NEW e, DOMAIN e = DOMAIN q
      PROVE  Bump(e).items = e.items /\ Bump(e).dispatching = e.dispatching
  BY <1>0, <1>1 DEF Bump
<1>3. ASSUME NEW s
      PROVE  /\ Bump([q EXCEPT !.items = s]).items = s
             /\ Bump([q EXCEPT !.items = s]).dispatching = q.dispatching
  BY <1>0 DEF Bump
<1>4. ASSUME NEW s, NEW n
      PROVE  /\ Bump([q EXCEPT !.items = s, !.nextSeq = n]).items = s
             /\ Bump([q EXCEPT !.items = s, !.nextSeq = n]).dispatching = q.dispatching
  <2> DEFINE e == [q EXCEPT !.items = s, !.nextSeq = n]
  <2>1. DOMAIN e = DOMAIN q /\ e.items = s /\ e.dispatching = q.dispatching
    BY <1>0
  <2> HIDE DEF e
  <2>2. Bump(e).items = s /\ Bump(e).dispatching = q.dispatching
    BY <1>1, <2>1
  <2> QED BY <2>2 DEF e
<1>5. ASSUME NEW s, NEW d
      PROVE  /\ Bump([[q EXCEPT !.items = s] EXCEPT !.dispatching = d]).items = s
             /\ Bump([[q EXCEPT !.items = s] EXCEPT !.dispatching = d]).dispatching = d
  <2> DEFINE e == [[q EXCEPT !.items = s] EXCEPT !.dispatching = d]
  <2>1. DOMAIN e = DOMAIN q /\ e.items = s /\ e.dispatching = d
    BY <1>0
  <2> HIDE DEF e
  <2>2. Bump(e).items = s /\ Bump(e).dispatching = d
    BY <1>1, <2>1
  <2> QED BY <2>2 DEF e
<1>6. /\ Enqueue(q, id, p).items = Append(q.items, [id |-> id, seq |-> q.nextSeq, payload |-> p])
      /\ Enqueue(q, id, p).dispatching = q.dispatching
  BY <1>4 DEF Enqueue
<1>7. UpdatePayload(q, id, p).dispatching = q.dispatching
  BY <1>3 DEF UpdatePayload
<1>8. /\ RemoveItem(q, id).items = RemoveAt(q.items, Position(q, id))
      /\ RemoveItem(q, id).dispatching = q.dispatching
  BY <1>3 DEF RemoveItem, WithoutItem
<1>9. /\ ConfirmStarted(q, id).items = RemoveAt(q.items, Position(q, id))
      /\ ConfirmStarted(q, id).dispatching = NoCommand
  BY <1>5 DEF ConfirmStarted, WithoutItem
<1>10. ASSUME NEW f
       PROVE  /\ Reorder(q, f).items = [i \in DOMAIN q.items |-> ItemOf(q, f[i])]
              /\ Reorder(q, f).dispatching = q.dispatching
  BY <1>3 DEF Reorder
<1> QED BY <1>6, <1>7, <1>8, <1>9, <1>10

(* No command touches the dispatch.                                        *)
LEMMA EnqueueKeepsDispatch ==
    ASSUME NEW q \in QueueType, NEW id, NEW p
    PROVE  Enqueue(q, id, p).dispatching = q.dispatching
<1>0. DOMAIN q = {"items", "nextSeq", "revision", "autoSend", "continuation", "dispatching"}
  BY DEF QueueType
<1>1. ASSUME NEW s, NEW n
      PROVE  Bump([q EXCEPT !.items = s, !.nextSeq = n]).dispatching = q.dispatching
  <2> DEFINE e == [q EXCEPT !.items = s, !.nextSeq = n]
  <2>1. DOMAIN e = DOMAIN q /\ e.dispatching = q.dispatching
    BY <1>0
  <2> HIDE DEF e
  <2>2. Bump(e).dispatching = q.dispatching
    BY <1>0, <2>1 DEF Bump
  <2> QED BY <2>2 DEF e
<1> QED BY <1>1 DEF Enqueue

LEMMA UpdateKeepsDispatch ==
    ASSUME NEW q \in QueueType, NEW id, NEW p
    PROVE  UpdatePayload(q, id, p).dispatching = q.dispatching
<1>0. DOMAIN q = {"items", "nextSeq", "revision", "autoSend", "continuation", "dispatching"}
  BY DEF QueueType
<1>1. ASSUME NEW s
      PROVE  Bump([q EXCEPT !.items = s]).dispatching = q.dispatching
  BY <1>0 DEF Bump
<1> QED BY <1>1 DEF UpdatePayload

LEMMA FlagsFields ==
    ASSUME NEW q \in QueueType, NEW x, NEW c
    PROVE  /\ SetAutoSend(q, x).items = q.items /\ SetAutoSend(q, x).dispatching = q.dispatching
           /\ Grant(q).items = q.items /\ Grant(q).dispatching = q.dispatching
           /\ Block(q, c).items = q.items /\ Block(q, c).dispatching = q.dispatching
           /\ BeginAutomatic(q).items = q.items
           /\ BeginAutomatic(q).dispatching = q.items[1].id
           /\ BeginImmediate(q, x).items = q.items /\ BeginImmediate(q, x).dispatching = x
           /\ RejectDispatch(q).items = q.items /\ RejectDispatch(q).dispatching = NoCommand
           /\ Restore(q).items = q.items /\ Restore(q).dispatching = NoCommand
<1>0. DOMAIN q = {"items", "nextSeq", "revision", "autoSend", "continuation", "dispatching"}
  BY DEF QueueType
<1>1. SetAutoSend(q, x).items = q.items /\ SetAutoSend(q, x).dispatching = q.dispatching
  BY <1>0 DEF SetAutoSend, Bump
<1>2. Grant(q).items = q.items /\ Grant(q).dispatching = q.dispatching
  BY <1>0 DEF Grant, Bump
<1>3. Block(q, c).items = q.items /\ Block(q, c).dispatching = q.dispatching
  BY <1>0 DEF Block, Bump
<1>4. BeginAutomatic(q).items = q.items /\ BeginAutomatic(q).dispatching = q.items[1].id
  BY <1>0 DEF BeginAutomatic, Bump
<1>5. BeginImmediate(q, x).items = q.items /\ BeginImmediate(q, x).dispatching = x
  BY <1>0 DEF BeginImmediate, Bump
<1>6. RejectDispatch(q).items = q.items /\ RejectDispatch(q).dispatching = NoCommand
  BY <1>0 DEF RejectDispatch, Bump
<1>7. Restore(q).items = q.items /\ Restore(q).dispatching = NoCommand
  BY <1>0 DEF Restore
<1> QED BY <1>1, <1>2, <1>3, <1>4, <1>5, <1>6, <1>7
-----------------------------------------------------------------------------
Message == [id : Commands, payload : Payloads]
FlyingOf(q) ==
    IF q.dispatching = NoCommand THEN NoMessage ELSE MessageOf(ItemOf(q, q.dispatching))

(* In a good queue the id of a message says at which position it stands.   *)
LEMMA PositionIsInverse ==
    ASSUME NEW q, Good(q), NEW i \in DOMAIN q.items
    PROVE  q.items[i].id \in Ids(q) /\ Position(q, q.items[i].id) = i
<1>1. q \in QueueType /\ Distinct(q) /\ q.items[i].id \in Ids(q)
  BY DEF Good, WellFormed, Ids
<1>2. /\ Position(q, q.items[i].id) \in DOMAIN q.items
      /\ q.items[Position(q, q.items[i].id)].id = q.items[i].id
  BY <1>1, ItemOfProperties DEF ItemOf
<1> QED BY <1>1, <1>2 DEF Distinct

(* The messages of a good queue are messages, one per id; the message in   *)
(* flight is the one with the id under dispatch.                           *)
LEMMA MessagesAreKeyed ==
    ASSUME NEW q, Good(q)
    PROVE  /\ MessagesOf(q) \subseteq Message
           /\ \A m \in MessagesOf(q) : m.id \in Ids(q)
           /\ \A m, n \in MessagesOf(q) : m.id = n.id => m = n
           /\ \A id \in Ids(q) : MessageOf(ItemOf(q, id)) \in MessagesOf(q)
                                 /\ MessageOf(ItemOf(q, id)).id = id
           /\ Ids(q) \subseteq Commands
<1>0. q \in QueueType /\ q.items \in Seq(Item) /\ Distinct(q)
  BY DEF Good, WellFormed, QueueType
<1>1. \A i \in DOMAIN q.items : q.items[i] \in Item
  BY <1>0
<1>2. \A x \in Item : MessageOf(x) \in Message /\ MessageOf(x).id = x.id
  BY DEF Item, MessageOf, Message
<1>3. MessagesOf(q) \subseteq Message /\ \A m \in MessagesOf(q) : m.id \in Ids(q)
  BY <1>1, <1>2 DEF MessagesOf, Ids
<1>4. ASSUME NEW m \in MessagesOf(q), NEW n \in MessagesOf(q), m.id = n.id
      PROVE  m = n
  <2>1. PICK i \in DOMAIN q.items : m = MessageOf(q.items[i])
    BY DEF MessagesOf
  <2>2. PICK j \in DOMAIN q.items : n = MessageOf(q.items[j])
    BY DEF MessagesOf
  <2>3. q.items[i].id = q.items[j].id
    BY <1>1, <1>2, <1>4, <2>1, <2>2
  <2> QED BY <1>0, <2>1, <2>2, <2>3 DEF Distinct
<1>5. ASSUME NEW id \in Ids(q)
      PROVE  MessageOf(ItemOf(q, id)) \in MessagesOf(q) /\ MessageOf(ItemOf(q, id)).id = id
  <2>1. /\ Position(q, id) \in DOMAIN q.items /\ ItemOf(q, id) \in Item
        /\ ItemOf(q, id).id = id
    BY <1>0, ItemOfProperties
  <2> QED BY <1>2, <2>1 DEF MessagesOf, ItemOf
<1>6. Ids(q) \subseteq Commands
  BY <1>1 DEF Ids, Item
<1> QED BY <1>3, <1>4, <1>5, <1>6

LEMMA FlyingIsQueued ==
    ASSUME NEW q, Good(q)
    PROVE  /\ q.dispatching = NoCommand <=> FlyingOf(q) = NoMessage
           /\ q.dispatching # NoCommand => /\ FlyingOf(q) \in MessagesOf(q)
                                           /\ FlyingOf(q).id = q.dispatching
<1>1. q.dispatching \in Ids(q) \cup {NoCommand}
  BY DEF Good, WellFormed
<1>2. q.dispatching # NoCommand =>
        FlyingOf(q) \in MessagesOf(q) /\ FlyingOf(q).id = q.dispatching
  BY <1>1, MessagesAreKeyed DEF FlyingOf
<1>3. NoMessage \notin MessagesOf(q)
  BY MessagesAreKeyed, MachineAssumption DEF Message
<1> QED BY <1>2, <1>3 DEF FlyingOf

(* Where nothing happens to the message in flight it stays that message.   *)
LEMMA FlyingStays ==
    ASSUME NEW q, Good(q), NEW r, Good(r), r.dispatching = q.dispatching,
           \A m \in MessagesOf(q) : m.id = q.dispatching => m \in MessagesOf(r)
    PROVE  FlyingOf(r) = FlyingOf(q)
<1>1. CASE q.dispatching = NoCommand
  BY <1>1 DEF FlyingOf
<1>2. CASE q.dispatching # NoCommand
  <2>1. FlyingOf(q) \in MessagesOf(r) /\ FlyingOf(q).id = r.dispatching
    BY <1>2, FlyingIsQueued
  <2>2. FlyingOf(r) \in MessagesOf(r) /\ FlyingOf(r).id = r.dispatching
    BY <1>2, FlyingIsQueued
  <2> QED BY <2>1, <2>2, MessagesAreKeyed
<1> QED BY <1>1, <1>2

-----------------------------------------------------------------------------
LEMMA EnqueueMessages ==
    ASSUME NEW q, Good(q), NEW id \in Commands, NEW p \in Payloads
    PROVE  MessagesOf(Enqueue(q, id, p)) = MessagesOf(q) \cup {[id |-> id, payload |-> p]}
<1> DEFINE item == [id |-> id, seq |-> q.nextSeq, payload |-> p]
           longer == Append(q.items, item)
<1>0. q \in QueueType /\ q.items \in Seq(Item) /\ q.nextSeq \in Nat
  BY DEF Good, QueueType
<1>1. item \in Item /\ MessageOf(item) = [id |-> id, payload |-> p]
  BY <1>0 DEF Item, MessageOf
<1> HIDE DEF item
<1>2. /\ DOMAIN longer = 1 .. Len(q.items) + 1
      /\ \A i \in 1 .. Len(q.items) : longer[i] = q.items[i]
      /\ longer[Len(q.items) + 1] = item
  BY <1>0, <1>1, AppendProperties, LenProperties
<1>3. Enqueue(q, id, p).items = longer
  BY <1>0, MethodFields DEF item
<1> HIDE DEF longer
<1>4. DOMAIN q.items = 1 .. Len(q.items) /\ Len(q.items) \in Nat
  BY <1>0
<1>5. {MessageOf(longer[i]) : i \in 1 .. Len(q.items) + 1}
        = {MessageOf(q.items[i]) : i \in 1 .. Len(q.items)} \cup {MessageOf(item)}
  BY <1>2, <1>4
<1> QED BY <1>1, <1>2, <1>3, <1>4, <1>5 DEF MessagesOf

LEMMA RemoveMessages ==
    ASSUME NEW q, Good(q), NEW id \in Ids(q), NEW r,
           r.items = RemoveAt(q.items, Position(q, id))
    PROVE  MessagesOf(r) = MessagesOf(q) \ {MessageOf(ItemOf(q, id))}
<1> DEFINE k == Position(q, id)
<1>0. q \in QueueType /\ q.items \in Seq(Item) /\ Distinct(q)
  BY DEF Good, WellFormed, QueueType
<1>1. k \in DOMAIN q.items /\ ItemOf(q, id) = q.items[k]
  BY <1>0, ItemOfProperties DEF ItemOf
<1> HIDE DEF k
<1>2. /\ Len(r.items) = Len(q.items) - 1 /\ DOMAIN r.items = 1 .. Len(q.items) - 1
      /\ \A i \in 1 .. Len(q.items) - 1 :
            r.items[i] = IF i < k THEN q.items[i] ELSE q.items[i+1]
  <2> DEFINE shorter == RemoveAt(q.items, k)
  <2>1. r.items = shorter
    BY DEF k
  <2>2. /\ shorter \in Seq(Item) /\ Len(shorter) = Len(q.items) - 1
        /\ \A i \in 1 .. Len(q.items) - 1 :
              shorter[i] = IF i < k THEN q.items[i] ELSE q.items[i+1]
    BY <1>0, <1>1, RemoveAtProperties
  <2> HIDE DEF shorter
  <2>3. DOMAIN shorter = 1 .. Len(q.items) - 1
    BY <2>2, LenProperties
  <2> QED BY <2>1, <2>2, <2>3
<1>3. DOMAIN q.items = 1 .. Len(q.items) /\ Len(q.items) \in Nat
  BY <1>0
<1>4. \A i \in DOMAIN q.items : q.items[i] \in Item
  BY <1>0
<1>5. \A i, j \in DOMAIN q.items : MessageOf(q.items[i]) = MessageOf(q.items[j]) => i = j
  BY <1>0, <1>4 DEF Distinct, MessageOf, Item
<1>6. ASSUME NEW i \in DOMAIN r.items
      PROVE  MessageOf(r.items[i]) \in MessagesOf(q) \ {MessageOf(q.items[k])}
  <2>1. PICK j \in DOMAIN q.items : r.items[i] = q.items[j] /\ j # k
    <3>1. CASE i < k
      <4>1. i \in DOMAIN q.items /\ r.items[i] = q.items[i] /\ i # k
        BY <3>1, <1>1, <1>2, <1>3
      <4> QED BY <4>1
    <3>2. CASE ~(i < k)
      <4>1. i + 1 \in DOMAIN q.items /\ r.items[i] = q.items[i+1] /\ i + 1 # k
        BY <3>2, <1>1, <1>2, <1>3
      <4> QED BY <4>1
    <3> QED BY <3>1, <3>2
  <2> QED BY <2>1, <1>1, <1>5 DEF MessagesOf
<1>7. ASSUME NEW j \in DOMAIN q.items, j # k
      PROVE  \E i \in DOMAIN r.items : r.items[i] = q.items[j]
  <2>1. CASE j < k
    BY <2>1, <1>1, <1>2, <1>3
  <2>2. CASE j > k
    <3>1. j - 1 \in DOMAIN r.items /\ ~(j - 1 < k) /\ (j - 1) + 1 = j
      BY <2>2, <1>1, <1>2, <1>3
    <3> QED BY <3>1, <1>2
  <2> QED BY <2>1, <2>2, <1>1, <1>3, <1>7
<1> QED BY <1>1, <1>6, <1>7 DEF MessagesOf

LEMMA UpdateMessages ==
    ASSUME NEW q, Good(q), NEW id \in Ids(q), NEW p \in Payloads
    PROVE  MessagesOf(UpdatePayload(q, id, p)) =
             (MessagesOf(q) \ {MessageOf(ItemOf(q, id))}) \cup {[id |-> id, payload |-> p]}
<1> DEFINE k == Position(q, id)
           items == UpdatePayload(q, id, p).items
<1>0. q \in QueueType /\ q.items \in Seq(Item) /\ Distinct(q)
  BY DEF Good, WellFormed, QueueType
<1>1. k \in DOMAIN q.items /\ ItemOf(q, id) = q.items[k] /\ q.items[k] \in Item /\ q.items[k].id = id
  BY <1>0, ItemOfProperties DEF ItemOf
<1>2. items = [q.items EXCEPT ![k] = [q.items[k] EXCEPT !.payload = p]]
  <2> DEFINE new == [q.items EXCEPT ![k] = [q.items[k] EXCEPT !.payload = p]]
  <2>1. UpdatePayload(q, id, p) = Bump([q EXCEPT !.items = new])
    BY DEF UpdatePayload
  <2> HIDE DEF new, k
  <2>2. Bump([q EXCEPT !.items = new]).items = new
    BY <1>0 DEF Bump, QueueType
  <2> QED BY <2>1, <2>2 DEF new, k
<1> HIDE DEF k, items
<1>3. \A i \in DOMAIN q.items : q.items[i] \in Item
  BY <1>0
<1>4. /\ DOMAIN items = DOMAIN q.items
      /\ \A i \in DOMAIN q.items : i # k => items[i] = q.items[i]
      /\ items[k] = [q.items[k] EXCEPT !.payload = p]
  <2> DEFINE new == [q.items[k] EXCEPT !.payload = p]
  <2> HIDE DEF new
  <2>2. items = [q.items EXCEPT ![k] = new]
    BY <1>2 DEF new
  <2> QED BY <1>0, <1>1, <2>2 DEF new
<1>6. MessageOf(items[k]) = [id |-> id, payload |-> p]
  BY <1>1, <1>4 DEF MessageOf, Item
<1>5. \A i \in DOMAIN q.items : MessageOf(q.items[i]) = MessageOf(q.items[k]) => i = k
  BY <1>0, <1>1, <1>3 DEF Distinct, MessageOf, Item
<1> QED BY <1>1, <1>4, <1>5, <1>6 DEF MessagesOf, items

LEMMA ReorderMessages ==
    ASSUME NEW q, Good(q), NEW order \in Orders(q)
    PROVE  MessagesOf(Reorder(q, order)) = MessagesOf(q)
<1>0. q \in QueueType
  BY DEF Good
<1>1. /\ \A i \in DOMAIN q.items : order[i] \in Ids(q)
      /\ \A id \in Ids(q) : \E i \in DOMAIN q.items : order[i] = id
  BY DEF Orders, Bijection, Injection, Surjection, IsInjective
<1> DEFINE items == Reorder(q, order).items
<1>2. items = [i \in DOMAIN q.items |-> ItemOf(q, order[i])]
  BY <1>0, MethodFields
<1> HIDE DEF items
<1>3. DOMAIN items = DOMAIN q.items /\ \A i \in DOMAIN q.items : items[i] = ItemOf(q, order[i])
  BY <1>2
<1>4. \A i \in DOMAIN q.items : MessageOf(items[i]) \in MessagesOf(q)
  BY <1>1, <1>3, MessagesAreKeyed
<1>5. ASSUME NEW j \in DOMAIN q.items
      PROVE  \E i \in DOMAIN items : items[i] = q.items[j]
  <2>1. q.items[j].id \in Ids(q) /\ Position(q, q.items[j].id) = j
    BY PositionIsInverse
  <2>2. PICK i \in DOMAIN q.items : order[i] = q.items[j].id
    BY <1>1, <2>1
  <2> QED BY <2>1, <2>2, <1>3 DEF ItemOf
<1> QED BY <1>3, <1>4, <1>5 DEF MessagesOf, items

-----------------------------------------------------------------------------
(* What a step makes of a queue q, as the Outbox sees it.                  *)
SameMail(q, r) == MessagesOf(r) = MessagesOf(q) /\ FlyingOf(r) = FlyingOf(q)

Accepts(q, r) ==
    /\ FlyingOf(r) = FlyingOf(q)
    /\ \E m \in Message : /\ \A other \in MessagesOf(q) : other.id # m.id
                          /\ MessagesOf(r) = MessagesOf(q) \cup {m}

Withdraws(q, r) ==
    /\ FlyingOf(r) = FlyingOf(q)
    /\ \E m \in MessagesOf(q) : /\ m # FlyingOf(q)
                                /\ MessagesOf(r) = MessagesOf(q) \ {m}

Edits(q, r) ==
    /\ FlyingOf(r) = FlyingOf(q)
    /\ \E m \in MessagesOf(q), n \in Message :
          /\ m # FlyingOf(q)
          /\ m.id = n.id
          /\ MessagesOf(r) = (MessagesOf(q) \ {m}) \cup {n}

CommandEffect(q, r) == SameMail(q, r) \/ Accepts(q, r) \/ Withdraws(q, r) \/ Edits(q, r)

Launches(q, r) ==
    /\ FlyingOf(q) = NoMessage
    /\ FlyingOf(r) \in MessagesOf(q)
    /\ MessagesOf(r) = MessagesOf(q)

Returns(q, r) ==
    /\ FlyingOf(q) # NoMessage
    /\ FlyingOf(r) = NoMessage
    /\ MessagesOf(r) = MessagesOf(q)

Delivers(q, r) ==
    /\ FlyingOf(q) \in MessagesOf(q)
    /\ FlyingOf(r) = NoMessage
    /\ MessagesOf(r) = MessagesOf(q) \ {FlyingOf(q)}

Abandons(q, r) == MessagesOf(r) = {} /\ FlyingOf(r) = NoMessage

TurnEffect(q, r) ==
    SameMail(q, r) \/ Launches(q, r) \/ Returns(q, r) \/ Delivers(q, r)

(* What a command did can be put back: the way back is a command's, too.   *)
LEMMA EffectsReverse ==
    ASSUME NEW q, Good(q), NEW r, Good(r), CommandEffect(q, r)
    PROVE  CommandEffect(r, q)
<1>0. NoMessage \notin Message
  BY MachineAssumption DEF Message
<1>1. CASE SameMail(q, r)
  BY <1>1 DEF SameMail, CommandEffect
<1>2. CASE Accepts(q, r)
  <2>1. PICK m \in Message : /\ \A other \in MessagesOf(q) : other.id # m.id
                             /\ MessagesOf(r) = MessagesOf(q) \cup {m}
    BY <1>2 DEF Accepts
  <2>2. FlyingOf(r) = FlyingOf(q) /\ m \notin MessagesOf(q)
    BY <1>2, <2>1 DEF Accepts
  <2>3. m # FlyingOf(q)
    BY <1>0, <2>2, FlyingIsQueued
  <2>4. m \in MessagesOf(r) /\ MessagesOf(q) = MessagesOf(r) \ {m}
    BY <2>1, <2>2
  <2> QED BY <2>2, <2>3, <2>4 DEF Withdraws, CommandEffect
<1>3. CASE Withdraws(q, r)
  <2>1. PICK m \in MessagesOf(q) : MessagesOf(r) = MessagesOf(q) \ {m}
    BY <1>3 DEF Withdraws
  <2>2. FlyingOf(r) = FlyingOf(q) /\ m \in Message
    BY <1>3, MessagesAreKeyed DEF Withdraws
  <2>3. \A other \in MessagesOf(r) : other.id # m.id
    BY <2>1, MessagesAreKeyed
  <2>4. MessagesOf(q) = MessagesOf(r) \cup {m}
    BY <2>1
  <2> QED BY <2>2, <2>3, <2>4 DEF Accepts, CommandEffect
<1>4. CASE Edits(q, r)
  <2>1. PICK m \in MessagesOf(q) : \E n \in Message :
          /\ m # FlyingOf(q)
          /\ m.id = n.id
          /\ MessagesOf(r) = (MessagesOf(q) \ {m}) \cup {n}
    BY <1>4 DEF Edits
  <2>2. PICK n \in Message :
          /\ m # FlyingOf(q)
          /\ m.id = n.id
          /\ MessagesOf(r) = (MessagesOf(q) \ {m}) \cup {n}
    BY <2>1
  <2>3. FlyingOf(r) = FlyingOf(q) /\ m \in Message
    BY <1>4, MessagesAreKeyed DEF Edits
  <2>4. n \in MessagesOf(q) => n = m
    BY <2>2, MessagesAreKeyed
  <2>5. n # FlyingOf(r)
    BY <1>0, <2>2, <2>3, <2>4, FlyingIsQueued
  <2>6. n \in MessagesOf(r) /\ MessagesOf(q) = (MessagesOf(r) \ {n}) \cup {m}
    BY <2>2, <2>4
  <2> QED BY <2>2, <2>3, <2>5, <2>6 DEF Edits, CommandEffect
<1> QED BY <1>1, <1>2, <1>3, <1>4 DEF CommandEffect

LEMMA EnqueueAccepts ==
    ASSUME NEW q, Good(q), NEW id \in Commands, NEW p \in Payloads, CanEnqueue(q, id)
    PROVE  Accepts(q, Enqueue(q, id, p))
<1> DEFINE r == Enqueue(q, id, p)
           m == [id |-> id, payload |-> p]
<1>0. q \in QueueType /\ Good(r)
  BY EnqueueIsGood DEF Good
<1>1. MessagesOf(r) = MessagesOf(q) \cup {m} /\ r.dispatching = q.dispatching
  <2>1. r.dispatching = q.dispatching
    BY <1>0, EnqueueKeepsDispatch
  <2> QED BY <2>1, EnqueueMessages, Zenon
<1>2. m \in Message /\ m.id = id
  BY DEF Message
<1> HIDE DEF r, m
<1>3. FlyingOf(r) = FlyingOf(q)
  BY <1>0, <1>1, FlyingStays
<1>4. \A other \in MessagesOf(q) : other.id # m.id
  BY <1>2, MessagesAreKeyed DEF CanEnqueue
<1>5. Accepts(q, r)
  BY <1>1, <1>2, <1>3, <1>4 DEF Accepts
<1> QED BY <1>5 DEF r

LEMMA UpdateEdits ==
    ASSUME NEW q, Good(q), NEW id \in Commands, NEW p \in Payloads, CanEdit(q, id)
    PROVE  Edits(q, UpdatePayload(q, id, p))
<1> DEFINE r == UpdatePayload(q, id, p)
           m == MessageOf(ItemOf(q, id))
           n == [id |-> id, payload |-> p]
<1>0. q \in QueueType /\ id \in Ids(q) /\ id # q.dispatching /\ Good(r)
  BY UpdatePayloadIsGood DEF Good, CanEdit
<1>1. MessagesOf(r) = (MessagesOf(q) \ {m}) \cup {n} /\ r.dispatching = q.dispatching
  <2>1. r.dispatching = q.dispatching
    BY <1>0, UpdateKeepsDispatch
  <2> QED BY <1>0, <2>1, UpdateMessages, Zenon
<1>2. n \in Message /\ n.id = id /\ m \in MessagesOf(q) /\ m.id = id
  BY <1>0, MessagesAreKeyed DEF Message
<1> HIDE DEF r, m, n
<1>3. FlyingOf(r) = FlyingOf(q)
  BY <1>0, <1>1, <1>2, FlyingStays
<1>4. m # FlyingOf(q)
  BY <1>0, <1>2, FlyingIsQueued, MessagesAreKeyed, MachineAssumption DEF Message
<1>5. Edits(q, r)
  BY <1>1, <1>2, <1>3, <1>4 DEF Edits
<1> QED BY <1>5 DEF r

LEMMA RemoveWithdraws ==
    ASSUME NEW q, Good(q), NEW id \in Commands, CanEdit(q, id)
    PROVE  Withdraws(q, RemoveItem(q, id))
<1> DEFINE r == RemoveItem(q, id)
           m == MessageOf(ItemOf(q, id))
<1>0. q \in QueueType /\ id \in Ids(q) /\ id # q.dispatching /\ Good(r)
  BY RemoveIsGood DEF Good, CanEdit
<1>1. MessagesOf(r) = MessagesOf(q) \ {m} /\ r.dispatching = q.dispatching
  <2>1. /\ r.items = RemoveAt(q.items, Position(q, id))
        /\ r.dispatching = q.dispatching
    BY <1>0, MethodFields
  <2> HIDE DEF r
  <2> QED BY <1>0, <2>1, RemoveMessages
<1>2. m \in MessagesOf(q) /\ m.id = id
  BY <1>0, MessagesAreKeyed
<1> HIDE DEF r, m
<1>3. FlyingOf(r) = FlyingOf(q)
  BY <1>0, <1>1, <1>2, FlyingStays
<1>4. m # FlyingOf(q)
  BY <1>0, <1>2, FlyingIsQueued, MessagesAreKeyed, MachineAssumption DEF Message
<1>5. Withdraws(q, r)
  BY <1>1, <1>2, <1>3, <1>4 DEF Withdraws
<1> QED BY <1>5 DEF r

-----------------------------------------------------------------------------
(* While a command waits for its save, the queue is at or past the         *)
(* revision the command left, and as long as it is at it, the clone and    *)
(* the queue are one command apart.                                        *)
UndoFits ==
    command.stage # "none" =>
        /\ command.left <= queue.revision
        /\ queue.revision = command.left => CommandEffect(command.undo, queue)

(* Every command of the lane has the effect of a command.                  *)
LaneCommand == Accept \/ Edit \/ Withdraw \/ SendAsSupplement \/ Rearrange \/ ToggleAutoSend

LEMMA CommandsHaveEffect ==
    ASSUME IInv, LaneCommand
    PROVE  \E q : \E stage \in {"saves", "appends"} :
              Good(q) /\ Command(stage, q) /\ CommandEffect(queue, q)
<1>0. Good(queue) /\ queue \in QueueType
  BY IInvUnfolded DEF Good
<1>1. CASE Accept
  <2>1. PICK id \in Commands, p \in Payloads :
          CanEnqueue(queue, id) /\ Command("saves", Enqueue(queue, id, p))
    BY <1>1 DEF Accept
  <2>2. CommandEffect(queue, Enqueue(queue, id, p)) /\ Good(Enqueue(queue, id, p))
    BY <1>0, <2>1, EnqueueAccepts, EnqueueIsGood DEF CommandEffect
  <2> QED BY <2>1, <2>2
<1>2. CASE Edit
  <2>1. PICK id \in Commands, p \in Payloads :
          CanEdit(queue, id) /\ Command("saves", UpdatePayload(queue, id, p))
    BY <1>2 DEF Edit
  <2>2. CommandEffect(queue, UpdatePayload(queue, id, p)) /\ Good(UpdatePayload(queue, id, p))
    BY <1>0, <2>1, UpdateEdits, UpdatePayloadIsGood DEF CommandEffect, CanEdit
  <2> QED BY <2>1, <2>2
<1>3. CASE Withdraw \/ SendAsSupplement
  <2>1. PICK id \in Commands, stage \in {"saves", "appends"} :
          CanEdit(queue, id) /\ Command(stage, RemoveItem(queue, id))
    BY <1>3 DEF Withdraw, SendAsSupplement
  <2>2. CommandEffect(queue, RemoveItem(queue, id)) /\ Good(RemoveItem(queue, id))
    BY <1>0, <2>1, RemoveWithdraws, RemoveIsGood DEF CommandEffect, CanEdit
  <2> QED BY <2>1, <2>2
<1>4. CASE Rearrange
  <2>1. PICK order \in Orders(queue) : Command("saves", Reorder(queue, order))
    BY <1>4 DEF Rearrange
  <2> DEFINE q == Reorder(queue, order)
  <2>2. Good(q) /\ MessagesOf(q) = MessagesOf(queue)
    BY <1>0, ReorderIsGood, ReorderMessages
  <2>3. q.dispatching = queue.dispatching
    BY <1>0, MethodFields, Zenon
  <2> HIDE DEF q
  <2>4. FlyingOf(q) = FlyingOf(queue)
    BY <1>0, <2>2, <2>3, FlyingStays
  <2>5. CommandEffect(queue, q)
    BY <2>2, <2>4 DEF SameMail, CommandEffect
  <2> QED BY <2>1, <2>2, <2>5 DEF q
<1>5. CASE ToggleAutoSend
  <2>1. PICK enabled \in BOOLEAN : Command("saves", SetAutoSend(queue, enabled))
    BY <1>5 DEF ToggleAutoSend
  <2> DEFINE q == SetAutoSend(queue, enabled)
  <2>2. Good(q) /\ q.items = queue.items /\ q.dispatching = queue.dispatching
    BY <1>0, FlagsAreGood, FlagsFields, Zenon
  <2> HIDE DEF q
  <2>3. MessagesOf(q) = MessagesOf(queue)
    BY <2>2 DEF MessagesOf
  <2>4. FlyingOf(q) = FlyingOf(queue)
    BY <1>0, <2>2, <2>3, FlyingStays
  <2>5. CommandEffect(queue, q)
    BY <2>3, <2>4 DEF SameMail, CommandEffect
  <2> QED BY <2>1, <2>2, <2>5 DEF q
<1> QED BY <1>1, <1>2, <1>3, <1>4, <1>5 DEF LaneCommand

(* Every event of a turn raises the revision and has a turn's effect.      *)
TurnEvent ==
    \/ CompleteNormally \/ BlockContinuation
    \/ DispatchAutomatic \/ DispatchImmediate \/ DispatchRejected \/ TurnStarted

LEMMA EventsHaveEffect ==
    ASSUME IInv, TurnEvent
    PROVE  \E q : /\ Good(q) /\ Handled(q) /\ TurnEffect(queue, q)
                  /\ q.revision = queue.revision + 1
<1>0. Good(queue) /\ queue \in QueueType
  BY IInvUnfolded DEF Good
<1>a. ASSUME NEW q, Good(q), q.items = queue.items, q.dispatching = queue.dispatching
      PROVE  TurnEffect(queue, q)
  <2>1. MessagesOf(q) = MessagesOf(queue)
    BY <1>a DEF MessagesOf
  <2>2. FlyingOf(q) = FlyingOf(queue)
    BY <1>0, <1>a, <2>1, FlyingStays
  <2> QED BY <2>1, <2>2 DEF TurnEffect, SameMail
<1>b. ASSUME NEW q, Good(q), q.items = queue.items, queue.dispatching = NoCommand,
             q.dispatching # NoCommand
      PROVE  TurnEffect(queue, q)
  <2>1. MessagesOf(q) = MessagesOf(queue)
    BY <1>b DEF MessagesOf
  <2>2. FlyingOf(queue) = NoMessage
    BY <1>b DEF FlyingOf
  <2>3. FlyingOf(q) \in MessagesOf(queue)
    BY <1>b, <2>1, FlyingIsQueued
  <2> QED BY <2>1, <2>2, <2>3 DEF TurnEffect, Launches
<1>1. CASE CompleteNormally
  <2>1. Good(Grant(queue)) /\ Grant(queue).revision = queue.revision + 1
    BY <1>0, FlagsAreGood, MutationsRaise, Zenon
  <2>2. TurnEffect(queue, Grant(queue))
    BY <1>0, <1>a, <2>1, FlagsFields, Zenon
  <2> QED BY <1>1, <2>1, <2>2, Zenon DEF CompleteNormally
<1>2. CASE BlockContinuation
  <2>1. PICK reason \in BlockReasons : Handled(Block(queue, reason))
    BY <1>2 DEF BlockContinuation
  <2>2. Good(Block(queue, reason)) /\ Block(queue, reason).revision = queue.revision + 1
    BY <1>0, FlagsAreGood, MutationsRaise, Zenon
  <2>3. TurnEffect(queue, Block(queue, reason))
    BY <1>0, <1>a, <2>2, FlagsFields, Zenon
  <2> QED BY <2>1, <2>2, <2>3, Zenon
<1>3. CASE DispatchAutomatic
  <2>1. CanBeginAutomatic(queue) /\ Handled(BeginAutomatic(queue))
    BY <1>3 DEF DispatchAutomatic
  <2>2. /\ Good(BeginAutomatic(queue))
        /\ BeginAutomatic(queue).revision = queue.revision + 1
    BY <1>0, <2>1, FlagsAreGood, MutationsRaise, Zenon
  <2>3. queue.dispatching = NoCommand /\ queue.items[1].id # NoCommand
    <3>1. queue.items \in Seq(Item) /\ queue.items # <<>> /\ queue.dispatching = NoCommand
      BY <1>0, <2>1 DEF CanBeginAutomatic, QueueType
    <3>2. queue.items[1] \in Item
      BY <3>1
    <3> QED BY <3>1, <3>2, QueueAssumption DEF Item
  <2>4. /\ BeginAutomatic(queue).items = queue.items
        /\ BeginAutomatic(queue).dispatching = queue.items[1].id
    BY <1>0, FlagsFields, Zenon
  <2>5. TurnEffect(queue, BeginAutomatic(queue))
    BY <1>b, <2>2, <2>3, <2>4
  <2> QED BY <2>1, <2>2, <2>5, Zenon
<1>4. CASE DispatchImmediate
  <2>1. PICK id \in Commands :
          CanBeginImmediate(queue, id) /\ Handled(BeginImmediate(queue, id))
    BY <1>4, Zenon DEF DispatchImmediate
  <2>2. /\ Good(BeginImmediate(queue, id))
        /\ BeginImmediate(queue, id).revision = queue.revision + 1
    BY <1>0, <2>1, FlagsAreGood, MutationsRaise, Zenon DEF CanBeginImmediate
  <2>3. queue.dispatching = NoCommand /\ id # NoCommand
    BY <2>1, QueueAssumption DEF CanBeginImmediate
  <2>4. /\ BeginImmediate(queue, id).items = queue.items
        /\ BeginImmediate(queue, id).dispatching = id
    BY <1>0, FlagsFields, Zenon
  <2>5. TurnEffect(queue, BeginImmediate(queue, id))
    BY <1>b, <2>2, <2>3, <2>4
  <2> QED BY <2>1, <2>2, <2>5, Zenon
<1>5. CASE DispatchRejected
  <2>1. PICK id \in Commands : CanReject(queue, id) /\ Handled(RejectDispatch(queue))
    BY <1>5, Zenon DEF DispatchRejected
  <2>2. /\ Good(RejectDispatch(queue))
        /\ RejectDispatch(queue).revision = queue.revision + 1
    BY <1>0, FlagsAreGood, MutationsRaise, Zenon
  <2>3. queue.dispatching # NoCommand
    BY <2>1, QueueAssumption DEF CanReject
  <2>4. /\ RejectDispatch(queue).items = queue.items
        /\ RejectDispatch(queue).dispatching = NoCommand
    BY <1>0, FlagsFields, Zenon
  <2>5. /\ FlyingOf(queue) # NoMessage /\ FlyingOf(RejectDispatch(queue)) = NoMessage
        /\ MessagesOf(RejectDispatch(queue)) = MessagesOf(queue)
    <3>1. FlyingOf(queue) # NoMessage
      BY <1>0, <2>3, FlyingIsQueued
    <3> QED BY <2>4, <3>1 DEF FlyingOf, MessagesOf
  <2>6. TurnEffect(queue, RejectDispatch(queue))
    BY <2>5, Zenon DEF TurnEffect, Returns
  <2> QED BY <2>1, <2>2, <2>6, Zenon
<1>6. CASE TurnStarted
  <2>1. PICK id \in Commands : CanConfirm(queue, id) /\ Handled(ConfirmStarted(queue, id))
    BY <1>6, Zenon DEF TurnStarted
  <2> DEFINE q == ConfirmStarted(queue, id)
  <2>0. id \in Ids(queue) /\ queue.dispatching = id /\ id # NoCommand
    BY <2>1, QueueAssumption DEF CanConfirm
  <2>2. Good(q) /\ q.revision = queue.revision + 1
    BY <1>0, <2>0, RemoveIsGood, MutationsRaise, Zenon
  <2>3. /\ q.items = RemoveAt(queue.items, Position(queue, id))
        /\ q.dispatching = NoCommand
    BY <1>0, MethodFields, Zenon
  <2> HIDE DEF q
  <2>4. FlyingOf(queue) = MessageOf(ItemOf(queue, id)) /\ FlyingOf(queue) \in MessagesOf(queue)
    BY <1>0, <2>0, FlyingIsQueued DEF FlyingOf
  <2>5. MessagesOf(q) = MessagesOf(queue) \ {FlyingOf(queue)} /\ FlyingOf(q) = NoMessage
    BY <1>0, <2>0, <2>3, <2>4, RemoveMessages DEF FlyingOf
  <2>6. TurnEffect(queue, q)
    BY <2>4, <2>5, Zenon DEF TurnEffect, Delivers
  <2> QED BY <2>1, <2>2, <2>6, Zenon DEF q
<1> QED BY <1>1, <1>2, <1>3, <1>4, <1>5, <1>6 DEF TurnEvent

-----------------------------------------------------------------------------
LEMMA InitUndoFits == Init => UndoFits
BY DEF Init, NoCommandRuns, UndoFits

(* The end of a command leaves nothing to put back.                        *)
LEMMA NoCommandFits == ASSUME command' = NoCommandRuns PROVE UndoFits'
BY DEF NoCommandRuns, UndoFits

LEMMA NextKeepsUndoFits == IInv /\ UndoFits /\ [Next]_vars => UndoFits'
<1> SUFFICES ASSUME IInv, UndoFits, [Next]_vars
             PROVE  UndoFits'
  OBVIOUS
<1>0. /\ queue.revision \in Nat
      /\ command.left \in Nat
  BY IInvUnfolded DEF Good, QueueType, CommandType
<1>1. CASE LaneCommand
  <2>1. PICK q : \E stage \in {"saves", "appends"} :
          Good(q) /\ Command(stage, q) /\ CommandEffect(queue, q)
    BY <1>1, CommandsHaveEffect
  <2>2. /\ command'.left = q.revision /\ command'.undo = queue /\ queue' = q
        /\ q.revision \in Nat
    BY <2>1 DEF Command, Becomes, Good, QueueType
  <2> QED BY <2>1, <2>2 DEF UndoFits
<1>2. CASE TurnEvent
  <2>1. PICK q : Handled(q) /\ q.revision = queue.revision + 1
    BY <1>2, EventsHaveEffect
  <2>2. queue' = q /\ command' = command
    BY <2>1 DEF Handled, Becomes
  <2> QED BY <1>0, <2>1, <2>2 DEF UndoFits
<1>3. CASE Saved \/ RollBack \/ SupplementFails \/ Restart
  BY <1>3, NoCommandFits DEF Saved, RollBack, SupplementFails, Restart
<1>4. CASE Interrupted
  BY <1>4 DEF Interrupted, UndoFits
<1>5. CASE UNCHANGED vars
  BY <1>5 DEF UndoFits, vars
<1> QED BY <1>1, <1>2, <1>3, <1>4, <1>5 DEF Next, LaneCommand, TurnEvent

(* What reaches the disk in a step is the queue before or after it.        *)
DiskFollows == MessagesOf(disk') \in {MessagesOf(disk), MessagesOf(queue), MessagesOf(queue')}

(* A step with one of the effects above is a step of the Outbox.           *)
LEMMA EffectsAreOutboxSteps ==
    ASSUME CommandEffect(queue, queue') \/ TurnEffect(queue, queue') \/ Abandons(queue, queue'),
           DiskFollows
    PROVE  O!Next
<1>0. Flying = FlyingOf(queue) /\ Flying' = FlyingOf(queue') /\ O!Message = Message
  BY DEF Flying, FlyingOf, O!Message, Message
<1>1. O!Written
  BY DEF O!Written, DiskFollows
<1>2. CASE SameMail(queue, queue')
  <2>1. O!Save
    BY <1>0, <1>1, <1>2 DEF SameMail, O!Save
  <2> QED BY <2>1 DEF O!Next
<1>3. CASE Accepts(queue, queue')
  <2>1. PICK m \in Message : /\ \A other \in MessagesOf(queue) : other.id # m.id
                             /\ MessagesOf(queue') = MessagesOf(queue) \cup {m}
    BY <1>3 DEF Accepts
  <2>2. O!Accept(m)
    BY <1>0, <1>1, <1>3, <2>1 DEF Accepts, O!Accept
  <2> QED BY <1>0, <2>2 DEF O!Next
<1>4. CASE Withdraws(queue, queue')
  <2>1. PICK m \in MessagesOf(queue) : /\ m # FlyingOf(queue)
                                       /\ MessagesOf(queue') = MessagesOf(queue) \ {m}
    BY <1>4 DEF Withdraws
  <2>2. O!Withdraw(m)
    BY <1>0, <1>1, <1>4, <2>1 DEF Withdraws, O!Withdraw
  <2> QED BY <2>2 DEF O!Next
<1>5. CASE Edits(queue, queue')
  <2>1. PICK m \in MessagesOf(queue) : \E n \in Message :
          /\ m # FlyingOf(queue)
          /\ m.id = n.id
          /\ MessagesOf(queue') = (MessagesOf(queue) \ {m}) \cup {n}
    BY <1>5 DEF Edits
  <2>2. PICK n \in Message :
          /\ m # FlyingOf(queue)
          /\ m.id = n.id
          /\ MessagesOf(queue') = (MessagesOf(queue) \ {m}) \cup {n}
    BY <2>1
  <2>3. O!Edit(m, n)
    BY <1>0, <1>1, <1>5, <2>2 DEF Edits, O!Edit
  <2> QED BY <1>0, <2>3 DEF O!Next
<1>6. CASE Launches(queue, queue')
  <2>1. O!Launch(FlyingOf(queue'))
    BY <1>0, <1>1, <1>6 DEF Launches, O!Launch
  <2>2. FlyingOf(queue') \in MessagesOf(queue)
    BY <1>6 DEF Launches
  <2> QED BY <2>1, <2>2 DEF O!Next
<1>7. CASE Returns(queue, queue')
  <2>1. O!Return
    BY <1>0, <1>1, <1>7 DEF Returns, O!Return
  <2> QED BY <2>1 DEF O!Next
<1>8. CASE Delivers(queue, queue')
  <2>1. O!Deliver
    BY <1>0, <1>1, <1>8 DEF Delivers, O!Deliver
  <2> QED BY <2>1 DEF O!Next
<1>9. CASE Abandons(queue, queue')
  <2>1. O!Abandon
    BY <1>0, <1>1, <1>9 DEF Abandons, O!Abandon
  <2> QED BY <2>1 DEF O!Next
<1> QED BY <1>2, <1>3, <1>4, <1>5, <1>6, <1>7, <1>8, <1>9 DEF CommandEffect, TurnEffect

(* A failed save that nothing overtook takes the command's effect back.    *)
LEMMA PutBackUndoes ==
    ASSUME IInv, UndoFits, command.stage # "none", queue.revision = command.left,
           queue' \in {command.undo, queue}
    PROVE  CommandEffect(queue, queue')
<1>1. CASE queue' = queue
  BY <1>1 DEF CommandEffect, SameMail
<1>2. CASE queue' = command.undo
  <2>1. Good(queue) /\ Good(command.undo) /\ CommandEffect(command.undo, queue)
    BY IInvUnfolded DEF UndoFits
  <2> QED BY <1>2, <2>1, EffectsReverse
<1> QED BY <1>1, <1>2

LEMMA StepsAreOutboxSteps ==
    IInv /\ UndoFits /\ [Next]_vars => [Overtaken \/ O!Next]_(O!vars)
<1> SUFFICES ASSUME IInv, UndoFits, [Next]_vars
             PROVE  Overtaken \/ O!Next \/ UNCHANGED O!vars
  OBVIOUS
<1>1. CASE LaneCommand
  <2>1. PICK q : \E stage \in {"saves", "appends"} :
          Good(q) /\ Command(stage, q) /\ CommandEffect(queue, q)
    BY <1>1, CommandsHaveEffect
  <2>2. queue' = q /\ disk' = disk
    BY <2>1 DEF Command, Becomes
  <2> QED BY <2>1, <2>2, EffectsAreOutboxSteps DEF DiskFollows
<1>2. CASE TurnEvent
  <2>1. PICK q : Handled(q) /\ TurnEffect(queue, q)
    BY <1>2, EventsHaveEffect
  <2>2. queue' = q /\ disk' \in {disk, queue'}
    BY <2>1 DEF Handled, Becomes, MayBeWritten
  <2> QED BY <2>1, <2>2, EffectsAreOutboxSteps DEF DiskFollows
<1>3. CASE Saved
  <2>1. queue' = queue /\ disk' = queue
    BY <1>3 DEF Saved
  <2>2. CommandEffect(queue, queue')
    BY <2>1 DEF CommandEffect, SameMail
  <2> QED BY <2>1, <2>2, EffectsAreOutboxSteps DEF DiskFollows
<1>4. CASE PutBack
  <2>1. SUFFICES ASSUME queue.revision = command.left PROVE O!Next
    BY <1>4 DEF Overtaken
  <2>2. /\ command.stage # "none" /\ queue' \in {command.undo, queue}
        /\ disk' \in {disk, queue, queue'}
    BY <1>4 DEF PutBack, RollBack, SupplementFails
  <2>3. CommandEffect(queue, queue')
    BY <2>1, <2>2, PutBackUndoes
  <2> QED BY <2>2, <2>3, EffectsAreOutboxSteps DEF DiskFollows
<1>5. CASE Interrupted
  <2>1. queue' = NewQueue /\ disk' \in {disk, queue'}
    BY <1>5 DEF Interrupted, MayBeWritten
  <2>2. Abandons(queue, queue')
    BY <2>1 DEF Abandons, NewQueue, MessagesOf, FlyingOf
  <2> QED BY <2>1, <2>2, EffectsAreOutboxSteps DEF DiskFollows
<1>6. CASE Restart
  <2>1. queue' = Restore(disk) /\ disk' \in {disk, queue'}
    BY <1>6 DEF Restart, MayBeWritten
  <2>2. disk \in QueueType
    BY IInvUnfolded DEF Good
  <2>3. queue'.items = disk.items /\ queue'.dispatching = NoCommand
    BY <2>1, <2>2, FlagsFields
  <2>4. MessagesOf(queue') = MessagesOf(disk) /\ Flying' = NoMessage
    BY <2>3 DEF MessagesOf, Flying
  <2>5. MessagesOf(disk') = MessagesOf(disk)
    BY <2>1, <2>4
  <2>6. O!Restart
    BY <2>4, <2>5 DEF O!Restart
  <2> QED BY <2>6 DEF O!Next
<1>7. CASE UNCHANGED vars
  <2>1. queue' = queue /\ disk' = disk
    BY <1>7 DEF vars
  <2>2. UNCHANGED O!vars
    BY <2>1 DEF O!vars, Flying
  <2> QED BY <2>2
<1> QED BY <1>1, <1>2, <1>3, <1>4, <1>5, <1>6, <1>7
        DEF Next, LaneCommand, TurnEvent, PutBack

(* The queue, its file and its commands keep the promises of the Outbox:   *)
(* one message in flight, none of it withdrawn or edited meanwhile, none   *)
(* lost but by delivery, withdrawal or abandonment, and a restart finds    *)
(* what was saved; also when a save fails, unless a turn's event overtook  *)
(* the command.                                                            *)
THEOREM QueueImplementsOutbox == Spec => ImplementsOutbox
<1>1. Init => O!Init
  BY DEF Init, O!Init, NewQueue, MessagesOf, Flying
<1>2. Init => IInv /\ UndoFits
  BY InitEstablishesIInv, InitUndoFits
<1>3. IInv /\ UndoFits /\ [Next]_vars => (IInv /\ UndoFits)'
  BY NextPreservesIInv, NextKeepsUndoFits
<1> QED BY <1>1, <1>2, <1>3, StepsAreOutboxSteps, PTL DEF Spec, ImplementsOutbox

-----------------------------------------------------------------------------
(* The messages of r stand in the order of q, the new ones behind them.    *)
InOrder(q, r) ==
    \A i, j \in DOMAIN r.items :
        i < j /\ r.items[j].id \in Ids(q) =>
            /\ r.items[i].id \in Ids(q)
            /\ Position(q, r.items[i].id) < Position(q, r.items[j].id)

LEMMA SamePlacesAreInOrder ==
    ASSUME NEW q, Good(q), NEW r, DOMAIN r.items = DOMAIN q.items,
           \A i \in DOMAIN q.items : r.items[i].id = q.items[i].id
    PROVE  InOrder(q, r)
BY PositionIsInverse DEF InOrder

LEMMA EnqueueIsInOrder ==
    ASSUME NEW q, Good(q), NEW id \in Commands, NEW p \in Payloads, CanEnqueue(q, id)
    PROVE  InOrder(q, Enqueue(q, id, p))
<1> DEFINE item == [id |-> id, seq |-> q.nextSeq, payload |-> p]
           r == Enqueue(q, id, p)
<1>0. q \in QueueType /\ q.items \in Seq(Item) /\ q.nextSeq \in Nat
  BY DEF Good, QueueType
<1>1. item \in Item /\ item.id = id /\ item.id \notin Ids(q)
  BY <1>0 DEF Item, CanEnqueue
<1>2. r.items = Append(q.items, item)
  BY <1>0, MethodFields
<1> HIDE DEF item, r
<1>3. /\ DOMAIN r.items = 1 .. Len(q.items) + 1
      /\ \A i \in 1 .. Len(q.items) : r.items[i] = q.items[i]
      /\ r.items[Len(q.items) + 1] = item
      /\ DOMAIN q.items = 1 .. Len(q.items) /\ Len(q.items) \in Nat
  BY <1>0, <1>1, <1>2, AppendProperties, LenProperties
<1>4. ASSUME NEW i \in DOMAIN r.items, NEW j \in DOMAIN r.items, i < j, r.items[j].id \in Ids(q)
      PROVE  /\ r.items[i].id \in Ids(q)
             /\ Position(q, r.items[i].id) < Position(q, r.items[j].id)
  <2>1. j # Len(q.items) + 1
    BY <1>1, <1>3, <1>4
  <2>2. i \in DOMAIN q.items /\ j \in DOMAIN q.items
    BY <1>3, <1>4, <2>1
  <2>3. r.items[i] = q.items[i] /\ r.items[j] = q.items[j]
    BY <1>3, <2>2
  <2> QED BY <1>4, <2>2, <2>3, PositionIsInverse
<1>5. InOrder(q, r)
  BY <1>4 DEF InOrder
<1> QED BY <1>5 DEF r

LEMMA RemovalIsInOrder ==
    ASSUME NEW q, Good(q), NEW id \in Ids(q), NEW r,
           r.items = RemoveAt(q.items, Position(q, id))
    PROVE  InOrder(q, r)
<1> DEFINE k == Position(q, id)
           f(i) == IF i < k THEN i ELSE i + 1
<1>0. q \in QueueType /\ q.items \in Seq(Item)
  BY DEF Good, QueueType
<1>1. k \in DOMAIN q.items
  BY <1>0, ItemOfProperties
<1> HIDE DEF k
<1>2. /\ DOMAIN r.items = 1 .. Len(q.items) - 1
      /\ \A i \in 1 .. Len(q.items) - 1 : r.items[i] = q.items[f(i)]
      /\ DOMAIN q.items = 1 .. Len(q.items) /\ Len(q.items) \in Nat
  <2> DEFINE shorter == RemoveAt(q.items, k)
  <2>1. r.items = shorter
    BY DEF k
  <2>2. /\ shorter \in Seq(Item) /\ Len(shorter) = Len(q.items) - 1
        /\ \A i \in 1 .. Len(q.items) - 1 : shorter[i] = q.items[f(i)]
    BY <1>0, <1>1, RemoveAtProperties
  <2> HIDE DEF shorter, f
  <2>3. DOMAIN shorter = 1 .. Len(q.items) - 1
    BY <2>2, LenProperties
  <2>4. DOMAIN q.items = 1 .. Len(q.items) /\ Len(q.items) \in Nat
    BY <1>0
  <2> QED BY <2>1, <2>2, <2>3, <2>4
<1>3. ASSUME NEW i \in DOMAIN r.items, NEW j \in DOMAIN r.items, i < j
      PROVE  /\ r.items[i].id \in Ids(q)
             /\ Position(q, r.items[i].id) < Position(q, r.items[j].id)
  <2>1. f(i) \in DOMAIN q.items /\ f(j) \in DOMAIN q.items /\ f(i) < f(j)
    BY <1>1, <1>2, <1>3
  <2>2. r.items[i] = q.items[f(i)] /\ r.items[j] = q.items[f(j)]
    BY <1>2
  <2> HIDE DEF f
  <2>3. /\ q.items[f(i)].id \in Ids(q) /\ Position(q, q.items[f(i)].id) = f(i)
        /\ Position(q, q.items[f(j)].id) = f(j)
    BY <2>1, PositionIsInverse
  <2> QED BY <2>1, <2>2, <2>3
<1> QED BY <1>3 DEF InOrder

LEMMA UpdateIsInOrder ==
    ASSUME NEW q, Good(q), NEW id \in Ids(q), NEW p
    PROVE  InOrder(q, UpdatePayload(q, id, p))
<1> DEFINE k == Position(q, id)
           item == [q.items[k] EXCEPT !.payload = p]
           items == [q.items EXCEPT ![k] = item]
           r == UpdatePayload(q, id, p)
<1>0. q \in QueueType /\ q.items \in Seq(Item)
  BY DEF Good, QueueType
<1>1. k \in DOMAIN q.items /\ q.items[k] \in Item
  BY <1>0, ItemOfProperties DEF ItemOf
<1> HIDE DEF k
<1>2. item.id = q.items[k].id
  BY <1>1 DEF Item
<1> HIDE DEF item
<1>3. DOMAIN items = DOMAIN q.items /\ \A i \in DOMAIN q.items : items[i].id = q.items[i].id
  BY <1>0, <1>1, <1>2
<1> HIDE DEF items
<1>4. Bump([q EXCEPT !.items = items]).items = items
  BY <1>0 DEF Bump, QueueType
<1>5. r.items = items
  BY <1>4 DEF UpdatePayload, items, item, k
<1> HIDE DEF r
<1>6. InOrder(q, r)
  BY <1>3, <1>5, SamePlacesAreInOrder
<1> QED BY <1>6 DEF r

UserOrder == Rearrange \/ Restart \/ PutBack \/ InOrder(queue, queue')

(* Messages are handed to Core and shown in the order the user gave them:  *)
(* no dispatch, rejection, removal or edit changes it, and a new message   *)
(* goes last.                                                              *)
THEOREM OnlyTheUserReorders == Spec => OrderIsTheUsers
<1>1. ASSUME IInv, [Next]_vars PROVE [UserOrder]_vars
  <2>0. Good(queue) /\ queue \in QueueType
    BY <1>1, IInvUnfolded DEF Good
  <2>1. CASE queue'.items = queue.items
    BY <2>0, <2>1, SamePlacesAreInOrder DEF UserOrder
  <2>2. CASE Accept
    <3>1. PICK id \in Commands, p \in Payloads :
            CanEnqueue(queue, id) /\ Command("saves", Enqueue(queue, id, p))
      BY <2>2 DEF Accept
    <3> QED BY <2>0, <3>1, EnqueueIsInOrder DEF UserOrder, Command, Becomes
  <2>3. CASE Edit
    <3>1. PICK id \in Commands, p \in Payloads :
            CanEdit(queue, id) /\ Command("saves", UpdatePayload(queue, id, p))
      BY <2>3 DEF Edit
    <3> QED BY <2>0, <3>1, UpdateIsInOrder DEF UserOrder, Command, Becomes, CanEdit
  <2>4. CASE Withdraw \/ SendAsSupplement
    <3>1. PICK id \in Commands : CanEdit(queue, id) /\ queue' = RemoveItem(queue, id)
      BY <2>4 DEF Withdraw, SendAsSupplement, Command, Becomes
    <3>2. queue'.items = RemoveAt(queue.items, Position(queue, id)) /\ id \in Ids(queue)
      BY <2>0, <3>1, MethodFields DEF CanEdit
    <3> QED BY <2>0, <3>2, RemovalIsInOrder DEF UserOrder
  <2>5. CASE TurnStarted
    <3>1. PICK id \in Commands : CanConfirm(queue, id) /\ queue' = ConfirmStarted(queue, id)
      BY <2>5 DEF TurnStarted, Handled, Becomes
    <3>2. queue'.items = RemoveAt(queue.items, Position(queue, id)) /\ id \in Ids(queue)
      BY <2>0, <3>1, MethodFields DEF CanConfirm
    <3> QED BY <2>0, <3>2, RemovalIsInOrder DEF UserOrder
  <2>6. CASE ToggleAutoSend \/ Saved \/ CompleteNormally \/ BlockContinuation
             \/ DispatchAutomatic \/ DispatchImmediate \/ DispatchRejected \/ UNCHANGED vars
    <3>1. queue'.items = queue.items
      <4>1. CASE ToggleAutoSend
        BY <2>0, <4>1, FlagsFields DEF ToggleAutoSend, Command, Becomes
      <4>2. CASE Saved \/ UNCHANGED vars
        BY <4>2 DEF Saved, vars
      <4>3. CASE CompleteNormally
        BY <2>0, <4>3, FlagsFields DEF CompleteNormally, Handled, Becomes
      <4>4. CASE BlockContinuation
        BY <2>0, <4>4, FlagsFields DEF BlockContinuation, Handled, Becomes
      <4>5. CASE DispatchAutomatic
        BY <2>0, <4>5, FlagsFields DEF DispatchAutomatic, Handled, Becomes
      <4>6. CASE DispatchImmediate
        BY <2>0, <4>6, FlagsFields DEF DispatchImmediate, Handled, Becomes
      <4>7. CASE DispatchRejected
        BY <2>0, <4>7, FlagsFields DEF DispatchRejected, Handled, Becomes
      <4> QED BY <2>6, <4>1, <4>2, <4>3, <4>4, <4>5, <4>6, <4>7
    <3> QED BY <2>1, <3>1
  <2>7. CASE Interrupted
    BY <2>7 DEF Interrupted, NewQueue, UserOrder, InOrder
  <2>8. CASE Rearrange \/ Restart \/ RollBack \/ SupplementFails
    BY <2>8 DEF UserOrder, PutBack
  <2> QED BY <1>1, <2>2, <2>3, <2>4, <2>5, <2>6, <2>7, <2>8 DEF Next
<1>2. [UserOrder]_vars =>
        [ Rearrange \/ Restart \/ PutBack \/
          \A i, j \in DOMAIN queue'.items :
            LET a == queue'.items[i].id  b == queue'.items[j].id IN
            i < j /\ b \in Ids(queue) =>
                a \in Ids(queue) /\ Position(queue, a) < Position(queue, b) ]_vars
  BY DEF UserOrder, InOrder
<1> QED BY <1>1, <1>2, InitEstablishesIInv, NextPreservesIInv, PTL DEF Spec, OrderIsTheUsers
=============================================================================
