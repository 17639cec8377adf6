----------------------- MODULE SnapshotPipelineProofs -----------------------
(***************************************************************************)
(* What the snapshot queues, the writer and stop() do with snapshots, for  *)
(* every set of symbols, capacity, batch limit and number of snapshots:    *)
(* the types, that none is in the pipeline twice, and that evictions and   *)
(* failed flushes never empty it.                                          *)
(***************************************************************************)
EXTENDS SnapshotPipeline, FiniteSetTheorems, SequenceTheorems, TLAPS

-----------------------------------------------------------------------------
(* Sequences of snapshots and the sets of their elements. *)

\* A queue cut in two.
LEMMA SplitProperties ==
  ASSUME NEW q \in Seq(Nat), NEW k \in 0..Len(q)
  PROVE  /\ SubSeq(q, 1, k) \in Seq(Nat) /\ Len(SubSeq(q, 1, k)) = k
         /\ \A i \in 1..k : SubSeq(q, 1, k)[i] = q[i]
         /\ SubSeq(q, k + 1, Len(q)) \in Seq(Nat) /\ Len(SubSeq(q, k + 1, Len(q))) = Len(q) - k
         /\ \A i \in 1..(Len(q) - k) : SubSeq(q, k + 1, Len(q))[i] = q[k + i]
<1>1. Len(q) \in Nat /\ \A i \in 1..Len(q) : q[i] \in Nat
  OBVIOUS
<1>2. k \in Int /\ k + 1 \in Int /\ Len(q) \in Int /\ (\A i \in 1..k : q[i] \in Nat)
      /\ (\A i \in (k + 1)..Len(q) : q[i] \in Nat)
  BY <1>1
<1>3. /\ SubSeq(q, 1, k) \in Seq(Nat) /\ Len(SubSeq(q, 1, k)) = k
      /\ \A i \in 1..k : SubSeq(q, 1, k)[i] = q[i]
  <2>1. /\ SubSeq(q, 1, k) \in Seq(Nat)
        /\ Len(SubSeq(q, 1, k)) = IF 1 <= k THEN k - 1 + 1 ELSE 0
        /\ \A i \in 1..(k - 1 + 1) : SubSeq(q, 1, k)[i] = q[1 + i - 1]
    BY <1>2, SubSeqProperties
  <2>2. Len(SubSeq(q, 1, k)) = k
    BY <2>1, <1>2
  <2>3. ASSUME NEW i \in 1..k PROVE SubSeq(q, 1, k)[i] = q[i]
    <3>1. i \in 1..(k - 1 + 1) /\ 1 + i - 1 = i
      BY <1>2
    <3> QED BY <2>1, <3>1
  <2> QED BY <2>1, <2>2, <2>3
<1>4. /\ SubSeq(q, k + 1, Len(q)) \in Seq(Nat) /\ Len(SubSeq(q, k + 1, Len(q))) = Len(q) - k
      /\ \A i \in 1..(Len(q) - k) : SubSeq(q, k + 1, Len(q))[i] = q[k + i]
  <2>1. /\ SubSeq(q, k + 1, Len(q)) \in Seq(Nat)
        /\ Len(SubSeq(q, k + 1, Len(q))) = IF k + 1 <= Len(q) THEN Len(q) - (k + 1) + 1 ELSE 0
        /\ \A i \in 1..(Len(q) - (k + 1) + 1) : SubSeq(q, k + 1, Len(q))[i] = q[k + 1 + i - 1]
    BY <1>2, SubSeqProperties
  <2>2. Len(SubSeq(q, k + 1, Len(q))) = Len(q) - k
    BY <2>1, <1>1, <1>2
  <2>3. ASSUME NEW i \in 1..(Len(q) - k) PROVE SubSeq(q, k + 1, Len(q))[i] = q[k + i]
    <3>1. i \in 1..(Len(q) - (k + 1) + 1) /\ k + 1 + i - 1 = k + i
      BY <1>1, <1>2
    <3> QED BY <2>1, <3>1
  <2> QED BY <2>1, <2>2, <2>3
<1> QED BY <1>3, <1>4

LEMMA ElementsSplit ==
  ASSUME NEW q \in Seq(Nat), NEW k \in 0..Len(q)
  PROVE  Elements(SubSeq(q, 1, k)) \cup Elements(SubSeq(q, k + 1, Len(q))) = Elements(q)
<1> DEFINE a == SubSeq(q, 1, k)
           z == SubSeq(q, k + 1, Len(q))
<1>1. /\ Len(a) = k /\ \A i \in 1..k : a[i] = q[i]
      /\ Len(z) = Len(q) - k /\ \A i \in 1..(Len(q) - k) : z[i] = q[k + i]
      /\ Len(q) \in Nat
  BY SplitProperties
<1> HIDE DEF a, z
<1>2. ASSUME NEW i \in 1..Len(q) PROVE q[i] \in Elements(a) \cup Elements(z)
  <2>1. CASE i <= k
    BY <1>1, <2>1 DEF Elements
  <2>2. CASE ~(i <= k)
    <3>1. i - k \in 1..Len(z) /\ z[i - k] = q[i]
      BY <1>1, <2>2
    <3> QED BY <3>1 DEF Elements
  <2> QED BY <2>1, <2>2
<1>3. \A i \in 1..Len(a) : a[i] \in Elements(q)
  <2>1. \A i \in 1..Len(a) : i \in 1..Len(q) /\ a[i] = q[i]
    BY <1>1
  <2> QED BY <2>1 DEF Elements
<1>4. \A i \in 1..Len(z) : z[i] \in Elements(q)
  <2>1. \A i \in 1..Len(z) : k + i \in 1..Len(q) /\ z[i] = q[k + i]
    BY <1>1
  <2> QED BY <2>1 DEF Elements
<1>5. Elements(a) \subseteq Elements(q) /\ Elements(z) \subseteq Elements(q)
  BY <1>3, <1>4 DEF Elements
<1>6. Elements(q) \subseteq Elements(a) \cup Elements(z)
  BY <1>2 DEF Elements
<1>7. Elements(a) \cup Elements(z) = Elements(q)
  BY <1>5, <1>6
<1> QED BY <1>7 DEF a, z

LEMMA ElementsConcat ==
  ASSUME NEW q \in Seq(Nat), NEW r \in Seq(Nat)
  PROVE  Elements(q \o r) = Elements(q) \cup Elements(r)
<1>1. /\ Len(q \o r) = Len(q) + Len(r) /\ Len(q) \in Nat /\ Len(r) \in Nat
      /\ \A i \in 1..(Len(q) + Len(r)) : (q \o r)[i] = IF i <= Len(q) THEN q[i] ELSE r[i - Len(q)]
  BY ConcatProperties
<1>2. ASSUME NEW i \in 1..Len(q \o r) PROVE (q \o r)[i] \in Elements(q) \cup Elements(r)
  <2>1. CASE i <= Len(q)
    BY <1>1, <2>1 DEF Elements
  <2>2. CASE ~(i <= Len(q))
    <3>1. i - Len(q) \in 1..Len(r) /\ (q \o r)[i] = r[i - Len(q)]
      BY <1>1, <2>2
    <3> QED BY <3>1 DEF Elements
  <2> QED BY <2>1, <2>2
<1>3. ASSUME NEW i \in 1..Len(q) PROVE q[i] \in Elements(q \o r)
  <2>1. i \in 1..Len(q \o r) /\ (q \o r)[i] = q[i]
    BY <1>1
  <2> QED BY <2>1 DEF Elements
<1>4. ASSUME NEW i \in 1..Len(r) PROVE r[i] \in Elements(q \o r)
  <2>1. Len(q) + i \in 1..Len(q \o r) /\ (q \o r)[Len(q) + i] = r[i]
    BY <1>1
  <2> QED BY <2>1 DEF Elements
<1> QED BY <1>2, <1>3, <1>4 DEF Elements

\* A sequence has at most as many elements as its length, and exactly as
\* many if none is repeated.
LEMMA ElementsCardinality ==
  ASSUME NEW q \in Seq(Nat)
  PROVE  /\ IsFiniteSet(Elements(q)) /\ Cardinality(Elements(q)) \in Nat
         /\ Cardinality(Elements(q)) <= Len(q)
         /\ (\A i, j \in 1..Len(q) : q[i] = q[j] => i = j) => Cardinality(Elements(q)) = Len(q)
<1> DEFINE f == [i \in 1..Len(q) |-> q[i]]
<1>1. Len(q) \in Nat
  OBVIOUS
<1>2. IsFiniteSet(1..Len(q)) /\ Cardinality(1..Len(q)) = Len(q)
  <2>1. /\ IsFiniteSet(1..Len(q))
        /\ Cardinality(1..Len(q)) = IF 1 > Len(q) THEN 0 ELSE Len(q) - 1 + 1
    BY <1>1, FS_Interval
  <2> QED BY <1>1, <2>1
<1>3. f \in Surjection(1..Len(q), Elements(q))
  BY DEF Surjection, Elements
<1>4. /\ IsFiniteSet(Elements(q)) /\ Cardinality(Elements(q)) <= Len(q)
      /\ Cardinality(Elements(q)) = Len(q) <=> f \in Injection(1..Len(q), Elements(q))
  BY <1>2, <1>3, FS_Surjection
<1>5. (\A i, j \in 1..Len(q) : q[i] = q[j] => i = j) => f \in Injection(1..Len(q), Elements(q))
  BY DEF Injection, IsInjective, Elements
<1> QED BY <1>4, <1>5, FS_CardinalityType

Unrepeated(q) == \A i, j \in 1..Len(q) : q[i] = q[j] => i = j

LEMMA UnrepeatedConcat ==
  ASSUME NEW q \in Seq(Nat), NEW r \in Seq(Nat), Unrepeated(q), Unrepeated(r),
         Elements(q) \cap Elements(r) = {}
  PROVE  Unrepeated(q \o r)
<1>1. /\ Len(q \o r) = Len(q) + Len(r) /\ Len(q) \in Nat /\ Len(r) \in Nat
      /\ \A i \in 1..(Len(q) + Len(r)) : (q \o r)[i] = IF i <= Len(q) THEN q[i] ELSE r[i - Len(q)]
  BY ConcatProperties
<1>2. \A i \in 1..Len(q), j \in 1..Len(r) : q[i] # r[j]
  BY DEF Elements
<1> SUFFICES ASSUME NEW i \in 1..Len(q \o r), NEW j \in 1..Len(q \o r), (q \o r)[i] = (q \o r)[j]
             PROVE  i = j
  BY DEF Unrepeated
<1>3. CASE i <= Len(q) /\ j <= Len(q)
  <2>1. i \in 1..Len(q) /\ j \in 1..Len(q) /\ q[i] = q[j]
    BY <1>1, <1>3
  <2> QED BY <2>1 DEF Unrepeated
<1>4. CASE i <= Len(q) /\ ~(j <= Len(q))
  <2>1. i \in 1..Len(q) /\ j - Len(q) \in 1..Len(r) /\ q[i] = r[j - Len(q)]
    BY <1>1, <1>4
  <2> QED BY <2>1, <1>2
<1>5. CASE ~(i <= Len(q)) /\ j <= Len(q)
  <2>1. j \in 1..Len(q) /\ i - Len(q) \in 1..Len(r) /\ q[j] = r[i - Len(q)]
    BY <1>1, <1>5
  <2> QED BY <2>1, <1>2
<1>6. CASE ~(i <= Len(q)) /\ ~(j <= Len(q))
  <2>1. i - Len(q) \in 1..Len(r) /\ j - Len(q) \in 1..Len(r) /\ r[i - Len(q)] = r[j - Len(q)]
    BY <1>1, <1>6
  <2>2. i - Len(q) = j - Len(q)
    BY <2>1 DEF Unrepeated
  <2> QED BY <1>1, <2>2
<1> QED BY <1>3, <1>4, <1>5, <1>6

LEMMA UnrepeatedSplit ==
  ASSUME NEW q \in Seq(Nat), NEW k \in 0..Len(q), Unrepeated(q)
  PROVE  /\ Unrepeated(SubSeq(q, 1, k)) /\ Unrepeated(SubSeq(q, k + 1, Len(q)))
         /\ Elements(SubSeq(q, 1, k)) \cap Elements(SubSeq(q, k + 1, Len(q))) = {}
<1> DEFINE a == SubSeq(q, 1, k)
           z == SubSeq(q, k + 1, Len(q))
<1>1. /\ Len(a) = k /\ \A i \in 1..k : a[i] = q[i]
      /\ Len(z) = Len(q) - k /\ \A i \in 1..(Len(q) - k) : z[i] = q[k + i]
      /\ Len(q) \in Nat
  BY SplitProperties
<1> HIDE DEF a, z
<1>2. \A i \in 1..Len(a) : i \in 1..Len(q) /\ a[i] = q[i]
  BY <1>1
<1>3. \A i \in 1..Len(z) : k + i \in 1..Len(q) /\ z[i] = q[k + i]
  BY <1>1
<1>4. Unrepeated(a)
  BY <1>2 DEF Unrepeated
<1>5. Unrepeated(z)
  <2> SUFFICES ASSUME NEW i \in 1..Len(z), NEW j \in 1..Len(z), z[i] = z[j] PROVE i = j
    BY DEF Unrepeated
  <2>1. k + i = k + j
    BY <1>3 DEF Unrepeated
  <2> QED BY <2>1
<1>6. ASSUME NEW i \in 1..Len(a), NEW j \in 1..Len(z) PROVE a[i] # z[j]
  <2>1. i # k + j
    BY <1>1
  <2> QED BY <1>2, <1>3, <2>1 DEF Unrepeated
<1>7. Elements(a) \cap Elements(z) = {}
  BY <1>6 DEF Elements
<1> QED BY <1>4, <1>5, <1>7 DEF a, z

-----------------------------------------------------------------------------
(* The two operations on a queue. *)

Queue == {q \in Seq(Nat) : Len(q) <= Capacity}

\* put_latest keeps the last snapshots, as many as fit, and so at least one.
LEMMA PutLatestProperties ==
  ASSUME NEW q \in Seq(Nat), NEW r \in Seq(Nat)
  PROVE  /\ PutLatest(q, r) \in Queue
         /\ Elements(PutLatest(q, r)) \subseteq Elements(q) \cup Elements(r)
         /\ Unrepeated(q \o r) => Unrepeated(PutLatest(q, r))
         /\ q # <<>> \/ r # <<>> => Elements(PutLatest(q, r)) # {}
<1> DEFINE all == q \o r
           k == Len(all) - Least(Capacity, Len(all))
           p == PutLatest(q, r)
<1>1. /\ all \in Seq(Nat) /\ Len(all) \in Nat /\ Len(all) = Len(q) + Len(r)
      /\ Len(q) \in Nat /\ Len(r) \in Nat /\ Elements(all) = Elements(q) \cup Elements(r)
  BY ConcatProperties, ElementsConcat
<1>2. p = SubSeq(all, k + 1, Len(all))
  BY DEF PutLatest
<1> HIDE DEF all, p
<1>3. Capacity \in Nat \ {0} /\ k \in 0..Len(all) /\ Len(all) - k <= Capacity
      /\ (Len(all) # 0 => Len(all) - k >= 1)
  <2> DEFINE n == Len(all)
             l == Least(Capacity, n)
  <2>1. Capacity \in Nat \ {0} /\ n \in Nat
    BY <1>1, CapacityAssumption
  <2> HIDE DEF n
  <2>2. l \in Nat /\ l <= n /\ l <= Capacity /\ (n # 0 => l >= 1)
    BY <2>1 DEF Least
  <2>3. k = n - l
    BY DEF n
  <2> HIDE DEF l, k
  <2>4. k \in 0..n /\ n - k = l
    BY <2>1, <2>2, <2>3
  <2> QED BY <2>1, <2>2, <2>4 DEF n
<1> HIDE DEF k
<1>4. p \in Seq(Nat) /\ Len(p) = Len(all) - k
  BY <1>1, <1>2, <1>3, SplitProperties
<1>5. Elements(p) \subseteq Elements(all)
  <2>1. Elements(SubSeq(all, 1, k)) \cup Elements(SubSeq(all, k + 1, Len(all))) = Elements(all)
    BY <1>1, <1>3, ElementsSplit
  <2> QED BY <1>2, <2>1
<1>6. Unrepeated(all) => Unrepeated(p)
  BY <1>1, <1>2, <1>3, UnrepeatedSplit
<1>7. q # <<>> \/ r # <<>> => Elements(p) # {}
  <2>1. q # <<>> \/ r # <<>> => Len(all) # 0
    BY <1>1, EmptySeq
  <2>2. Len(p) >= 1 => p[1] \in Elements(p)
    BY <1>1, <1>3, <1>4 DEF Elements
  <2> QED BY <1>3, <1>4, <2>1, <2>2
<1>8. p \in Queue
  BY <1>3, <1>4 DEF Queue
<1> QED BY <1>1, <1>5, <1>6, <1>7, <1>8 DEF all, p

\* A drain cuts the queue in two.
LEMMA DrainProperties ==
  ASSUME NEW s \in Symbols, queue[s] \in Queue, DrainSnapshots
  PROVE  /\ queue'[s] \in Queue /\ batch'[s] \in Seq(Nat) /\ Len(batch'[s]) <= BatchLimit
         /\ Elements(batch'[s]) \cup Elements(queue'[s]) = Elements(queue[s])
         /\ Unrepeated(queue[s]) =>
              /\ Unrepeated(batch'[s]) /\ Unrepeated(queue'[s])
              /\ Elements(batch'[s]) \cap Elements(queue'[s]) = {}
<1> DEFINE k == Least(BatchLimit, Len(queue[s]))
<1>1. /\ queue[s] \in Seq(Nat) /\ Len(queue[s]) \in Nat /\ Len(queue[s]) <= Capacity
      /\ Capacity \in Nat /\ BatchLimit \in Nat
  BY CapacityAssumption, BatchLimitAssumption DEF Queue
<1>2. k \in 0..Len(queue[s]) /\ k <= BatchLimit
  BY <1>1 DEF Least
<1>3. batch'[s] = SubSeq(queue[s], 1, k) /\ queue'[s] = SubSeq(queue[s], k + 1, Len(queue[s]))
  BY DEF DrainSnapshots
<1> HIDE DEF k
<1>4. /\ batch'[s] \in Seq(Nat) /\ Len(batch'[s]) = k
      /\ queue'[s] \in Seq(Nat) /\ Len(queue'[s]) = Len(queue[s]) - k
  BY <1>1, <1>2, <1>3, SplitProperties
<1>5. Elements(batch'[s]) \cup Elements(queue'[s]) = Elements(queue[s])
  BY <1>1, <1>2, <1>3, ElementsSplit
<1>6. Unrepeated(queue[s]) =>
              /\ Unrepeated(batch'[s]) /\ Unrepeated(queue'[s])
              /\ Elements(batch'[s]) \cap Elements(queue'[s]) = {}
  BY <1>1, <1>2, <1>3, UnrepeatedSplit
<1>7. queue'[s] \in Queue
  BY <1>1, <1>2, <1>4 DEF Queue
<1> QED BY <1>2, <1>4, <1>5, <1>6, <1>7

-----------------------------------------------------------------------------
(* The inductive invariant. *)

\* The snapshots that wait are some that were put, each of them once.
SymbolOK(s) ==
  /\ queue[s] \in Queue /\ batch[s] \in Seq(Nat) /\ Len(batch[s]) <= BatchLimit
  /\ Unrepeated(queue[s]) /\ Unrepeated(batch[s])
  /\ Elements(queue[s]) \cap Elements(batch[s]) = {}
  /\ Pending(s) \subseteq 1..put[s]

Valued ==
  /\ put \in [Symbols -> 0..MaxSnapshot] /\ writer \in WriterPcs /\ stop \in StopPcs
  /\ stored \in [Symbols -> SUBSET Nat] /\ dropped \in [Symbols -> Nat]
  /\ DOMAIN queue = Symbols /\ DOMAIN batch = Symbols
  /\ queue = [s \in Symbols |-> queue[s]] /\ batch = [s \in Symbols |-> batch[s]]

\* Snapshots are drained only to be inserted: nothing is left of the batch
\* before the next one overwrites it.
BatchRests ==
  /\ writer # "insert" /\ stop # "final_insert" => \A s \in Symbols : batch[s] = <<>>
  /\ stop \in {"final_flush", "final_insert", "stopped"} => writer = "done"

Inv == Valued /\ BatchRests /\ \A s \in Symbols : SymbolOK(s)

\* The batch is let go, stored or not.
LEMMA LetGo ==
  ASSUME Inv, NEW s \in Symbols, batch'[s] = <<>>, UNCHANGED <<queue, put>>
  PROVE  SymbolOK(s)'
<1>1. batch'[s] \in Seq(Nat) /\ Len(batch'[s]) = 0 /\ Elements(batch'[s]) = {} /\ Unrepeated(batch'[s])
  BY EmptySeq DEF Elements, Unrepeated
<1> QED BY <1>1, BatchLimitAssumption DEF Inv, SymbolOK, Pending

LEMMA Drained ==
  ASSUME Inv, NEW s \in Symbols, DrainSnapshots, UNCHANGED put
  PROVE  SymbolOK(s)' /\ Pending(s)' \subseteq Pending(s) /\ (batch[s] = <<>> => Pending(s)' = Pending(s))
         /\ (queue[s] = <<>> => batch'[s] = <<>>)
<1>1. SymbolOK(s)
  BY DEF Inv
<1>2. /\ queue'[s] \in Queue /\ batch'[s] \in Seq(Nat) /\ Len(batch'[s]) <= BatchLimit
      /\ Elements(batch'[s]) \cup Elements(queue'[s]) = Elements(queue[s])
      /\ Unrepeated(batch'[s]) /\ Unrepeated(queue'[s])
      /\ Elements(batch'[s]) \cap Elements(queue'[s]) = {}
  BY <1>1, DrainProperties DEF SymbolOK
<1>3. queue[s] = <<>> => batch'[s] = <<>>
  <2> SUFFICES ASSUME queue[s] = <<>> PROVE batch'[s] = <<>>
    OBVIOUS
  <2>1. Elements(queue[s]) = {}
    BY DEF Elements
  <2>2. Len(batch'[s]) \in Nat /\ (Len(batch'[s]) # 0 => batch'[s][1] \in Elements(batch'[s]))
    BY <1>2 DEF Elements
  <2> QED BY <1>2, <2>1, <2>2, EmptySeq
<1>4. batch[s] = <<>> => Elements(batch[s]) = {}
  BY DEF Elements
<1> QED BY <1>1, <1>2, <1>3, <1>4 DEF SymbolOK, Pending

LEMMA Requeued ==
  ASSUME Inv, NEW s \in Symbols, RequeueSnapshots, UNCHANGED put
  PROVE  SymbolOK(s)' /\ (Pending(s) # {} => Pending(s)' # {})
<1>1. SymbolOK(s)
  BY DEF Inv
<1>2. queue'[s] = PutLatest(queue[s], batch[s]) /\ batch'[s] = <<>>
  BY DEF RequeueSnapshots, NoBatch
<1>3. queue[s] \in Seq(Nat) /\ batch[s] \in Seq(Nat)
  BY <1>1 DEF SymbolOK, Queue
<1>4. Unrepeated(queue[s] \o batch[s])
  BY <1>1, <1>3, UnrepeatedConcat DEF SymbolOK
<1>5. /\ queue'[s] \in Queue /\ Unrepeated(queue'[s])
      /\ Elements(queue'[s]) \subseteq Elements(queue[s]) \cup Elements(batch[s])
      /\ queue[s] # <<>> \/ batch[s] # <<>> => Elements(queue'[s]) # {}
  BY <1>2, <1>3, <1>4, PutLatestProperties
<1>6. batch'[s] \in Seq(Nat) /\ Len(batch'[s]) = 0 /\ Elements(batch'[s]) = {} /\ Unrepeated(batch'[s])
  BY <1>2, EmptySeq DEF Elements, Unrepeated
<1>7. Pending(s) # {} => queue[s] # <<>> \/ batch[s] # <<>>
  BY DEF Pending, Elements
<1> QED BY <1>1, <1>5, <1>6, <1>7, BatchLimitAssumption DEF SymbolOK, Pending

LEMMA PutProperties ==
  ASSUME Inv, NEW x \in Symbols, SnapshotPut(x), NEW s \in Symbols
  PROVE  SymbolOK(s)' /\ (Pending(s) # {} => Pending(s)' # {})
<1>1. SymbolOK(s) /\ put[s] \in Nat
  BY MaxSnapshotAssumption DEF Inv, Valued
<1>2. /\ queue' = [queue EXCEPT ![x] = PutLatest(queue[x], <<put[x] + 1>>)]
      /\ put' = [put EXCEPT ![x] = put[x] + 1] /\ batch' = batch
      /\ DOMAIN queue = Symbols /\ DOMAIN put = Symbols
  BY DEF SnapshotPut, Inv, Valued
<1>3. CASE s # x
  <2>1. queue'[s] = queue[s] /\ put'[s] = put[s]
    BY <1>2, <1>3
  <2> QED BY <1>1, <1>2, <2>1 DEF SymbolOK, Pending
<1>4. CASE s = x
  <2> DEFINE new == <<put[s] + 1>>
  <2>1. queue'[s] = PutLatest(queue[s], new) /\ put'[s] = put[s] + 1
    BY <1>2, <1>4
  <2>2. /\ new \in Seq(Nat) /\ new # <<>> /\ Elements(new) = {put[s] + 1} /\ Unrepeated(new)
        /\ queue[s] \in Seq(Nat)
    BY <1>1 DEF Elements, Unrepeated, SymbolOK, Queue
  <2> HIDE DEF new
  <2>3. put[s] + 1 \notin Pending(s)
    BY <1>1 DEF SymbolOK
  <2>4. Unrepeated(queue[s] \o new)
    <3>1. Elements(queue[s]) \cap Elements(new) = {}
      BY <2>2, <2>3 DEF Pending
    <3> QED BY <1>1, <2>2, <3>1, UnrepeatedConcat DEF SymbolOK
  <2>5. /\ queue'[s] \in Queue /\ Unrepeated(queue'[s]) /\ Elements(queue'[s]) # {}
        /\ Elements(queue'[s]) \subseteq Elements(queue[s]) \cup {put[s] + 1}
    BY <2>1, <2>2, <2>4, PutLatestProperties
  <2>6. (1..put[s]) \cup {put[s] + 1} \subseteq 1..put'[s]
    BY <1>1, <2>1
  <2> QED BY <1>1, <1>2, <2>3, <2>5, <2>6 DEF SymbolOK, Pending
<1> QED BY <1>3, <1>4

LEMMA StoreType == ASSUME Inv, StoreBatch \/ UNCHANGED stored PROVE stored' \in [Symbols -> SUBSET Nat]
<1>1. \A s \in Symbols : Elements(batch[s]) \subseteq Nat
  BY DEF Inv, SymbolOK, Elements
<1> QED BY <1>1 DEF Inv, Valued, StoreBatch

LEMMA NoBatchType == NoBatch = [s \in Symbols |-> NoBatch[s]] /\ DOMAIN NoBatch = Symbols /\ \A s \in Symbols : NoBatch[s] = <<>>
BY DEF NoBatch

\* While the engine runs, what waits goes on waiting unless it is stored.
KeptOrStored ==
  \A s \in Symbols : ~Stopping /\ Pending(s) # {} /\ Pending(s)' = {} => Pending(s) \cap stored'[s] # {}

LEMMA WriterStep == Inv /\ WriterTask => Inv' /\ KeptOrStored
<1> SUFFICES ASSUME Inv, WriterTask PROVE Inv' /\ KeptOrStored
  OBVIOUS
<1>1. CASE FlushStarted
  <2>1. /\ writer = "top" /\ ~Stopping /\ writer' = "insert" /\ DrainSnapshots
        /\ UNCHANGED <<put, stored, dropped, stop>>
    BY <1>1 DEF FlushStarted
  <2>2. \A s \in Symbols : SymbolOK(s)' /\ Pending(s)' = Pending(s)
    BY <2>1, Drained DEF Inv, BatchRests, Stopping
  <2>3. Valued' /\ BatchRests'
    BY <2>1 DEF Inv, Valued, BatchRests, WriterPcs, Stopping, DrainSnapshots
  <2> QED BY <2>2, <2>3 DEF Inv, KeptOrStored
<1>2. CASE FlushStored
  <2>1. writer' = "top" /\ StoreBatch /\ batch' = NoBatch /\ UNCHANGED <<queue, put, dropped, stop>>
        /\ writer = "insert"
    BY <1>2 DEF FlushStored
  <2>2. \A s \in Symbols : batch'[s] = <<>>
    BY <2>1, NoBatchType
  <2>3. \A s \in Symbols : SymbolOK(s)'
    BY <2>1, <2>2, LetGo
  <2>4. Valued' /\ BatchRests'
    BY <2>1, <2>2, StoreType, NoBatchType DEF Inv, Valued, BatchRests, WriterPcs
  <2>5. KeptOrStored
    <3>1. \A s \in Symbols : Elements(batch[s]) \subseteq stored'[s]
      BY <2>1 DEF StoreBatch
    <3>2. \A s \in Symbols : Pending(s)' = {} => Elements(queue[s]) = {}
      BY <2>1 DEF Pending
    <3> QED BY <3>1, <3>2 DEF KeptOrStored, Pending
  <2> QED BY <2>3, <2>4, <2>5 DEF Inv
<1>3. CASE FlushFailed
  <2>1. writer' = "alert" /\ RequeueSnapshots /\ UNCHANGED <<put, dropped, stop>> /\ writer = "insert"
        /\ (StoreBatch \/ UNCHANGED stored)
    BY <1>3 DEF FlushFailed
  <2>2. \A s \in Symbols : SymbolOK(s)' /\ (Pending(s) # {} => Pending(s)' # {})
    BY <2>1, Requeued
  <2>3. batch' = NoBatch /\ queue' = [s \in Symbols |-> queue'[s]] /\ DOMAIN queue' = Symbols
    BY <2>1 DEF RequeueSnapshots
  <2>4. Valued' /\ BatchRests'
    BY <2>1, <2>3, StoreType, NoBatchType DEF Inv, Valued, BatchRests, WriterPcs
  <2> QED BY <2>2, <2>4 DEF Inv, KeptOrStored
<1>4. CASE FlushAlerted \/ WriterExits
  <2>1. UNCHANGED <<queue, put, batch, stored, dropped, stop>> /\ writer' \in {"top", "done"} /\ writer # "insert"
        /\ (stop \in {"final_flush", "final_insert", "stopped"} => writer' = "done")
    BY <1>4 DEF FlushAlerted, WriterExits, Inv, BatchRests
  <2>2. \A s \in Symbols : SymbolOK(s)' /\ Pending(s)' = Pending(s)
    BY <2>1 DEF Inv, SymbolOK, Pending
  <2>3. Valued' /\ BatchRests'
    BY <2>1 DEF Inv, Valued, BatchRests, WriterPcs
  <2> QED BY <2>2, <2>3 DEF Inv, KeptOrStored
<1> QED BY <1>1, <1>2, <1>3, <1>4 DEF WriterTask

LEMMA StopStep == Inv /\ StopTask => Inv' /\ KeptOrStored
<1> SUFFICES ASSUME Inv, StopTask PROVE Inv' /\ KeptOrStored
  OBVIOUS
<1>1. CASE StopCalled \/ HandlerCancelled \/ WriterJoined \/ FinalSkipped \/ StaysStopped
  <2>1. UNCHANGED <<queue, put, batch, stored, dropped, writer>> /\ stop' \in StopPcs
    BY <1>1 DEF StopCalled, HandlerCancelled, WriterJoined, FinalSkipped, StaysStopped, vars, StopPcs
  <2>2. \A s \in Symbols : SymbolOK(s)' /\ Pending(s)' = Pending(s)
    BY <2>1 DEF Inv, SymbolOK, Pending
  <2>3. BatchRests'
    BY <1>1, <2>1 DEF Inv, BatchRests, StopCalled, HandlerCancelled, WriterJoined, FinalSkipped, StaysStopped, vars
  <2>4. Valued'
    BY <2>1 DEF Inv, Valued
  <2> QED BY <2>2, <2>3, <2>4 DEF Inv, KeptOrStored
<1>2. CASE WriterCancelled \/ FinalStored \/ FinalTimedOut
  <2>1. /\ batch' = NoBatch /\ UNCHANGED <<queue, put, dropped>> /\ (StoreBatch \/ UNCHANGED stored)
        /\ stop' \in {"final_flush", "stopped"} /\ Stopping /\ writer' = "done"
    BY <1>2 DEF WriterCancelled, FinalStored, FinalTimedOut, Stopping, Inv, BatchRests
  <2>2. \A s \in Symbols : batch'[s] = <<>>
    BY <2>1, NoBatchType
  <2>3. \A s \in Symbols : SymbolOK(s)'
    BY <2>1, <2>2, LetGo
  <2>4. Valued' /\ BatchRests'
    BY <2>1, <2>2, StoreType, NoBatchType DEF Inv, Valued, BatchRests, WriterPcs, StopPcs
  <2> QED BY <2>1, <2>3, <2>4 DEF Inv, KeptOrStored
<1>3. CASE FinalFlush
  <2>1. /\ DrainSnapshots /\ stop = "final_flush" /\ UNCHANGED <<put, writer, stored, dropped>>
        /\ stop' = IF \E s \in Symbols : queue[s] # <<>> THEN "final_insert" ELSE "stopped"
    BY <1>3 DEF FinalFlush
  <2>2. \A s \in Symbols : SymbolOK(s)' /\ (queue[s] = <<>> => batch'[s] = <<>>)
    BY <2>1, Drained
  <2>3. Valued' /\ BatchRests'
    BY <2>1, <2>2 DEF Inv, Valued, BatchRests, StopPcs, DrainSnapshots
  <2> QED BY <2>1, <2>2, <2>3 DEF Inv, KeptOrStored, Stopping
<1>4. CASE FinalFailed
  <2>1. RequeueSnapshots /\ UNCHANGED <<put, dropped, writer>> /\ stop = "final_insert" /\ stop' = "stopped"
        /\ (StoreBatch \/ UNCHANGED stored)
    BY <1>4 DEF FinalFailed
  <2>2. \A s \in Symbols : SymbolOK(s)'
    BY <2>1, Requeued
  <2>3. batch' = NoBatch /\ queue' = [s \in Symbols |-> queue'[s]] /\ DOMAIN queue' = Symbols
    BY <2>1 DEF RequeueSnapshots
  <2>4. Valued' /\ BatchRests'
    BY <2>1, <2>3, StoreType, NoBatchType DEF Inv, Valued, BatchRests, StopPcs
  <2> QED BY <2>1, <2>2, <2>4 DEF Inv, KeptOrStored, Stopping
<1> QED BY <1>1, <1>2, <1>3, <1>4 DEF StopTask

LEMMA InvNext == Inv /\ [Next]_vars => Inv' /\ KeptOrStored
<1> SUFFICES ASSUME Inv, [Next]_vars PROVE Inv' /\ KeptOrStored
  OBVIOUS
<1>1. CASE UNCHANGED vars
  BY <1>1 DEF vars, Inv, Valued, BatchRests, SymbolOK, Pending, KeptOrStored
<1>2. ASSUME NEW x \in Symbols, SnapshotPut(x) PROVE Inv' /\ KeptOrStored
  <2>1. \A s \in Symbols : SymbolOK(s)' /\ (Pending(s) # {} => Pending(s)' # {})
    BY <1>2, PutProperties
  <2>2. Valued'
    <3>1. put' \in [Symbols -> 0..MaxSnapshot]
      BY <1>2, MaxSnapshotAssumption DEF SnapshotPut, Inv, Valued
    <3>2. dropped' \in [Symbols -> Nat]
      BY <1>2 DEF SnapshotPut, Inv, Valued
    <3>3. queue' = [s \in Symbols |-> queue'[s]] /\ DOMAIN queue' = Symbols
      BY <1>2 DEF SnapshotPut, Inv, Valued
    <3> QED BY <1>2, <3>1, <3>2, <3>3 DEF SnapshotPut, Inv, Valued
  <2>3. BatchRests'
    BY <1>2 DEF SnapshotPut, Inv, BatchRests
  <2> QED BY <2>1, <2>2, <2>3 DEF Inv, KeptOrStored
<1> QED BY <1>1, <1>2, WriterStep, StopStep DEF Next

LEMMA InvInit == Init => Inv
<1> SUFFICES ASSUME Init PROVE Inv
  OBVIOUS
<1>1. \A s \in Symbols : queue[s] = <<>> /\ batch[s] = <<>> /\ put[s] = 0
  BY DEF Init, NoBatch
<1>2. <<>> \in Seq(Nat) /\ Len(<<>>) = 0 /\ Elements(<<>>) = {} /\ Unrepeated(<<>>)
  BY DEF Elements, Unrepeated
<1>3. ASSUME NEW s \in Symbols PROVE SymbolOK(s)
  <2>1. <<>> \in Queue /\ Len(<<>>) <= BatchLimit
    BY <1>2, CapacityAssumption, BatchLimitAssumption DEF Queue
  <2>2. Pending(s) = {}
    BY <1>1, <1>2 DEF Pending
  <2> QED BY <1>1, <1>2, <2>1, <2>2 DEF SymbolOK
<1>4. Valued /\ BatchRests
  BY <1>1, MaxSnapshotAssumption DEF Init, NoBatch, Valued, BatchRests, WriterPcs, StopPcs
<1> QED BY <1>3, <1>4 DEF Inv

LEMMA Invariance == Spec => []Inv
<1>1. Inv /\ [Next]_vars => Inv'
  BY InvNext
<1> QED BY InvInit, <1>1, PTL DEF Spec

-----------------------------------------------------------------------------
(* The theorems. *)

\* Every variable of the pipeline keeps its type; no queue is ever longer
\* than its capacity, although failed batches come back to it.
THEOREM TypeCorrect == Spec => []TypeOK
<1>1. Inv => TypeOK
  <2> SUFFICES ASSUME Inv PROVE TypeOK
    OBVIOUS
  <2>1. \A s \in Symbols : queue[s] \in Seq(Nat) /\ Len(queue[s]) <= Capacity
                           /\ batch[s] \in Seq(Nat) /\ Len(batch[s]) <= BatchLimit
    BY DEF Inv, SymbolOK, Queue
  <2>2. queue \in [Symbols -> Seq(Nat)] /\ batch \in [Symbols -> Seq(Nat)]
    BY <2>1 DEF Inv, Valued
  <2> QED BY <2>1, <2>2 DEF Inv, Valued, TypeOK
<1> QED BY <1>1, Invariance, PTL

\* However often a batch is requeued and whatever is put and evicted
\* meanwhile, no snapshot is in the pipeline twice.
THEOREM NothingTwice == Spec => []NoCopies
<1>1. Inv => NoCopies
  <2> SUFFICES ASSUME Inv, NEW s \in Symbols
               PROVE  Cardinality(Pending(s)) = Len(queue[s]) + Len(batch[s])
    BY DEF NoCopies
  <2> DEFINE q == Elements(queue[s])
             b == Elements(batch[s])
  <2>1. /\ queue[s] \in Seq(Nat) /\ batch[s] \in Seq(Nat)
        /\ Len(queue[s]) \in Nat /\ Len(batch[s]) \in Nat /\ SymbolOK(s)
    <3>1. SymbolOK(s)
      BY DEF Inv
    <3>2. queue[s] \in Seq(Nat) /\ batch[s] \in Seq(Nat)
      BY <3>1 DEF SymbolOK, Queue
    <3> QED BY <3>1, <3>2, LenProperties
  <2>2. IsFiniteSet(q) /\ Cardinality(q) = Len(queue[s]) /\ IsFiniteSet(b) /\ Cardinality(b) = Len(batch[s])
    BY <2>1, ElementsCardinality DEF SymbolOK, Unrepeated
  <2>3. q \cap b = {} /\ Pending(s) = q \cup b
    BY <2>1 DEF SymbolOK, Pending
  <2> HIDE DEF q, b
  <2>4. Cardinality(q \cup b) = Cardinality(q) + Cardinality(b) - Cardinality(q \cap b)
    BY <2>2, FS_Union
  <2>5. Cardinality(q \cap b) = 0
    BY <2>3, FS_EmptySet
  <2> QED BY <2>1, <2>2, <2>3, <2>4, <2>5
<1> QED BY <1>1, Invariance, PTL

\* While the engine runs, a snapshot waits until one of its symbol is stored,
\* whatever is evicted and however many flushes fail.
THEOREM OnlyStoringEmpties == Spec => EmptiesOnlyByStoring
<1>1. Inv /\ [Next]_vars =>
        [\A s \in Symbols : ~Stopping /\ Pending(s) # {} /\ Pending(s)' = {} =>
           Pending(s) \cap stored'[s] # {}]_vars
  BY InvNext DEF KeptOrStored
<1> QED BY <1>1, Invariance, PTL DEF Spec, EmptiesOnlyByStoring
=============================================================================
