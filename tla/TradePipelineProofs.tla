------------------------ MODULE TradePipelineProofs ------------------------
(***************************************************************************)
(* What the queues, the writer and stop() do with trades, for every set of *)
(* symbols, capacity, batch limit and number of trades: the types, how     *)
(* many trades are lost without being counted, and that none is in the     *)
(* pipeline twice.                                                         *)
(***************************************************************************)
EXTENDS TradePipeline, FiniteSetTheorems, SequenceTheorems, TLAPS

-----------------------------------------------------------------------------
(* Sequences of trades and the sets of their elements. *)

\* What DrainTrades takes of a queue and what it leaves.
LEMMA SplitProperties ==
  ASSUME NEW q \in Seq(Nat), NEW k \in 0..Len(q)
  PROVE  /\ SubSeq(q, 1, k) \in Seq(Nat) /\ Len(SubSeq(q, 1, k)) = k
         /\ \A i \in 1..k : SubSeq(q, 1, k)[i] = q[i]
         /\ SubSeq(q, k + 1, Len(q)) \in Seq(Nat) /\ Len(SubSeq(q, k + 1, Len(q))) = Len(q) - k
         /\ \A i \in 1..(Len(q) - k) : SubSeq(q, k + 1, Len(q))[i] = q[k + i]
<1>1. Len(q) \in Nat /\ \A i \in 1..Len(q) : q[i] \in Nat
  OBVIOUS
<1>2. k \in Int /\ k + 1 \in Int /\ Len(q) \in Int /\ (\A i \in 1..k : q[i] \in Nat)
      /\ (\A i \in (k + 1)..Len(q) : q[i] \in Nat)
  BY <1>1
<1>3. /\ SubSeq(q, 1, k) \in Seq(Nat) /\ Len(SubSeq(q, 1, k)) = k
      /\ \A i \in 1..k : SubSeq(q, 1, k)[i] = q[i]
  <2>1. /\ SubSeq(q, 1, k) \in Seq(Nat)
        /\ Len(SubSeq(q, 1, k)) = IF 1 <= k THEN k - 1 + 1 ELSE 0
        /\ \A i \in 1..(k - 1 + 1) : SubSeq(q, 1, k)[i] = q[1 + i - 1]
    BY <1>2, SubSeqProperties
  <2>2. Len(SubSeq(q, 1, k)) = k
    BY <2>1, <1>2
  <2>3. ASSUME NEW i \in 1..k PROVE SubSeq(q, 1, k)[i] = q[i]
    <3>1. i \in 1..(k - 1 + 1) /\ 1 + i - 1 = i
      BY <1>2
    <3> QED BY <2>1, <3>1
  <2> QED BY <2>1, <2>2, <2>3
<1>4. /\ SubSeq(q, k + 1, Len(q)) \in Seq(Nat) /\ Len(SubSeq(q, k + 1, Len(q))) = Len(q) - k
      /\ \A i \in 1..(Len(q) - k) : SubSeq(q, k + 1, Len(q))[i] = q[k + i]
  <2>1. /\ SubSeq(q, k + 1, Len(q)) \in Seq(Nat)
        /\ Len(SubSeq(q, k + 1, Len(q))) = IF k + 1 <= Len(q) THEN Len(q) - (k + 1) + 1 ELSE 0
        /\ \A i \in 1..(Len(q) - (k + 1) + 1) : SubSeq(q, k + 1, Len(q))[i] = q[k + 1 + i - 1]
    BY <1>2, SubSeqProperties
  <2>2. Len(SubSeq(q, k + 1, Len(q))) = Len(q) - k
    BY <2>1, <1>1, <1>2
  <2>3. ASSUME NEW i \in 1..(Len(q) - k) PROVE SubSeq(q, k + 1, Len(q))[i] = q[k + i]
    <3>1. i \in 1..(Len(q) - (k + 1) + 1) /\ k + 1 + i - 1 = k + i
      BY <1>1, <1>2
    <3> QED BY <2>1, <3>1
  <2> QED BY <2>1, <2>2, <2>3
<1> QED BY <1>3, <1>4

LEMMA ElementsSplit ==
  ASSUME NEW q \in Seq(Nat), NEW k \in 0..Len(q)
  PROVE  Elements(SubSeq(q, 1, k)) \cup Elements(SubSeq(q, k + 1, Len(q))) = Elements(q)
<1> DEFINE a == SubSeq(q, 1, k)
           z == SubSeq(q, k + 1, Len(q))
<1>1. /\ Len(a) = k /\ \A i \in 1..k : a[i] = q[i]
      /\ Len(z) = Len(q) - k /\ \A i \in 1..(Len(q) - k) : z[i] = q[k + i]
      /\ Len(q) \in Nat
  BY SplitProperties
<1> HIDE DEF a, z
<1>2. ASSUME NEW i \in 1..Len(q) PROVE q[i] \in Elements(a) \cup Elements(z)
  <2>1. CASE i <= k
    BY <1>1, <2>1 DEF Elements
  <2>2. CASE ~(i <= k)
    <3>1. i - k \in 1..Len(z) /\ z[i - k] = q[i]
      BY <1>1, <2>2
    <3> QED BY <3>1 DEF Elements
  <2> QED BY <2>1, <2>2
<1>3. \A i \in 1..Len(a) : a[i] \in Elements(q)
  <2>1. \A i \in 1..Len(a) : i \in 1..Len(q) /\ a[i] = q[i]
    BY <1>1
  <2> QED BY <2>1 DEF Elements
<1>4. \A i \in 1..Len(z) : z[i] \in Elements(q)
  <2>1. \A i \in 1..Len(z) : k + i \in 1..Len(q) /\ z[i] = q[k + i]
    BY <1>1
  <2> QED BY <2>1 DEF Elements
<1>5. Elements(a) \subseteq Elements(q) /\ Elements(z) \subseteq Elements(q)
  BY <1>3, <1>4 DEF Elements
<1>6. Elements(q) \subseteq Elements(a) \cup Elements(z)
  BY <1>2 DEF Elements
<1>7. Elements(a) \cup Elements(z) = Elements(q)
  BY <1>5, <1>6
<1> QED BY <1>7 DEF a, z

LEMMA ElementsConcat ==
  ASSUME NEW q \in Seq(Nat), NEW r \in Seq(Nat)
  PROVE  Elements(q \o r) = Elements(q) \cup Elements(r)
<1>1. /\ Len(q \o r) = Len(q) + Len(r) /\ Len(q) \in Nat /\ Len(r) \in Nat
      /\ \A i \in 1..(Len(q) + Len(r)) : (q \o r)[i] = IF i <= Len(q) THEN q[i] ELSE r[i - Len(q)]
  BY ConcatProperties
<1>2. ASSUME NEW i \in 1..Len(q \o r) PROVE (q \o r)[i] \in Elements(q) \cup Elements(r)
  <2>1. CASE i <= Len(q)
    BY <1>1, <2>1 DEF Elements
  <2>2. CASE ~(i <= Len(q))
    <3>1. i - Len(q) \in 1..Len(r) /\ (q \o r)[i] = r[i - Len(q)]
      BY <1>1, <2>2
    <3> QED BY <3>1 DEF Elements
  <2> QED BY <2>1, <2>2
<1>3. ASSUME NEW i \in 1..Len(q) PROVE q[i] \in Elements(q \o r)
  <2>1. i \in 1..Len(q \o r) /\ (q \o r)[i] = q[i]
    BY <1>1
  <2> QED BY <2>1 DEF Elements
<1>4. ASSUME NEW i \in 1..Len(r) PROVE r[i] \in Elements(q \o r)
  <2>1. Len(q) + i \in 1..Len(q \o r) /\ (q \o r)[Len(q) + i] = r[i]
    BY <1>1
  <2> QED BY <2>1 DEF Elements
<1> QED BY <1>2, <1>3, <1>4 DEF Elements

LEMMA ElementsAppend ==
  ASSUME NEW q \in Seq(Nat), NEW t \in Nat
  PROVE  Elements(Append(q, t)) = Elements(q) \cup {t}
<1>1. Append(q, t) = q \o <<t>> /\ <<t>> \in Seq(Nat)
  BY AppendIsConcat
<1>2. Elements(<<t>>) = {t}
  BY DEF Elements
<1> QED BY <1>1, <1>2, ElementsConcat

LEMMA ElementsTail ==
  ASSUME NEW q \in Seq(Nat), q # <<>>
  PROVE  Elements(q) = {Head(q)} \cup Elements(Tail(q))
<1>1. /\ Len(q) \in Nat \ {0} /\ Len(Tail(q)) = Len(q) - 1 /\ Head(q) = q[1]
      /\ \A i \in 1..Len(Tail(q)) : Tail(q)[i] = q[i + 1]
  BY HeadTailProperties, EmptySeq
<1>2. ASSUME NEW i \in 1..Len(q) PROVE q[i] \in {Head(q)} \cup Elements(Tail(q))
  <2>1. CASE i = 1
    BY <1>1, <2>1
  <2>2. CASE i # 1
    <3>1. i - 1 \in 1..Len(Tail(q)) /\ Tail(q)[i - 1] = q[i]
      BY <1>1, <2>2
    <3> QED BY <3>1 DEF Elements
  <2> QED BY <2>1, <2>2
<1>3. \A i \in 1..Len(Tail(q)) : i + 1 \in 1..Len(q) /\ Tail(q)[i] = q[i + 1]
  BY <1>1
<1>4. 1 \in 1..Len(q)
  BY <1>1
<1> QED BY <1>1, <1>2, <1>3, <1>4 DEF Elements

\* A sequence has at most as many elements as its length, and exactly as
\* many if none is repeated.
LEMMA ElementsCardinality ==
  ASSUME NEW q \in Seq(Nat)
  PROVE  /\ IsFiniteSet(Elements(q)) /\ Cardinality(Elements(q)) \in Nat
         /\ Cardinality(Elements(q)) <= Len(q)
         /\ (\A i, j \in 1..Len(q) : q[i] = q[j] => i = j) => Cardinality(Elements(q)) = Len(q)
<1> DEFINE f == [i \in 1..Len(q) |-> q[i]]
<1>1. Len(q) \in Nat
  OBVIOUS
<1>2. IsFiniteSet(1..Len(q)) /\ Cardinality(1..Len(q)) = Len(q)
  <2>1. /\ IsFiniteSet(1..Len(q))
        /\ Cardinality(1..Len(q)) = IF 1 > Len(q) THEN 0 ELSE Len(q) - 1 + 1
    BY <1>1, FS_Interval
  <2> QED BY <1>1, <2>1
<1>3. f \in Surjection(1..Len(q), Elements(q))
  BY DEF Surjection, Elements
<1>4. /\ IsFiniteSet(Elements(q)) /\ Cardinality(Elements(q)) <= Len(q)
      /\ Cardinality(Elements(q)) = Len(q) <=> f \in Injection(1..Len(q), Elements(q))
  BY <1>2, <1>3, FS_Surjection
<1>5. (\A i, j \in 1..Len(q) : q[i] = q[j] => i = j) => f \in Injection(1..Len(q), Elements(q))
  BY DEF Injection, IsInjective, Elements
<1> QED BY <1>4, <1>5, FS_CardinalityType

\* How a bound on a number of losses goes on.
LEMMA CountBound ==
  ASSUME NEW S, NEW T, NEW D, IsFiniteSet(T), IsFiniteSet(D), S \subseteq T \cup D,
         NEW m \in Nat, NEW n \in Nat, Cardinality(T) <= m, m + Cardinality(D) <= n
  PROVE  Cardinality(S) <= n
<1>1. /\ IsFiniteSet(T \cup D)
      /\ Cardinality(T \cup D) = Cardinality(T) + Cardinality(D) - Cardinality(T \cap D)
  BY FS_Union
<1>2. IsFiniteSet(T \cap D)
  BY FS_Subset
<1>3. IsFiniteSet(S) /\ Cardinality(S) <= Cardinality(T \cup D)
  BY <1>1, FS_Subset
<1>4. /\ Cardinality(T) \in Nat /\ Cardinality(D) \in Nat /\ Cardinality(T \cap D) \in Nat
      /\ Cardinality(S) \in Nat
  BY <1>2, <1>3, FS_CardinalityType
<1> QED BY <1>1, <1>3, <1>4

-----------------------------------------------------------------------------
(* The inductive invariant. *)

\* A handler that has received a trade knows its symbol.
HandlerOwns == handler.pc \in {"publish", "put", "alert"} => handler.symbol \in Symbols

\* Trades are drained only to be inserted: nothing is left of the batch
\* before the next one overwrites it.
BatchRests ==
  /\ writer # "insert" /\ stop # "final_insert" => \A s \in Symbols : batch[s] = <<>>
  /\ stop \in {"final_flush", "final_insert", "stopped"} => writer = "done"

\* How many trades of a symbol stop() may have lost so far.
Slack ==
  IF stop \in {"up", "cancel_tasks"} THEN 0
  ELSE IF stop = "join_writer" THEN 1
  ELSE IF stop \in {"final_flush", "final_insert"} THEN 1 + BatchLimit
  ELSE 1 + 2 * BatchLimit

LossInv == \A s \in Symbols : Cardinality(Lost(s)) <= Counted(s) + Slack

Shape == TypeOK /\ HandlerOwns /\ BatchRests

\* What DrainTrades does to one queue.
LEMMA DrainProperties ==
  ASSUME Shape, NEW s \in Symbols, DrainTrades
  PROVE  /\ batch'[s] \in Seq(Nat) /\ Len(batch'[s]) <= BatchLimit
         /\ queue'[s] \in Seq(Nat) /\ Len(queue'[s]) <= Capacity
         /\ Elements(batch'[s]) \cup Elements(queue'[s]) = Elements(queue[s])
<1> DEFINE k == Least(BatchLimit, Len(queue[s]))
<1>1. /\ queue[s] \in Seq(Nat) /\ Len(queue[s]) \in Nat /\ Len(queue[s]) <= Capacity
      /\ Capacity \in Nat /\ BatchLimit \in Nat
  BY CapacityAssumption, BatchLimitAssumption DEF Shape, TypeOK
<1>2. k \in 0..Len(queue[s]) /\ k <= BatchLimit
  BY <1>1 DEF Least
<1>3. batch'[s] = SubSeq(queue[s], 1, k) /\ queue'[s] = SubSeq(queue[s], k + 1, Len(queue[s]))
  BY DEF DrainTrades
<1> HIDE DEF k
<1>4. /\ batch'[s] \in Seq(Nat) /\ Len(batch'[s]) = k
      /\ queue'[s] \in Seq(Nat) /\ Len(queue'[s]) = Len(queue[s]) - k
  BY <1>1, <1>2, <1>3, SplitProperties
<1>5. Elements(batch'[s]) \cup Elements(queue'[s]) = Elements(queue[s])
  BY <1>1, <1>2, <1>3, ElementsSplit
<1> QED BY <1>1, <1>2, <1>4, <1>5

\* What RequeueTrades does to one queue: part of the batch goes back, and the
\* rest is counted.
LEMMA RequeueProperties ==
  ASSUME Shape, NEW s \in Symbols, RequeueTrades
  PROVE  /\ batch'[s] = <<>>
         /\ queue'[s] \in Seq(Nat) /\ Len(queue'[s]) <= Capacity
         /\ \E k \in 0..Len(batch[s]) :
              /\ queue'[s] = queue[s] \o SubSeq(batch[s], 1, k)
              /\ droppedRequeued'[s] = droppedRequeued[s] + (Len(batch[s]) - k)
<1> DEFINE room == IF Stopping THEN 0 ELSE Capacity - Len(queue[s])
           k == Least(room, Len(batch[s]))
<1>1. /\ queue[s] \in Seq(Nat) /\ Len(queue[s]) \in Nat /\ Len(queue[s]) <= Capacity
      /\ batch[s] \in Seq(Nat) /\ Len(batch[s]) \in Nat /\ droppedRequeued[s] \in Nat
      /\ Capacity \in Nat
  BY CapacityAssumption DEF Shape, TypeOK
<1>2. k \in 0..Len(batch[s]) /\ k <= Capacity - Len(queue[s])
  BY <1>1 DEF Least
<1>3. /\ queue'[s] = queue[s] \o SubSeq(batch[s], 1, k)
      /\ droppedRequeued'[s] = droppedRequeued[s] + Len(batch[s]) - k
      /\ batch'[s] = <<>>
  BY DEF RequeueTrades, NoBatch
<1> HIDE DEF k
<1>4. SubSeq(batch[s], 1, k) \in Seq(Nat) /\ Len(SubSeq(batch[s], 1, k)) = k
  BY <1>1, <1>2, SplitProperties
<1>5. queue'[s] \in Seq(Nat) /\ Len(queue'[s]) = Len(queue[s]) + k
  BY <1>1, <1>3, <1>4, ConcatProperties
<1>6. droppedRequeued'[s] = droppedRequeued[s] + (Len(batch[s]) - k)
  BY <1>1, <1>2, <1>3
<1>7. Len(queue'[s]) <= Capacity
  BY <1>1, <1>2, <1>5
<1> QED BY <1>2, <1>3, <1>5, <1>6, <1>7

LEMMA InitShape == Init => Shape
BY CapacityAssumption, BatchLimitAssumption, MaxTradeAssumption, EmptySeq
DEF Init, Shape, TypeOK, HandlerOwns, BatchRests, NoBatch, Handler, HandlerPcs, WriterPcs, StopPcs

\* The steps of the handler keep the types.
LEMMA HandlerShape == ASSUME Shape, HandlerTask PROVE Shape'
<1> USE CapacityAssumption, BatchLimitAssumption, MaxTradeAssumption
    DEF Shape, HandlerOwns, BatchRests, HandlerPcs
<1>1. CASE \E s \in Symbols : TradeReceived(s)
  <2>1. PICK s \in Symbols : TradeReceived(s)
    BY <1>1
  <2>2. received' \in [Symbols -> 0..MaxTrade]
    BY <2>1 DEF TradeReceived, TypeOK
  <2> QED BY <2>1, <2>2 DEF TradeReceived, TypeOK, Handler
<1>2. CASE TradePublished
  <2> DEFINE s == handler.symbol
  <2>1. s \in Symbols /\ received[s] \in Nat /\ queue[s] \in Seq(Nat) /\ dropped[s] \in Nat
    BY <1>2 DEF TradePublished, TypeOK
  <2>2. Append(queue[s], received[s]) \in Seq(Nat)
        /\ Len(Append(queue[s], received[s])) = Len(queue[s]) + 1
    BY <2>1, AppendProperties
  <2>3. queue' \in [Symbols -> Seq(Nat)] /\ \A x \in Symbols : Len(queue'[x]) <= Capacity
    <3>1. \/ UNCHANGED queue
          \/ Len(queue[s]) < Capacity /\ queue' = [queue EXCEPT ![s] = Append(queue[s], received[s])]
      BY <1>2 DEF TradePublished
    <3>2. queue \in [Symbols -> Seq(Nat)] /\ \A x \in Symbols : Len(queue[x]) <= Capacity
      BY DEF TypeOK
    <3> HIDE DEF s, Shape
    <3>3. CASE Len(queue[s]) < Capacity /\ queue' = [queue EXCEPT ![s] = Append(queue[s], received[s])]
      <4> DEFINE q == Append(queue[s], received[s])
      <4>1. q \in Seq(Nat) /\ Len(q) <= Capacity
        BY <2>1, <2>2, <3>3
      <4>2. queue' = [queue EXCEPT ![s] = q]
        BY <3>3
      <4> HIDE DEF q
      <4> QED BY <2>1, <3>2, <4>1, <4>2
    <3> QED BY <3>1, <3>2, <3>3
  <2>4. dropped' \in [Symbols -> Nat]
    <3>1. UNCHANGED dropped \/ dropped' = [dropped EXCEPT ![s] = dropped[s] + 1]
      BY <1>2 DEF TradePublished
    <3>2. dropped \in [Symbols -> Nat]
      BY DEF TypeOK
    <3> HIDE DEF s, Shape
    <3> QED BY <2>1, <3>1, <3>2
  <2>5. handler' \in [pc : HandlerPcs, symbol : Symbols \cup {None}] /\ HandlerOwns'
    <3>1. \E pc \in HandlerPcs, x \in Symbols \cup {None} :
             handler' = Handler(pc, x) /\ (pc \in {"publish", "put", "alert"} => x \in Symbols)
      <4>1. handler' = NextPayload \/ handler' = Handler("put", s)
        BY <1>2 DEF TradePublished
      <4> QED BY <2>1, <4>1 DEF NextPayload
    <3> QED BY <3>1 DEF Handler
  <2> QED BY <1>2, <2>3, <2>4, <2>5 DEF TradePublished, TypeOK
<1>3. CASE PutAccepted
  <2> DEFINE s == handler.symbol
  <2>1. s \in Symbols /\ received[s] \in Nat /\ queue[s] \in Seq(Nat)
    BY <1>3 DEF PutAccepted, TypeOK
  <2>2. Append(queue[s], received[s]) \in Seq(Nat)
        /\ Len(Append(queue[s], received[s])) = Len(queue[s]) + 1
    BY <2>1, AppendProperties
  <2>3. queue' \in [Symbols -> Seq(Nat)] /\ \A x \in Symbols : Len(queue'[x]) <= Capacity
    BY <1>3, <2>1, <2>2 DEF PutAccepted, TypeOK
  <2> QED BY <1>3, <2>1, <2>3 DEF PutAccepted, TypeOK, Handler
<1>4. CASE PutTimedOut
  <2> DEFINE s == handler.symbol
             q == IF queue[s] = <<>> THEN <<received[s]>> ELSE Append(Tail(queue[s]), received[s])
  <2>1. /\ s \in Symbols /\ received[s] \in Nat /\ dropped[s] \in Nat
        /\ queue[s] \in Seq(Nat) /\ Len(queue[s]) <= Capacity
    BY <1>4 DEF PutTimedOut, TypeOK
  <2>2. q \in Seq(Nat) /\ Len(q) <= Capacity
    <3>1. CASE queue[s] = <<>>
      BY <2>1, <3>1
    <3>2. CASE queue[s] # <<>>
      <4>1. Tail(queue[s]) \in Seq(Nat) /\ Len(Tail(queue[s])) = Len(queue[s]) - 1
        BY <2>1, <3>2, HeadTailProperties
      <4> HIDE DEF s
      <4>2. /\ Append(Tail(queue[s]), received[s]) \in Seq(Nat)
            /\ Len(Append(Tail(queue[s]), received[s])) = Len(Tail(queue[s])) + 1
        BY <2>1, <4>1, AppendProperties
      <4> QED BY <2>1, <3>2, <4>1, <4>2
    <3> QED BY <3>1, <3>2
  <2>3. queue' = [queue EXCEPT ![s] = q]
    BY <1>4 DEF PutTimedOut
  <2> HIDE DEF q
  <2>4. queue' \in [Symbols -> Seq(Nat)] /\ \A x \in Symbols : Len(queue'[x]) <= Capacity
    BY <2>1, <2>2, <2>3 DEF TypeOK
  <2>5. dropped' \in [Symbols -> Nat]
    BY <1>4, <2>1 DEF PutTimedOut, TypeOK
  <2>6. handler' \in [pc : HandlerPcs, symbol : Symbols \cup {None}] /\ HandlerOwns'
    BY <1>4, <2>1 DEF PutTimedOut, Handler
  <2> QED BY <1>4, <2>4, <2>5, <2>6 DEF PutTimedOut, TypeOK
<1>5. CASE BackpressureAlerted
  BY <1>5 DEF BackpressureAlerted, TypeOK, NextPayload, Handler
<1> QED BY <1>1, <1>2, <1>3, <1>4, <1>5 DEF HandlerTask

\* What storing a batch leaves.
LEMMA StoreType == ASSUME Shape, StoreBatch PROVE stored' \in [Symbols -> SUBSET Nat]
<1>1. \A s \in Symbols : Elements(batch[s]) \subseteq Nat
  BY DEF Shape, TypeOK, Elements
<1> QED BY <1>1 DEF Shape, TypeOK, StoreBatch

LEMMA DrainType ==
  ASSUME Shape, DrainTrades
  PROVE  /\ queue' \in [Symbols -> Seq(Nat)] /\ \A s \in Symbols : Len(queue'[s]) <= Capacity
         /\ batch' \in [Symbols -> Seq(Nat)] /\ \A s \in Symbols : Len(batch'[s]) <= BatchLimit
<1>1. \A s \in Symbols : /\ queue'[s] \in Seq(Nat) /\ Len(queue'[s]) <= Capacity
                         /\ batch'[s] \in Seq(Nat) /\ Len(batch'[s]) <= BatchLimit
  BY DrainProperties
<1>2. queue' = [s \in Symbols |-> queue'[s]] /\ batch' = [s \in Symbols |-> batch'[s]]
  BY DEF DrainTrades
<1> QED BY <1>1, <1>2

LEMMA RequeueType ==
  ASSUME Shape, RequeueTrades
  PROVE  /\ queue' \in [Symbols -> Seq(Nat)] /\ \A s \in Symbols : Len(queue'[s]) <= Capacity
         /\ batch' = NoBatch /\ droppedRequeued' \in [Symbols -> Nat]
<1>1. ASSUME NEW s \in Symbols
      PROVE  queue'[s] \in Seq(Nat) /\ Len(queue'[s]) <= Capacity /\ droppedRequeued'[s] \in Nat
  <2>1. /\ queue'[s] \in Seq(Nat) /\ Len(queue'[s]) <= Capacity
        /\ \E k \in 0..Len(batch[s]) : droppedRequeued'[s] = droppedRequeued[s] + (Len(batch[s]) - k)
    BY RequeueProperties
  <2>2. Len(batch[s]) \in Nat /\ droppedRequeued[s] \in Nat
    BY DEF Shape, TypeOK
  <2> QED BY <2>1, <2>2
<1>2. /\ queue' = [s \in Symbols |-> queue'[s]]
      /\ droppedRequeued' = [s \in Symbols |-> droppedRequeued'[s]]
      /\ batch' = NoBatch
  BY DEF RequeueTrades
<1> QED BY <1>1, <1>2

\* An empty batch has the type of a batch.
LEMMA NoBatchType ==
  NoBatch \in [Symbols -> Seq(Nat)] /\ \A s \in Symbols : NoBatch[s] = <<>> /\ Len(NoBatch[s]) <= BatchLimit
BY BatchLimitAssumption, EmptySeq DEF NoBatch

\* The steps of the writer and of stop() keep the types.
LEMMA WriterShape == ASSUME Shape, WriterTask \/ StopTask PROVE Shape'
<1>1. CASE FlushStarted
  BY <1>1, DrainType DEF FlushStarted, Shape, TypeOK, HandlerOwns, BatchRests, WriterPcs, Stopping
<1>2. CASE FlushStored
  BY <1>2, StoreType, NoBatchType DEF FlushStored, Shape, TypeOK, HandlerOwns, BatchRests, WriterPcs
<1>3. CASE FlushFailed
  <2>1. stored' \in [Symbols -> SUBSET Nat]
    BY <1>3, StoreType DEF FlushFailed, Shape, TypeOK
  <2> QED BY <1>3, <2>1, RequeueType, NoBatchType
          DEF FlushFailed, Shape, TypeOK, HandlerOwns, BatchRests, WriterPcs
<1>4. CASE FlushAlerted \/ WriterExits \/ StopCalled \/ HandlerCancelled \/ WriterJoined \/ StaysStopped
  BY <1>4 DEF FlushAlerted, WriterExits, StopCalled, HandlerCancelled, WriterJoined, StaysStopped, vars,
              Handler, Shape, TypeOK, HandlerOwns, BatchRests, HandlerPcs, WriterPcs, StopPcs
<1>5. CASE WriterCancelled \/ FinalTimedOut
  <2>1. stored' \in [Symbols -> SUBSET Nat]
    BY <1>5, StoreType DEF WriterCancelled, FinalTimedOut, Shape, TypeOK
  <2> QED BY <1>5, <2>1, NoBatchType
          DEF WriterCancelled, FinalTimedOut, Shape, TypeOK, HandlerOwns, BatchRests, WriterPcs, StopPcs
<1>6. CASE FinalFlush
  <2>1. \A s \in Symbols : queue[s] = <<>> => batch'[s] = <<>>
    <3>1. ASSUME NEW s \in Symbols, queue[s] = <<>> PROVE batch'[s] = <<>>
      <4>1. Least(BatchLimit, Len(queue[s])) = 0
        BY <3>1, BatchLimitAssumption DEF Least
      <4>2. batch'[s] = SubSeq(<<>>, 1, 0)
        BY <1>6, <3>1, <4>1 DEF FinalFlush, DrainTrades
      <4> QED BY <4>2, SubSeqEmpty
    <3> QED BY <3>1
  <2> QED BY <1>6, <2>1, DrainType DEF FinalFlush, Shape, TypeOK, HandlerOwns, BatchRests, WriterPcs, StopPcs
<1>7. CASE FinalStored
  BY <1>7, StoreType, NoBatchType DEF FinalStored, Shape, TypeOK, HandlerOwns, BatchRests, WriterPcs, StopPcs
<1>8. CASE FinalFailed
  <2>1. stored' \in [Symbols -> SUBSET Nat]
    BY <1>8, StoreType DEF FinalFailed, Shape, TypeOK
  <2> QED BY <1>8, <2>1, RequeueType, NoBatchType
          DEF FinalFailed, Shape, TypeOK, HandlerOwns, BatchRests, WriterPcs, StopPcs
<1> QED BY <1>1, <1>2, <1>3, <1>4, <1>5, <1>6, <1>7, <1>8 DEF WriterTask, StopTask

LEMMA ShapeStep == ASSUME Shape, [Next]_vars PROVE Shape'
<1>1. CASE UNCHANGED vars
  BY <1>1 DEF vars, Shape, TypeOK, HandlerOwns, BatchRests
<1> QED BY <1>1, HandlerShape, WriterShape DEF Next

LEMMA ShapeInvariance == Spec => []Shape
BY InitShape, ShapeStep, PTL DEF Spec

\* Every variable of the pipeline keeps its type; in particular no queue is
\* ever longer than its capacity.
THEOREM TypeCorrect == Spec => []TypeOK
<1>1. Shape => TypeOK
  BY DEF Shape
<1> QED BY <1>1, ShapeInvariance, PTL

-----------------------------------------------------------------------------
(* Losses. *)

\* The losses of a symbol are finitely many.
LEMMA LostFinite == ASSUME Shape, NEW s \in Symbols PROVE IsFiniteSet(Lost(s))
<1>1. received[s] \in Int /\ Lost(s) \subseteq 1..received[s]
  BY MaxTradeAssumption DEF Shape, TypeOK, Lost
<1> QED BY <1>1, FS_Interval, FS_Subset

\* A step may lose the trades of a set if it raises what is counted or
\* excused by as many.
LEMMA LossGrows ==
  ASSUME Shape, Shape', LossInv, NEW s \in Symbols, NEW D, IsFiniteSet(D),
         Lost(s)' \subseteq Lost(s) \cup D,
         Counted(s) + Slack + Cardinality(D) <= (Counted(s) + Slack)'
  PROVE  Cardinality(Lost(s)') <= (Counted(s) + Slack)'
<1>1. Counted(s) + Slack \in Nat /\ (Counted(s) + Slack)' \in Nat
  <2>1. dropped[s] \in Nat /\ droppedRequeued[s] \in Nat /\ dropped'[s] \in Nat /\ droppedRequeued'[s] \in Nat
    BY DEF Shape, TypeOK
  <2>2. Slack \in Nat /\ Slack' \in Nat
    BY BatchLimitAssumption DEF Slack
  <2>3. Counted(s) + Slack \in Nat /\ Counted(s)' + Slack' \in Nat
    BY <2>1, <2>2 DEF Counted
  <2> QED BY <2>3
<1>2. IsFiniteSet(Lost(s)) /\ Cardinality(Lost(s)) <= Counted(s) + Slack
  BY LostFinite DEF LossInv
<1> DEFINE S == Lost(s)'
           n == (Counted(s) + Slack)'
<1>3. S \subseteq Lost(s) \cup D /\ n \in Nat /\ Counted(s) + Slack + Cardinality(D) <= n
  BY <1>1
<1> HIDE DEF S, n
<1>4. Cardinality(S) <= n
  BY <1>1, <1>2, <1>3, CountBound
<1> QED BY <1>4 DEF S, n

LEMMA NothingLost ==
  ASSUME Shape, Shape', LossInv, NEW s \in Symbols,
         Lost(s)' \subseteq Lost(s), Counted(s) + Slack <= (Counted(s) + Slack)'
  PROVE  Cardinality(Lost(s)') <= (Counted(s) + Slack)'
<1>1. Counted(s) + Slack \in Nat
  <2>1. dropped[s] \in Nat /\ droppedRequeued[s] \in Nat
    BY DEF Shape, TypeOK
  <2>2. Slack \in Nat
    BY BatchLimitAssumption DEF Slack
  <2> QED BY <2>1, <2>2 DEF Counted
<1>2. Counted(s) + Slack + Cardinality({}) <= (Counted(s) + Slack)' /\ IsFiniteSet({})
  BY <1>1, FS_EmptySet
<1> QED BY <1>2, LossGrows

\* The handler loses a trade only by counting it.
LEMMA HandlerLoss == ASSUME Shape, Shape', LossInv, HandlerTask PROVE LossInv'
<1> SUFFICES ASSUME NEW x \in Symbols PROVE Cardinality(Lost(x)') <= (Counted(x) + Slack)'
  BY DEF LossInv
<1>0. /\ queue[x] \in Seq(Nat) /\ received[x] \in Nat
      /\ dropped[x] \in Nat /\ droppedRequeued[x] \in Nat /\ Slack \in Nat
  BY BatchLimitAssumption, MaxTradeAssumption DEF Shape, TypeOK, Slack
<1>1. CASE \E s \in Symbols : TradeReceived(s)
  <2>1. PICK s \in Symbols : TradeReceived(s)
    BY <1>1
  <2>2. /\ received' = [received EXCEPT ![s] = @ + 1] /\ handler.pc = "recv" /\ handler'.pc = "publish"
        /\ handler'.symbol = s
        /\ UNCHANGED <<queue, batch, stored, dropped, droppedRequeued, stop>>
    BY <2>1 DEF TradeReceived, Handler
  <2>3. InHand(x)' = IF x = s THEN {received[x] + 1} ELSE {}
    BY <1>0, <2>2 DEF InHand, Shape, TypeOK
  <2>4. received'[x] = IF x = s THEN received[x] + 1 ELSE received[x]
    BY <2>2 DEF Shape, TypeOK
  <2>5. InHand(x) = {}
    BY <2>2 DEF InHand
  <2>6. Lost(x)' \subseteq Lost(x)
    BY <1>0, <2>2, <2>3, <2>4, <2>5 DEF Lost, Pending
  <2> QED BY <1>0, <2>2, <2>6, NothingLost DEF Counted, Slack
<1>2. CASE TradePublished
  <2> DEFINE s == handler.symbol
  <2>1. s \in Symbols /\ received[s] \in Nat /\ queue[s] \in Seq(Nat)
    BY <1>2, MaxTradeAssumption DEF TradePublished, Shape, TypeOK, HandlerOwns
  <2>2. handler.pc = "publish" /\ UNCHANGED <<received, batch, stored, droppedRequeued, stop>>
    BY <1>2 DEF TradePublished
  <2>3. InHand(x) = IF x = s THEN {received[x]} ELSE {}
    BY <2>2 DEF InHand
  <2>4. CASE Stopping
    <3>1. dropped' = [dropped EXCEPT ![s] = @ + 1] /\ UNCHANGED queue
      BY <1>2, <2>4 DEF TradePublished
    <3>2. CASE x = s
      <4>1. Lost(x)' \subseteq Lost(x) \cup {received[x]}
        BY <2>2, <2>3, <3>1, <3>2 DEF Lost, Pending
      <4>2. Counted(x)' = Counted(x) + 1 /\ Slack' = Slack
        BY <1>0, <2>2, <3>1, <3>2 DEF Counted, Slack, Shape, TypeOK
      <4>3. IsFiniteSet({received[x]}) /\ Cardinality({received[x]}) = 1
        BY FS_Singleton
      <4>4. Counted(x) \in Nat
        BY <1>0 DEF Counted
      <4>5. Counted(x) + Slack + Cardinality({received[x]}) <= (Counted(x) + Slack)'
        BY <1>0, <4>2, <4>3, <4>4
      <4> QED BY <4>1, <4>3, <4>5, LossGrows
    <3>3. CASE x # s
      <4>1. Lost(x)' \subseteq Lost(x)
        BY <2>2, <2>3, <3>1, <3>3 DEF Lost, Pending
      <4>2. Counted(x)' = Counted(x) /\ Slack' = Slack
        BY <2>2, <3>1, <3>3 DEF Counted, Slack, Shape, TypeOK
      <4>3. Counted(x) + Slack <= (Counted(x) + Slack)'
        BY <1>0, <4>2 DEF Counted
      <4> QED BY <4>1, <4>3, NothingLost
    <3> QED BY <3>2, <3>3
  <2>5. CASE ~Stopping
    <3>1. \/ queue' = [queue EXCEPT ![s] = Append(queue[s], received[s])]
          \/ UNCHANGED queue /\ handler' = Handler("put", s)
      BY <1>2, <2>5 DEF TradePublished
    <3>2. UNCHANGED dropped
      BY <1>2, <2>5 DEF TradePublished
    <3>3. CASE queue' = [queue EXCEPT ![s] = Append(queue[s], received[s])]
      <4>1. Elements(queue'[x]) = Elements(queue[x]) \cup IF x = s THEN {received[x]} ELSE {}
        <5>1. CASE x = s
          <6>1. queue'[x] = Append(queue[x], received[x])
            BY <3>3, <5>1 DEF Shape, TypeOK
          <6> QED BY <1>0, <5>1, <6>1, ElementsAppend
        <5>2. CASE x # s
          <6>1. queue'[x] = queue[x]
            BY <3>3, <5>2 DEF Shape, TypeOK
          <6> QED BY <5>2, <6>1
        <5> QED BY <5>1, <5>2
      <4> HIDE DEF s
      <4>2. Lost(x)' \subseteq Lost(x)
        BY <2>2, <2>3, <4>1 DEF Lost, Pending
      <4> QED BY <1>0, <2>2, <3>2, <4>2, NothingLost DEF Counted, Slack
    <3>4. CASE UNCHANGED queue /\ handler' = Handler("put", s)
      <4>1. InHand(x)' = InHand(x)
        BY <2>2, <2>3, <3>4 DEF InHand, Handler
      <4>2. Lost(x)' \subseteq Lost(x)
        BY <2>2, <3>4, <4>1 DEF Lost, Pending
      <4> QED BY <1>0, <2>2, <3>2, <4>2, NothingLost DEF Counted, Slack
    <3> QED BY <3>1, <3>3, <3>4
  <2> QED BY <2>4, <2>5
<1>3. CASE PutAccepted
  <2> DEFINE s == handler.symbol
  <2>1. s \in Symbols /\ handler.pc = "put"
        /\ UNCHANGED <<received, batch, stored, dropped, droppedRequeued, stop>>
        /\ queue' = [queue EXCEPT ![s] = Append(queue[s], received[s])]
    BY <1>3 DEF PutAccepted, Shape, HandlerOwns
  <2>2. Elements(queue'[x]) = Elements(queue[x]) \cup IF x = s THEN {received[x]} ELSE {}
    <3>1. CASE x = s
      <4>1. queue'[x] = Append(queue[x], received[x])
        BY <2>1, <3>1 DEF Shape, TypeOK
      <4> QED BY <1>0, <3>1, <4>1, ElementsAppend
    <3>2. CASE x # s
      <4>1. queue'[x] = queue[x]
        BY <2>1, <3>2 DEF Shape, TypeOK
      <4> QED BY <3>2, <4>1
    <3> QED BY <3>1, <3>2
  <2>3. InHand(x) = IF x = s THEN {received[x]} ELSE {}
    BY <2>1 DEF InHand
  <2> HIDE DEF s
  <2>4. Lost(x)' \subseteq Lost(x)
    BY <2>1, <2>2, <2>3 DEF Lost, Pending
  <2> QED BY <1>0, <2>1, <2>4, NothingLost DEF Counted, Slack
<1>4. CASE PutTimedOut
  <2> DEFINE s == handler.symbol
  <2>1. s \in Symbols /\ handler.pc = "put" /\ UNCHANGED <<received, batch, stored, droppedRequeued, stop>>
    BY <1>4 DEF PutTimedOut, Shape, HandlerOwns
  <2>2. InHand(x) = IF x = s THEN {received[x]} ELSE {}
    BY <2>1 DEF InHand
  <2>3. CASE x # s
    <3>1. queue'[x] = queue[x] /\ dropped'[x] = dropped[x]
      BY <1>4, <2>3 DEF PutTimedOut, Shape, TypeOK
    <3>2. Lost(x)' \subseteq Lost(x)
      BY <2>1, <2>2, <2>3, <3>1 DEF Lost, Pending
    <3> QED BY <1>0, <2>1, <3>1, <3>2, NothingLost DEF Counted, Slack
  <2>4. CASE x = s /\ queue[x] = <<>>
    <3>1. queue'[x] = <<received[x]>> /\ dropped'[x] = dropped[x]
      BY <1>4, <2>4 DEF PutTimedOut, Shape, TypeOK
    <3>2. Elements(queue[x]) = {} /\ Elements(queue'[x]) = {received[x]}
      BY <2>4, <3>1 DEF Elements
    <3>3. Lost(x)' \subseteq Lost(x)
      BY <2>1, <2>2, <2>4, <3>2 DEF Lost, Pending
    <3> QED BY <1>0, <2>1, <3>1, <3>3, NothingLost DEF Counted, Slack
  <2>5. CASE x = s /\ queue[x] # <<>>
    <3>1. queue'[x] = Append(Tail(queue[x]), received[x]) /\ dropped'[x] = dropped[x] + 1
      BY <1>4, <2>5 DEF PutTimedOut, Shape, TypeOK
    <3>2. Tail(queue[x]) \in Seq(Nat)
      BY <1>0, <2>5, HeadTailProperties
    <3>3. Elements(queue'[x]) = Elements(Tail(queue[x])) \cup {received[x]}
      BY <1>0, <3>1, <3>2, ElementsAppend
    <3>4. Elements(queue[x]) = {Head(queue[x])} \cup Elements(Tail(queue[x]))
      BY <1>0, <2>5, ElementsTail
    <3>5. Lost(x)' \subseteq Lost(x) \cup {Head(queue[x])}
      BY <2>1, <2>2, <2>5, <3>3, <3>4 DEF Lost, Pending
    <3>6. IsFiniteSet({Head(queue[x])}) /\ Cardinality({Head(queue[x])}) = 1
      BY FS_Singleton
    <3>7. Counted(x) + Slack + Cardinality({Head(queue[x])}) <= (Counted(x) + Slack)'
      BY <1>0, <2>1, <3>1, <3>6 DEF Counted, Slack
    <3> QED BY <3>5, <3>6, <3>7, LossGrows
  <2> QED BY <2>3, <2>4, <2>5
<1>5. CASE BackpressureAlerted
  <2>1. UNCHANGED <<queue, received, batch, stored, dropped, droppedRequeued, stop>> /\ InHand(x) = {}
    BY <1>5 DEF BackpressureAlerted, InHand
  <2>2. Lost(x)' \subseteq Lost(x)
    BY <2>1 DEF Lost, Pending
  <2> QED BY <1>0, <2>1, <2>2, NothingLost DEF Counted, Slack
<1> QED BY <1>1, <1>2, <1>3, <1>4, <1>5 DEF HandlerTask

\* The steps of the writer and of stop(): a failed flush counts what does not
\* fit any more, and stop() loses what Slack excuses.
LEMMA WriterLoss == ASSUME Shape, Shape', LossInv, WriterTask \/ StopTask PROVE LossInv'
<1> SUFFICES ASSUME NEW x \in Symbols PROVE Cardinality(Lost(x)') <= (Counted(x) + Slack)'
  BY DEF LossInv
<1>0. /\ queue[x] \in Seq(Nat) /\ batch[x] \in Seq(Nat) /\ Len(batch[x]) \in Nat
      /\ Len(batch[x]) <= BatchLimit /\ BatchLimit \in Nat /\ received[x] \in Nat
      /\ dropped[x] \in Nat /\ droppedRequeued[x] \in Nat /\ Counted(x) \in Nat /\ Slack \in Nat
  <2>1. Slack \in Nat
    BY BatchLimitAssumption DEF Slack
  <2>2. /\ queue[x] \in Seq(Nat) /\ batch[x] \in Seq(Nat) /\ received[x] \in Nat
        /\ dropped[x] \in Nat /\ droppedRequeued[x] \in Nat /\ Len(batch[x]) <= BatchLimit
    BY MaxTradeAssumption DEF Shape, TypeOK
  <2> QED BY <2>1, <2>2, BatchLimitAssumption DEF Counted
<1>1. CASE FlushStarted \/ FinalFlush
  <2>1. UNCHANGED <<received, handler, stored, dropped, droppedRequeued>> /\ DrainTrades
    BY <1>1 DEF FlushStarted, FinalFlush
  <2>2. Elements(queue'[x]) \cup Elements(batch'[x]) = Elements(queue[x])
    BY <2>1, DrainProperties
  <2>3. batch[x] = <<>> /\ Elements(batch[x]) = {}
    BY <1>1 DEF Shape, BatchRests, FlushStarted, FinalFlush, Stopping, Elements
  <2>4. Lost(x)' \subseteq Lost(x)
    BY <2>1, <2>2, <2>3 DEF Lost, Pending, InHand
  <2>5. Counted(x)' = Counted(x) /\ Slack <= Slack' /\ Slack' \in Nat
    BY <1>0, <1>1, <2>1 DEF Counted, Slack, FlushStarted, FinalFlush, Stopping
  <2>6. Counted(x) + Slack <= (Counted(x) + Slack)'
    BY <1>0, <2>5
  <2> QED BY <2>4, <2>6, NothingLost
<1>2. CASE FlushStored \/ FinalStored
  <2>1. UNCHANGED <<queue, received, handler, dropped, droppedRequeued>> /\ stored'[x] = stored[x] \cup Elements(batch[x])
    BY <1>2 DEF FlushStored, FinalStored, StoreBatch
  <2>2. Lost(x)' \subseteq Lost(x)
    BY <2>1 DEF Lost, Pending, InHand
  <2>3. Counted(x)' = Counted(x) /\ Slack <= Slack' /\ Slack' \in Nat
    BY <1>0, <1>2, <2>1 DEF Counted, Slack, FlushStored, FinalStored
  <2>4. Counted(x) + Slack <= (Counted(x) + Slack)'
    BY <1>0, <2>3
  <2> QED BY <2>2, <2>4, NothingLost
<1>3. CASE FlushFailed \/ FinalFailed
  <2>1. /\ UNCHANGED <<received, handler, dropped>> /\ RequeueTrades
        /\ stored[x] \subseteq stored'[x]
    BY <1>3 DEF FlushFailed, FinalFailed, StoreBatch
  <2>2. PICK k \in 0..Len(batch[x]) :
           /\ queue'[x] = queue[x] \o SubSeq(batch[x], 1, k)
           /\ droppedRequeued'[x] = droppedRequeued[x] + (Len(batch[x]) - k)
    BY <2>1, RequeueProperties
  <2> DEFINE kept == SubSeq(batch[x], 1, k)
             rest == SubSeq(batch[x], k + 1, Len(batch[x]))
  <2>3. kept \in Seq(Nat) /\ rest \in Seq(Nat) /\ Len(rest) = Len(batch[x]) - k
    BY <1>0, SplitProperties
  <2>4. Elements(kept) \cup Elements(rest) = Elements(batch[x])
    BY <1>0, ElementsSplit
  <2>5. Elements(queue'[x]) = Elements(queue[x]) \cup Elements(kept)
    BY <1>0, <2>2, <2>3, ElementsConcat
  <2> HIDE DEF kept, rest
  <2>6. Lost(x)' \subseteq Lost(x) \cup Elements(rest)
    BY <2>1, <2>4, <2>5 DEF Lost, Pending, InHand
  <2>7. /\ IsFiniteSet(Elements(rest)) /\ Cardinality(Elements(rest)) \in Nat
        /\ Cardinality(Elements(rest)) <= Len(batch[x]) - k
    BY <2>3, ElementsCardinality
  <2>8. Counted(x)' = Counted(x) + (Len(batch[x]) - k)
    BY <1>0, <2>1, <2>2 DEF Counted
  <2>9. Slack <= Slack' /\ Slack' \in Nat
    BY <1>0, <1>3 DEF Slack, FlushFailed, FinalFailed
  <2>10. Counted(x) + Slack + Cardinality(Elements(rest)) <= (Counted(x) + Slack)'
    BY <1>0, <2>7, <2>8, <2>9
  <2> QED BY <2>6, <2>7, <2>10, LossGrows
<1>4. CASE FlushAlerted \/ WriterExits \/ StopCalled \/ WriterJoined \/ StaysStopped
  <2>1. UNCHANGED <<queue, received, handler, batch, stored, dropped, droppedRequeued>>
    BY <1>4 DEF FlushAlerted, WriterExits, StopCalled, WriterJoined, StaysStopped, vars
  <2>2. Lost(x)' \subseteq Lost(x)
    BY <2>1 DEF Lost, Pending, InHand
  <2>3. Counted(x)' = Counted(x) /\ Slack <= Slack' /\ Slack' \in Nat
    BY <1>0, <1>4, <2>1 DEF Counted, Slack, FlushAlerted, WriterExits, StopCalled, WriterJoined, StaysStopped, vars
  <2>4. Counted(x) + Slack <= (Counted(x) + Slack)'
    BY <1>0, <2>3
  <2> QED BY <2>2, <2>4, NothingLost
<1>5. CASE HandlerCancelled
  <2>1. /\ UNCHANGED <<queue, received, batch, stored, dropped, droppedRequeued>>
        /\ stop = "cancel_tasks" /\ stop' = "join_writer"
    BY <1>5 DEF HandlerCancelled
  <2>2. Lost(x)' \subseteq Lost(x) \cup {received[x]}
    BY <2>1 DEF Lost, Pending, InHand
  <2>3. IsFiniteSet({received[x]}) /\ Cardinality({received[x]}) = 1
    BY FS_Singleton
  <2>4. Counted(x)' = Counted(x) /\ Slack = 0 /\ Slack' = 1
    BY <2>1 DEF Counted, Slack
  <2>5. Counted(x) + Slack + Cardinality({received[x]}) <= (Counted(x) + Slack)'
    BY <1>0, <2>3, <2>4
  <2> QED BY <2>2, <2>3, <2>5, LossGrows
<1>6. CASE WriterCancelled \/ FinalTimedOut
  <2>1. UNCHANGED <<queue, received, handler, dropped, droppedRequeued>> /\ stored[x] \subseteq stored'[x]
    BY <1>6 DEF WriterCancelled, FinalTimedOut, StoreBatch
  <2>2. Lost(x)' \subseteq Lost(x) \cup Elements(batch[x])
    BY <2>1 DEF Lost, Pending, InHand
  <2>3. /\ IsFiniteSet(Elements(batch[x])) /\ Cardinality(Elements(batch[x])) \in Nat
        /\ Cardinality(Elements(batch[x])) <= BatchLimit
    BY <1>0, ElementsCardinality
  <2>4. Counted(x)' = Counted(x) /\ Slack' = Slack + BatchLimit
    BY <1>0, <1>6, <2>1 DEF Counted, Slack, WriterCancelled, FinalTimedOut
  <2>5. Counted(x) + Slack + Cardinality(Elements(batch[x])) <= (Counted(x) + Slack)'
    BY <1>0, <2>3, <2>4
  <2> QED BY <2>2, <2>3, <2>5, LossGrows
<1> QED BY <1>1, <1>2, <1>3, <1>4, <1>5, <1>6 DEF WriterTask, StopTask

LEMMA LossStep == ASSUME Shape, LossInv, [Next]_vars PROVE LossInv'
<1>1. CASE UNCHANGED vars
  BY <1>1 DEF vars, LossInv, Lost, Pending, InHand, Counted, Slack
<1> QED BY <1>1, ShapeStep, HandlerLoss, WriterLoss DEF Next

LEMMA LossInvariance == Spec => []LossInv
<1>1. Init => LossInv
  <2> SUFFICES ASSUME Init, NEW s \in Symbols PROVE Cardinality(Lost(s)) <= Counted(s) + Slack
    BY DEF LossInv
  <2>1. Lost(s) = {}
    BY DEF Init, Lost
  <2> QED BY <2>1, FS_EmptySet DEF Init, Counted, Slack
<1> QED BY <1>1, ShapeInvariance, LossStep, PTL DEF Spec

\* While the engine runs, the drop counters account for every trade that is
\* nowhere any more, for any number of symbols that share the writer.
THEOREM LossesAreCounted == Spec => []LossesCounted
<1>1. Shape /\ LossInv => LossesCounted
  <2> SUFFICES ASSUME Shape, LossInv, ~Stopping, NEW s \in Symbols PROVE Cardinality(Lost(s)) <= Counted(s)
    BY DEF LossesCounted
  <2>1. Slack = 0 /\ Counted(s) \in Nat /\ Cardinality(Lost(s)) <= Counted(s) + Slack
    BY DEF Slack, Stopping, Shape, TypeOK, Counted, LossInv
  <2> QED BY <2>1
<1> QED BY <1>1, ShapeInvariance, LossInvariance, PTL

\* stop() loses no more without counting it than the trade in hand and two
\* batches of each symbol.
THEOREM StopLossIsBounded == Spec => []StopLossBounded
<1>1. Shape /\ LossInv => StopLossBounded
  <2> SUFFICES ASSUME Shape, LossInv, NEW s \in Symbols
               PROVE  Cardinality(Lost(s)) <= Counted(s) + 2 * BatchLimit + 1
    BY DEF StopLossBounded
  <2>1. Cardinality(Lost(s)) \in Nat
    BY LostFinite, FS_CardinalityType
  <2>2. BatchLimit \in Nat /\ Counted(s) \in Nat /\ Slack \in 0..(2 * BatchLimit + 1)
    BY BatchLimitAssumption DEF Slack, Shape, TypeOK, Counted
  <2> QED BY <2>1, <2>2 DEF LossInv
<1> QED BY <1>1, ShapeInvariance, LossInvariance, PTL

-----------------------------------------------------------------------------
(* Copies. *)

Unrepeated(q) == \A i, j \in 1..Len(q) : q[i] = q[j] => i = j

LEMMA UnrepeatedConcat ==
  ASSUME NEW q \in Seq(Nat), NEW r \in Seq(Nat), Unrepeated(q), Unrepeated(r),
         Elements(q) \cap Elements(r) = {}
  PROVE  Unrepeated(q \o r)
<1>1. /\ Len(q \o r) = Len(q) + Len(r) /\ Len(q) \in Nat /\ Len(r) \in Nat
      /\ \A i \in 1..(Len(q) + Len(r)) : (q \o r)[i] = IF i <= Len(q) THEN q[i] ELSE r[i - Len(q)]
  BY ConcatProperties
<1>2. \A i \in 1..Len(q), j \in 1..Len(r) : q[i] # r[j]
  BY DEF Elements
<1> SUFFICES ASSUME NEW i \in 1..Len(q \o r), NEW j \in 1..Len(q \o r), (q \o r)[i] = (q \o r)[j]
             PROVE  i = j
  BY DEF Unrepeated
<1>3. CASE i <= Len(q) /\ j <= Len(q)
  <2>1. i \in 1..Len(q) /\ j \in 1..Len(q) /\ q[i] = q[j]
    BY <1>1, <1>3
  <2> QED BY <2>1 DEF Unrepeated
<1>4. CASE i <= Len(q) /\ ~(j <= Len(q))
  <2>1. i \in 1..Len(q) /\ j - Len(q) \in 1..Len(r) /\ q[i] = r[j - Len(q)]
    BY <1>1, <1>4
  <2> QED BY <2>1, <1>2
<1>5. CASE ~(i <= Len(q)) /\ j <= Len(q)
  <2>1. j \in 1..Len(q) /\ i - Len(q) \in 1..Len(r) /\ q[j] = r[i - Len(q)]
    BY <1>1, <1>5
  <2> QED BY <2>1, <1>2
<1>6. CASE ~(i <= Len(q)) /\ ~(j <= Len(q))
  <2>1. i - Len(q) \in 1..Len(r) /\ j - Len(q) \in 1..Len(r) /\ r[i - Len(q)] = r[j - Len(q)]
    BY <1>1, <1>6
  <2>2. i - Len(q) = j - Len(q)
    BY <2>1 DEF Unrepeated
  <2> QED BY <1>1, <2>2
<1> QED BY <1>3, <1>4, <1>5, <1>6

LEMMA UnrepeatedAppend ==
  ASSUME NEW q \in Seq(Nat), NEW t \in Nat, Unrepeated(q), t \notin Elements(q)
  PROVE  Unrepeated(Append(q, t))
<1>1. Append(q, t) = q \o <<t>> /\ <<t>> \in Seq(Nat)
  BY AppendIsConcat
<1>2. Unrepeated(<<t>>) /\ Elements(<<t>>) = {t}
  BY DEF Unrepeated, Elements
<1> QED BY <1>1, <1>2, UnrepeatedConcat

LEMMA UnrepeatedTail ==
  ASSUME NEW q \in Seq(Nat), q # <<>>, Unrepeated(q)
  PROVE  Unrepeated(Tail(q))
<1>1. /\ Len(q) \in Nat /\ Len(Tail(q)) = Len(q) - 1
      /\ \A i \in 1..Len(Tail(q)) : Tail(q)[i] = q[i + 1]
  BY HeadTailProperties
<1> SUFFICES ASSUME NEW i \in 1..Len(Tail(q)), NEW j \in 1..Len(Tail(q)), Tail(q)[i] = Tail(q)[j]
             PROVE  i = j
  BY DEF Unrepeated
<1>2. i + 1 \in 1..Len(q) /\ j + 1 \in 1..Len(q) /\ q[i + 1] = q[j + 1]
  BY <1>1
<1>3. i + 1 = j + 1
  BY <1>2 DEF Unrepeated
<1> QED BY <1>1, <1>3

LEMMA UnrepeatedSplit ==
  ASSUME NEW q \in Seq(Nat), NEW k \in 0..Len(q), Unrepeated(q)
  PROVE  /\ Unrepeated(SubSeq(q, 1, k)) /\ Unrepeated(SubSeq(q, k + 1, Len(q)))
         /\ Elements(SubSeq(q, 1, k)) \cap Elements(SubSeq(q, k + 1, Len(q))) = {}
<1> DEFINE a == SubSeq(q, 1, k)
           z == SubSeq(q, k + 1, Len(q))
<1>1. /\ Len(a) = k /\ \A i \in 1..k : a[i] = q[i]
      /\ Len(z) = Len(q) - k /\ \A i \in 1..(Len(q) - k) : z[i] = q[k + i]
      /\ Len(q) \in Nat
  BY SplitProperties
<1> HIDE DEF a, z
<1>2. \A i \in 1..Len(a) : i \in 1..Len(q) /\ a[i] = q[i]
  BY <1>1
<1>3. \A i \in 1..Len(z) : k + i \in 1..Len(q) /\ z[i] = q[k + i]
  BY <1>1
<1>4. Unrepeated(a)
  BY <1>2 DEF Unrepeated
<1>5. Unrepeated(z)
  <2> SUFFICES ASSUME NEW i \in 1..Len(z), NEW j \in 1..Len(z), z[i] = z[j] PROVE i = j
    BY DEF Unrepeated
  <2>1. k + i = k + j
    BY <1>3 DEF Unrepeated
  <2> QED BY <2>1
<1>6. ASSUME NEW i \in 1..Len(a), NEW j \in 1..Len(z) PROVE a[i] # z[j]
  <2>1. i # k + j
    BY <1>1
  <2> QED BY <1>2, <1>3, <2>1 DEF Unrepeated
<1>7. Elements(a) \cap Elements(z) = {}
  BY <1>6 DEF Elements
<1> QED BY <1>4, <1>5, <1>7 DEF a, z

\* The queue, the batch and the hand of a symbol share nothing.
Apart(s) ==
  /\ Unrepeated(queue[s]) /\ Unrepeated(batch[s])
  /\ Elements(queue[s]) \cap Elements(batch[s]) = {}
  /\ Elements(queue[s]) \cup Elements(batch[s]) \subseteq (1..received[s]) \ InHand(s)
  /\ InHand(s) \subseteq 1..received[s]

CopyInv == \A s \in Symbols : Apart(s)

\* The handler puts the trade it holds into the queue, and lets go of it.
LEMMA HandlerApart == ASSUME Shape, CopyInv, HandlerTask PROVE CopyInv'
<1> SUFFICES ASSUME NEW x \in Symbols PROVE Apart(x)'
  BY DEF CopyInv
<1>0. /\ queue[x] \in Seq(Nat) /\ received[x] \in Nat /\ Apart(x)
  BY MaxTradeAssumption DEF Shape, TypeOK, CopyInv
<1>1. CASE \E s \in Symbols : TradeReceived(s)
  <2>1. PICK s \in Symbols : TradeReceived(s)
    BY <1>1
  <2>2. /\ received' = [received EXCEPT ![s] = @ + 1] /\ handler'.pc = "publish" /\ handler'.symbol = s
        /\ UNCHANGED <<queue, batch>>
    BY <2>1 DEF TradeReceived, Handler
  <2>3. received'[x] = IF x = s THEN received[x] + 1 ELSE received[x]
    BY <2>2 DEF Shape, TypeOK
  <2>4. InHand(x)' = IF x = s THEN {received[x] + 1} ELSE {}
    BY <2>2, <2>3 DEF InHand
  <2>5. 1..received[x] \subseteq (1..received'[x]) \ InHand(x)' /\ InHand(x)' \subseteq 1..received'[x]
    BY <1>0, <2>3, <2>4
  <2> QED BY <1>0, <2>2, <2>5 DEF Apart
<1>2. CASE TradePublished \/ PutAccepted
  <2> DEFINE s == handler.symbol
  <2>1. handler.pc \in {"publish", "put"} /\ UNCHANGED <<received, batch>>
    BY <1>2 DEF TradePublished, PutAccepted
  <2>2. InHand(x) = IF x = s THEN {received[x]} ELSE {}
    BY <2>1 DEF InHand
  <2>3. InHand(x)' \subseteq InHand(x)
    BY <1>2, <2>1, <2>2 DEF TradePublished, PutAccepted, InHand, NextPayload, Handler
  <2>4. \/ UNCHANGED queue
        \/ /\ queue' = [queue EXCEPT ![s] = Append(queue[s], received[s])]
           /\ handler'.pc \notin {"publish", "put"}
    BY <1>2 DEF TradePublished, PutAccepted, NextPayload, Handler
  <2>5. CASE queue'[x] = queue[x]
    BY <1>0, <2>1, <2>3, <2>5 DEF Apart
  <2>6. CASE x = s /\ queue'[x] = Append(queue[x], received[x]) /\ InHand(x)' = {}
    <3>1. received[x] \notin Elements(queue[x]) /\ received[x] \notin Elements(batch[x])
      BY <1>0, <2>2, <2>6 DEF Apart
    <3>2. Unrepeated(queue'[x]) /\ Elements(queue'[x]) = Elements(queue[x]) \cup {received[x]}
      BY <1>0, <2>6, <3>1, UnrepeatedAppend, ElementsAppend DEF Apart
    <3>3. received[x] \in 1..received[x]
      BY <1>0, <2>2, <2>6 DEF Apart
    <3> QED BY <1>0, <2>1, <2>6, <3>1, <3>2, <3>3 DEF Apart
  <2> QED BY <2>4, <2>5, <2>6 DEF Shape, TypeOK, InHand
<1>3. CASE PutTimedOut
  <2> DEFINE s == handler.symbol
  <2>1. handler.pc = "put" /\ UNCHANGED <<received, batch>> /\ InHand(x)' = {}
    BY <1>3 DEF PutTimedOut, Handler, InHand
  <2>2. InHand(x) = IF x = s THEN {received[x]} ELSE {}
    BY <2>1 DEF InHand
  <2>3. CASE x # s
    <3>1. queue'[x] = queue[x]
      BY <1>3, <2>3 DEF PutTimedOut, Shape, TypeOK
    <3> QED BY <1>0, <2>1, <2>2, <2>3, <3>1 DEF Apart
  <2>4. CASE x = s
    <3>1. /\ received[x] \notin Elements(queue[x]) /\ received[x] \notin Elements(batch[x])
          /\ received[x] \in 1..received[x]
      BY <1>0, <2>2, <2>4 DEF Apart
    <3>2. CASE queue[x] = <<>>
      <4>1. queue'[x] = <<received[x]>>
        BY <1>3, <2>4, <3>2 DEF PutTimedOut, Shape, TypeOK
      <4>2. Unrepeated(queue'[x]) /\ Elements(queue'[x]) = {received[x]}
        BY <4>1 DEF Unrepeated, Elements
      <4> QED BY <1>0, <2>1, <3>1, <4>2 DEF Apart
    <3>3. CASE queue[x] # <<>>
      <4>1. queue'[x] = Append(Tail(queue[x]), received[x])
        BY <1>3, <2>4, <3>3 DEF PutTimedOut, Shape, TypeOK
      <4>2. Tail(queue[x]) \in Seq(Nat) /\ Elements(Tail(queue[x])) \subseteq Elements(queue[x])
        BY <1>0, <3>3, HeadTailProperties, ElementsTail
      <4>3. Unrepeated(Tail(queue[x]))
        BY <1>0, <3>3, UnrepeatedTail DEF Apart
      <4>4. /\ Unrepeated(queue'[x])
            /\ Elements(queue'[x]) = Elements(Tail(queue[x])) \cup {received[x]}
        <5>1. received[x] \notin Elements(Tail(queue[x]))
          BY <3>1, <4>2
        <5>2. Unrepeated(queue'[x])
          BY <1>0, <4>1, <4>2, <4>3, <5>1, UnrepeatedAppend
        <5> QED BY <1>0, <4>1, <4>2, <5>2, ElementsAppend
      <4> QED BY <1>0, <2>1, <3>1, <4>2, <4>4 DEF Apart
    <3> QED BY <3>2, <3>3
  <2> QED BY <2>3, <2>4
<1>4. CASE BackpressureAlerted
  BY <1>0, <1>4 DEF BackpressureAlerted, Apart, InHand, NextPayload, Handler
<1> QED BY <1>1, <1>2, <1>3, <1>4 DEF HandlerTask

\* A drained batch is cut from the queue, and a requeued one joins it again.
LEMMA WriterApart == ASSUME Shape, CopyInv, WriterTask \/ StopTask PROVE CopyInv'
<1> SUFFICES ASSUME NEW x \in Symbols PROVE Apart(x)'
  BY DEF CopyInv
<1>0. /\ queue[x] \in Seq(Nat) /\ batch[x] \in Seq(Nat) /\ Len(queue[x]) \in Nat /\ Len(batch[x]) \in Nat
      /\ received[x] \in Nat /\ Apart(x)
  BY MaxTradeAssumption DEF Shape, TypeOK, CopyInv
<1>1. CASE FlushStarted \/ FinalFlush
  <2> DEFINE k == Least(BatchLimit, Len(queue[x]))
  <2>1. UNCHANGED <<received, handler>> /\ DrainTrades
    BY <1>1 DEF FlushStarted, FinalFlush
  <2>2. k \in 0..Len(queue[x])
    BY <1>0, BatchLimitAssumption DEF Least
  <2>3. batch'[x] = SubSeq(queue[x], 1, k) /\ queue'[x] = SubSeq(queue[x], k + 1, Len(queue[x]))
    BY <2>1 DEF DrainTrades
  <2> HIDE DEF k
  <2>4. Elements(batch'[x]) \cup Elements(queue'[x]) = Elements(queue[x])
    BY <1>0, <2>2, <2>3, ElementsSplit
  <2>5. /\ Unrepeated(batch'[x]) /\ Unrepeated(queue'[x])
        /\ Elements(batch'[x]) \cap Elements(queue'[x]) = {}
    BY <1>0, <2>2, <2>3, UnrepeatedSplit DEF Apart
  <2>6. InHand(x)' = InHand(x)
    BY <2>1 DEF InHand
  <2> QED BY <1>0, <2>1, <2>4, <2>5, <2>6 DEF Apart
<1>2. CASE FlushStored \/ FinalStored \/ WriterCancelled \/ FinalTimedOut
  <2>1. UNCHANGED <<queue, received, handler>> /\ batch'[x] = <<>>
    BY <1>2 DEF FlushStored, FinalStored, WriterCancelled, FinalTimedOut, NoBatch
  <2>2. Unrepeated(batch'[x]) /\ Elements(batch'[x]) = {} /\ InHand(x)' = InHand(x)
    BY <2>1 DEF Unrepeated, Elements, InHand
  <2> QED BY <1>0, <2>1, <2>2 DEF Apart
<1>3. CASE FlushFailed \/ FinalFailed
  <2>1. UNCHANGED <<received, handler>> /\ RequeueTrades
    BY <1>3 DEF FlushFailed, FinalFailed
  <2>2. PICK k \in 0..Len(batch[x]) : queue'[x] = queue[x] \o SubSeq(batch[x], 1, k)
    BY <2>1, RequeueProperties
  <2>3. batch'[x] = <<>>
    BY <2>1, RequeueProperties
  <2> DEFINE kept == SubSeq(batch[x], 1, k)
  <2>4. kept \in Seq(Nat) /\ Elements(kept) \subseteq Elements(batch[x])
    BY <1>0, SplitProperties, ElementsSplit
  <2>5. Unrepeated(kept)
    BY <1>0, UnrepeatedSplit DEF Apart
  <2>6. queue'[x] = queue[x] \o kept
    BY <2>2
  <2> HIDE DEF kept
  <2>7. Elements(queue[x]) \cap Elements(kept) = {}
    BY <1>0, <2>4 DEF Apart
  <2>8. Unrepeated(queue'[x]) /\ Elements(queue'[x]) = Elements(queue[x]) \cup Elements(kept)
    BY <1>0, <2>4, <2>5, <2>6, <2>7, UnrepeatedConcat, ElementsConcat DEF Apart
  <2>9. Unrepeated(batch'[x]) /\ Elements(batch'[x]) = {} /\ InHand(x)' = InHand(x)
    BY <2>1, <2>3 DEF Unrepeated, Elements, InHand
  <2> QED BY <1>0, <2>1, <2>4, <2>8, <2>9 DEF Apart
<1>4. CASE FlushAlerted \/ WriterExits \/ StopCalled \/ WriterJoined \/ StaysStopped
  <2>1. UNCHANGED <<queue, received, handler, batch>>
    BY <1>4 DEF FlushAlerted, WriterExits, StopCalled, WriterJoined, StaysStopped, vars
  <2> QED BY <1>0, <2>1 DEF Apart, InHand
<1>5. CASE HandlerCancelled
  <2>1. UNCHANGED <<queue, received, batch>> /\ InHand(x)' = {}
    BY <1>5 DEF HandlerCancelled, Handler, InHand
  <2> QED BY <1>0, <2>1 DEF Apart
<1> QED BY <1>1, <1>2, <1>3, <1>4, <1>5 DEF WriterTask, StopTask

LEMMA CopyInvariance == Spec => []CopyInv
<1>1. Init => CopyInv
  BY DEF Init, CopyInv, Apart, Unrepeated, Elements, NoBatch, InHand, Handler
<1>2. Shape /\ CopyInv /\ [Next]_vars => CopyInv'
  <2>1. ASSUME CopyInv, UNCHANGED vars PROVE CopyInv'
    BY <2>1 DEF vars, CopyInv, Apart, InHand
  <2> QED BY <2>1, HandlerApart, WriterApart DEF Next
<1> QED BY <1>1, <1>2, ShapeInvariance, PTL DEF Spec

\* However often a batch is requeued and whatever is put meanwhile, no trade
\* is in the pipeline twice.
THEOREM NothingTwice == Spec => []NoCopies
<1>1. Shape /\ CopyInv => NoCopies
  <2> SUFFICES ASSUME Shape, CopyInv, NEW s \in Symbols
               PROVE  Cardinality(Pending(s)) = Len(queue[s]) + Len(batch[s]) + Cardinality(InHand(s))
    BY DEF NoCopies
  <2> DEFINE q == Elements(queue[s])
             b == Elements(batch[s])
             h == InHand(s)
  <2>1. /\ queue[s] \in Seq(Nat) /\ batch[s] \in Seq(Nat)
        /\ Len(queue[s]) \in Nat /\ Len(batch[s]) \in Nat /\ Apart(s)
    BY DEF Shape, TypeOK, CopyInv
  <2>2. IsFiniteSet(q) /\ Cardinality(q) = Len(queue[s]) /\ IsFiniteSet(b) /\ Cardinality(b) = Len(batch[s])
    BY <2>1, ElementsCardinality DEF Apart, Unrepeated
  <2>3. q \cap b = {} /\ (q \cup b) \cap h = {}
    BY <2>1 DEF Apart
  <2>4. IsFiniteSet(h) /\ Cardinality(h) \in Nat
    BY FS_EmptySet, FS_Singleton, FS_CardinalityType DEF InHand
  <2>5. Pending(s) = (q \cup b) \cup h
    BY DEF Pending
  <2> HIDE DEF q, b, h
  <2>6. IsFiniteSet(q \cup b) /\ Cardinality(q \cup b) = Cardinality(q) + Cardinality(b) - Cardinality(q \cap b)
    BY <2>2, FS_Union
  <2>7. Cardinality((q \cup b) \cup h) = Cardinality(q \cup b) + Cardinality(h) - Cardinality((q \cup b) \cap h)
    BY <2>4, <2>6, FS_Union
  <2>8. Cardinality({}) = 0
    BY FS_EmptySet
  <2>9. Cardinality(Pending(s)) = Len(queue[s]) + Len(batch[s]) + Cardinality(h)
    <3>0. Cardinality(q \cap b) = 0 /\ Cardinality((q \cup b) \cap h) = 0
      BY <2>3, <2>8
    <3>1. Cardinality(q \cup b) = Len(queue[s]) + Len(batch[s])
      <4>1. Cardinality(q \cup b) = Len(queue[s]) + Len(batch[s]) - 0
        BY <2>2, <2>6, <3>0
      <4> QED BY <2>1, <4>1
    <3>2. Cardinality((q \cup b) \cup h) = Cardinality(q \cup b) + Cardinality(h)
      <4>1. Cardinality((q \cup b) \cup h) = Cardinality(q \cup b) + Cardinality(h) - 0
        BY <2>7, <3>0
      <4>2. Cardinality(q \cup b) \in Nat
        BY <2>6, FS_CardinalityType
      <4> QED BY <2>4, <4>1, <4>2
    <3> QED BY <2>5, <3>1, <3>2
  <2> QED BY <2>9 DEF h
<1> QED BY <1>1, ShapeInvariance, CopyInvariance, PTL
=============================================================================
