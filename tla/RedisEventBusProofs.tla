------------------------ MODULE RedisEventBusProofs ------------------------
(***************************************************************************)
(* The members of a consumer group forget no message, for every number of  *)
(* consumers and entries, whatever is poison or not text, however many     *)
(* answers are lost and consumers crash, and wherever the stream is cut.   *)
(***************************************************************************)
EXTENDS RedisEventBus, FiniteSetTheorems, WellFoundedInduction, TLAPS

-----------------------------------------------------------------------------
(* Sets of entries. *)

LEMMA LeastEntry ==
  ASSUME NEW S, S \subseteq Nat, S # {}
  PROVE  \E n \in S : \A m \in S : n <= m
<1>1. PICK n \in S : \A m \in S : ~(<<m, n>> \in OpToRel(<, Nat))
  BY WFMin, NatLessThanWellFounded
<1>2. \A m \in S : m < n => <<m, n>> \in OpToRel(<, Nat)
  BY DEF OpToRel
<1>3. \A m \in S : n \in Nat /\ m \in Nat /\ ~(m < n)
  BY <1>1, <1>2
<1>4. \A m \in S : n <= m
  BY <1>3
<1> QED BY <1>4

LEMMA EntriesAreNumbers == Ids \subseteq Int /\ \A i \in Ids : 1 <= i /\ i <= MaxEntry
  BY BoundsAssumption DEF Ids

LEMMA GreatestEntry ==
  ASSUME NEW S, S \subseteq Ids, S # {}
  PROVE  \E n \in S : \A m \in S : n >= m
<1> DEFINE T == {MaxEntry - m : m \in S}
<1>1. MaxEntry \in Nat /\ \A m \in S : m \in 1..MaxEntry
  BY BoundsAssumption DEF Ids
<1>2. T \subseteq Nat /\ T # {}
  BY <1>1
<1>3. PICK t \in T : \A u \in T : t <= u
  BY <1>2, LeastEntry
<1>4. PICK n \in S : t = MaxEntry - n
  BY <1>3
<1>5. \A m \in S : MaxEntry - n <= MaxEntry - m
  BY <1>3, <1>4
<1>6. \A m \in S : n >= m
  BY <1>1, <1>5
<1> QED BY <1>6

LEMMA FirstOf ==
  ASSUME NEW S, S \subseteq Ids, S # {}
  PROVE  First(S) \in S /\ \A j \in S : First(S) <= j
<1>0. S \subseteq Nat
  BY BoundsAssumption DEF Ids
<1>1. \E i \in S : \A j \in S : i <= j
  BY <1>0, LeastEntry
<1> QED BY <1>1 DEF First

LEMMA EntriesFinite ==
  ASSUME NEW S, S \subseteq Ids
  PROVE  IsFiniteSet(S) /\ Cardinality(S) \in Nat
<1>1. IsFiniteSet(Ids)
  BY BoundsAssumption, FS_Interval DEF Ids
<1>2. IsFiniteSet(S)
  BY <1>1, FS_Subset
<1> QED BY <1>2, FS_CardinalityType

\* The first few are a beginning of the set, and no more than asked for.
LEMMA FewProperties ==
  ASSUME NEW S, S \subseteq Ids, NEW n \in Nat
  PROVE  /\ FirstFew(S, n) \subseteq S
         /\ Cardinality(FirstFew(S, n)) <= n
         /\ \A m \in FirstFew(S, n) : \A i \in S : i <= m => i \in FirstFew(S, n)
<1> DEFINE F == FirstFew(S, n)
           Below(i) == {j \in S : j < i}
<1>1. F \subseteq S /\ F \subseteq Ids /\ \A i \in F : Cardinality(Below(i)) < n
  BY DEF FirstFew
<1>2. ASSUME NEW m \in F, NEW i \in S, i <= m PROVE i \in F
  <2>1. Below(i) \subseteq Below(m)
    <3>1. i \in Int /\ m \in Int /\ i <= m /\ \A j \in S : j \in Int
      BY <1>1, <1>2, EntriesAreNumbers
    <3>2. \A j \in S : j < i => j < m
      BY <3>1
    <3> QED BY <3>2
  <2>2. IsFiniteSet(Below(m)) /\ Cardinality(Below(i)) <= Cardinality(Below(m))
    BY <2>1, EntriesFinite, FS_Subset
  <2>3. Cardinality(Below(i)) \in Nat /\ Cardinality(Below(m)) \in Nat
    BY EntriesFinite
  <2>4. Cardinality(Below(i)) < n
    BY <1>1, <2>2, <2>3
  <2> QED BY <2>4 DEF FirstFew
<1>3. Cardinality(F) <= n
  <2>1. CASE F = {}
    BY <2>1, FS_EmptySet
  <2>2. CASE F # {}
    <3>1. PICK m \in F : \A i \in F : m >= i
      BY <1>1, <2>2, GreatestEntry
    <3>2. F \subseteq Below(m) \cup {m}
      BY <1>1, <3>1, BoundsAssumption DEF Ids
    <3>3. IsFiniteSet(Below(m)) /\ Cardinality(Below(m)) \in Nat /\ Cardinality(Below(m)) < n
      BY <1>1, EntriesFinite
    <3>4. /\ IsFiniteSet(Below(m) \cup {m})
          /\ Cardinality(Below(m) \cup {m}) <= Cardinality(Below(m)) + 1
      BY <3>3, FS_AddElement
    <3>5. Cardinality(F) <= Cardinality(Below(m) \cup {m})
      BY <3>2, <3>4, FS_Subset
    <3>6. Cardinality(F) \in Nat /\ Cardinality(Below(m) \cup {m}) \in Nat
      BY <1>1, <3>4, EntriesFinite, FS_CardinalityType
    <3> QED BY <3>3, <3>4, <3>5, <3>6
  <2> QED BY <2>1, <2>2
<1> QED BY <1>1, <1>2, <1>3

-----------------------------------------------------------------------------
(* What a consumer has in hand. *)

ReaderOK(r) ==
  /\ r \in [pc : Pcs, raw : SUBSET Ids, got : SUBSET Ids, fetched : BOOLEAN]
  /\ Cardinality(r.raw \cup r.got) <= Count
  /\ r.pc \in {"alert", "poison_ack"} => r.raw # {} /\ First(r.raw) \in Poison
  /\ r.pc \in {"handle", "ack"} => r.got # {}

LEMMA AwayOK == ReaderOK(Away)
<1>1. Away \in [pc : Pcs, raw : SUBSET Ids, got : SUBSET Ids, fetched : BOOLEAN]
  BY DEF Away, Reader, Pcs
<1>2. Away.raw \cup Away.got = {} /\ Away.pc = "away"
  BY DEF Away, Reader
<1>3. Cardinality(Away.raw \cup Away.got) <= Count
  BY <1>2, FS_EmptySet, CountAssumption
<1> QED BY <1>1, <1>2, <1>3 DEF ReaderOK

\* Decode leaves a consumer that waits for an alert with the poison first,
\* and nobody else waits before an acknowledgement.
LEMMA DecodeOK ==
  ASSUME NEW raw, raw \subseteq Ids, NEW got, got \subseteq Ids, NEW fetched \in BOOLEAN,
         Cardinality(raw \cup got) <= Count
  PROVE  /\ ReaderOK(Decode(raw, got, fetched))
         /\ Decode(raw, got, fetched).pc \notin {"poison_ack", "ack"}
<1> DEFINE good == {i \in raw : \A j \in Poison \cap raw : i < j}
           rest == raw \ good
           all == got \cup good
<1>1. rest \subseteq Ids /\ all \subseteq Ids /\ rest \cup all = raw \cup got
  OBVIOUS
<1>2. Cardinality(all) <= Count
  <2>1. IsFiniteSet(raw \cup got) /\ Cardinality(raw \cup got) \in Nat /\ Cardinality(all) \in Nat
    BY <1>1, EntriesFinite
  <2>2. Cardinality(all) <= Cardinality(raw \cup got)
    BY <1>1, <2>1, FS_Subset
  <2> QED BY <2>1, <2>2, CountAssumption
<1>3. rest # {} => First(rest) \in Poison
  <2> SUFFICES ASSUME rest # {} PROVE First(rest) \in Poison
    OBVIOUS
  <2>1. First(rest) \in rest /\ \A j \in rest : First(rest) <= j
    BY <1>1, FirstOf
  <2>2. PICK j \in Poison \cap raw : ~(First(rest) < j)
    BY <2>1
  <2>3. j \in rest
    <3>1. j \in raw
      BY <2>2
    <3>2. j \in Int
      BY <3>1, EntriesAreNumbers
    <3>3. ~(j < j)
      BY <3>2
    <3> QED BY <2>2, <3>1, <3>3
  <2>4. First(rest) \in Int /\ j \in Int
    BY <1>1, <2>1, <2>3, EntriesAreNumbers
  <2>5. First(rest) = j
    BY <2>1, <2>2, <2>3, <2>4
  <2> QED BY <2>2, <2>5
<1>4. Decode(raw, got, fetched) =
        IF rest # {} THEN IF First(rest) \in Binary THEN Away ELSE Reader("alert", rest, all, fetched)
        ELSE IF ~fetched /\ Cardinality(all) < Count THEN Reader("fetch", {}, all, FALSE)
        ELSE IF all # {} THEN Reader("handle", {}, all, FALSE) ELSE Away
  BY DEF Decode
<1> HIDE DEF good, rest, all
<1>5. Cardinality(rest \cup all) <= Count /\ {} \cup all = all
  BY <1>1
<1>6. rest # {} => ReaderOK(Reader("alert", rest, all, fetched))
  BY <1>1, <1>3, <1>5 DEF ReaderOK, Reader, Pcs
<1>7. ReaderOK(Reader("fetch", {}, all, FALSE))
  BY <1>1, <1>2, <1>5 DEF ReaderOK, Reader, Pcs
<1>8. all # {} => ReaderOK(Reader("handle", {}, all, FALSE))
  BY <1>1, <1>2, <1>5 DEF ReaderOK, Reader, Pcs
<1>9. ReaderOK(Decode(raw, got, fetched))
  BY <1>4, <1>6, <1>7, <1>8, AwayOK
<1>10. Decode(raw, got, fetched).pc \notin {"poison_ack", "ack"}
  BY <1>4 DEF Reader, Away
<1> QED BY <1>9, <1>10

-----------------------------------------------------------------------------
(* The invariant: what is acknowledged next has been settled before. *)

RedisOK ==
  /\ added \in 0..MaxEntry /\ trimmed \in 0..added /\ delivered \in 0..added
  /\ group \in BOOLEAN
  /\ pending \in [Ids -> Consumers \cup {None}]
  /\ idle \subseteq Pending

SettledOK ==
  /\ handled \subseteq Ids /\ alerted \subseteq Poison /\ logged \subseteq Poison
  /\ failures \in 0..MaxFailures

ReadersOK ==
  /\ readers \in [Consumers -> [pc : Pcs, raw : SUBSET Ids, got : SUBSET Ids, fetched : BOOLEAN]]
  /\ \A c \in Consumers : ReaderOK(readers[c])

\* Before it acknowledges a message, a consumer has handled it or told of it.
SettledFirst ==
  \A c \in Consumers :
    /\ readers[c].pc = "poison_ack" => First(readers[c].raw) \in alerted \cup logged
    /\ readers[c].pc = "ack" => First(readers[c].got) \in handled

Inv == RedisOK /\ SettledOK /\ ReadersOK /\ SettledFirst /\ NothingForgotten

-----------------------------------------------------------------------------
(* The commands. *)

LEMMA ClaimKeeps ==
  ASSUME RedisOK, NothingForgotten, NEW c \in Consumers, ClaimPending(c), Settled \subseteq Settled'
  PROVE  RedisOK' /\ NothingForgotten' /\ Claimed \subseteq Ids /\ Cardinality(Claimed) <= Count
<1>1. idle \subseteq Ids /\ Count \in Nat
  BY CountAssumption DEF RedisOK, Pending
<1>2. Scanned \subseteq idle /\ Cardinality(Scanned) <= Count /\ Scanned \subseteq Ids
  BY <1>1, FewProperties DEF Scanned
<1>3. Claimed \subseteq Scanned
  BY DEF Claimed
<1>4. Cardinality(Claimed) <= Count
  <2>1. IsFiniteSet(Scanned) /\ Cardinality(Scanned) \in Nat /\ Cardinality(Claimed) \in Nat
    BY <1>2, <1>3, EntriesFinite
  <2>2. Cardinality(Claimed) <= Cardinality(Scanned)
    BY <1>3, <2>1, FS_Subset
  <2> QED BY <1>1, <1>2, <2>1, <2>2
<1>5. pending' \in [Ids -> Consumers \cup {None}]
  BY DEF ClaimPending, RedisOK
<1>6. \A i \in Ids : i \notin Scanned => pending'[i] = pending[i]
  BY <1>3 DEF ClaimPending
<1>7. idle' \subseteq Pending'
  BY <1>1, <1>6 DEF ClaimPending, RedisOK, Pending
<1>8. RedisOK'
  BY <1>5, <1>7 DEF ClaimPending, RedisOK
<1>9. \A i \in Ids : i \in Pending => i \in Pending' \/ i <= trimmed
  <2> SUFFICES ASSUME NEW i \in Ids, i \in Pending, ~(i <= trimmed) PROVE i \in Pending'
    OBVIOUS
  <2>1. i \in Int /\ trimmed \in Int /\ i > trimmed
    BY EntriesAreNumbers DEF RedisOK
  <2>2. CASE i \in Scanned
    <3>1. pending'[i] = c
      BY <2>1, <2>2 DEF ClaimPending, Claimed
    <3> QED BY <3>1, ConsumersAssumption DEF Pending
  <2>3. CASE i \notin Scanned
    BY <1>6, <2>3 DEF Pending
  <2> QED BY <2>2, <2>3
<1>10. NothingForgotten'
  <2>1. \A i \in 1..delivered : i \in Ids
    BY BoundsAssumption DEF RedisOK, Ids
  <2> QED BY <1>9, <2>1 DEF NothingForgotten, ClaimPending
<1> QED BY <1>2, <1>3, <1>4, <1>8, <1>10

\* What New returns follows what has been delivered, without a gap.
LEMMA FetchKeeps ==
  ASSUME RedisOK, ReadersOK, NothingForgotten, NEW c \in Consumers, FetchNew(c),
         Settled \subseteq Settled'
  PROVE  RedisOK' /\ NothingForgotten' /\ New(c) \subseteq Ids
         /\ Cardinality(New(c) \cup readers[c].got) <= Count
<1> DEFINE got == readers[c].got
           S == {i \in Ids : delivered < i /\ trimmed < i /\ i <= added}
           room == Count - Cardinality(got)
<1>1. got \subseteq Ids /\ Cardinality(got) \in Nat /\ room \in Nat
  <2>1. readers[c].raw \subseteq Ids /\ got \subseteq Ids
        /\ Cardinality(readers[c].raw \cup got) <= Count
    BY DEF ReadersOK, ReaderOK
  <2>2. /\ IsFiniteSet(readers[c].raw \cup got)
        /\ Cardinality(readers[c].raw \cup got) \in Nat /\ Cardinality(got) \in Nat
    BY <2>1, EntriesFinite
  <2>3. Cardinality(got) <= Cardinality(readers[c].raw \cup got)
    BY <2>2, FS_Subset
  <2> QED BY <2>1, <2>2, <2>3, CountAssumption
<1>2. New(c) = FirstFew(S, room)
  BY DEF New
<1>3. S \subseteq Ids
  OBVIOUS
<1>4. /\ New(c) \subseteq S /\ Cardinality(New(c)) <= room
      /\ \A m \in New(c) : \A i \in S : i <= m => i \in New(c)
  <2> HIDE DEF S, room
  <2> QED BY <1>1, <1>2, <1>3, FewProperties
<1>5. New(c) \subseteq Ids
  BY <1>3, <1>4
<1>6. Cardinality(New(c) \cup got) <= Count
  <2>1. /\ IsFiniteSet(New(c)) /\ Cardinality(New(c)) \in Nat
        /\ IsFiniteSet(got) /\ Cardinality(New(c) \cap got) \in Nat
    BY <1>1, <1>5, EntriesFinite
  <2>2. Cardinality(New(c) \cup got)
          = Cardinality(New(c)) + Cardinality(got) - Cardinality(New(c) \cap got)
    BY <2>1, FS_Union
  <2> HIDE DEF got
  <2> QED BY <1>1, <1>4, <2>1, <2>2, CountAssumption
<1>7. /\ pending' \in [Ids -> Consumers \cup {None}]
      /\ \A i \in Ids : pending'[i] = IF i \in New(c) THEN c ELSE pending[i]
  BY DEF FetchNew, RedisOK
<1>8. Pending \subseteq Pending' /\ New(c) \subseteq Pending'
  BY <1>5, <1>7, ConsumersAssumption DEF Pending
<1>9. idle' \subseteq Pending'
  BY <1>8 DEF FetchNew, RedisOK
<1>10. delivered' \in 0..added /\ \A i \in 1..delivered' : i \in 1..delivered \cup New(c) \/ i <= trimmed
  <2>0. delivered \in 0..added /\ added \in 0..MaxEntry /\ trimmed \in 0..added /\ MaxEntry \in Nat
    BY BoundsAssumption DEF RedisOK
  <2>1. CASE New(c) = {}
    <3>1. delivered' = delivered
      BY <2>1 DEF FetchNew
    <3> QED BY <2>0, <3>1
  <2>2. CASE New(c) # {}
    <3>1. \E m \in New(c) : \A j \in New(c) : m >= j
      BY <1>5, <2>2, GreatestEntry
    <3>2. delivered' = CHOOSE m \in New(c) : \A j \in New(c) : m >= j
      BY <2>2 DEF FetchNew
    <3>3. delivered' \in New(c)
      BY <3>1, <3>2
    <3>4. delivered' \in Ids /\ delivered' <= added
      BY <1>4, <3>3
    <3>5. delivered' \in 0..added
      BY <2>0, <3>4 DEF Ids
    <3>6. ASSUME NEW i \in 1..delivered', ~(i <= delivered), ~(i <= trimmed) PROVE i \in New(c)
      <4>1. i \in Ids /\ delivered < i /\ trimmed < i /\ i <= added /\ i <= delivered'
        BY <2>0, <3>5, <3>6 DEF Ids
      <4> QED BY <1>4, <3>3, <4>1
    <3>7. \A i \in 1..delivered' : i <= delivered => i \in 1..delivered
      BY <2>0, <3>5
    <3> QED BY <3>5, <3>6, <3>7
  <2> QED BY <2>1, <2>2
<1>11. RedisOK'
  BY <1>7, <1>9, <1>10 DEF FetchNew, RedisOK
<1>12. NothingForgotten'
  BY <1>8, <1>10 DEF NothingForgotten, FetchNew
<1> QED BY <1>5, <1>6, <1>11, <1>12

LEMMA AckKeeps ==
  ASSUME RedisOK, NothingForgotten, NEW i \in Settled, i \in Ids, Ack(i), Settled \subseteq Settled'
  PROVE  RedisOK' /\ NothingForgotten'
<1>1. pending' \in [Ids -> Consumers \cup {None}] /\ \A j \in Ids : j # i => pending'[j] = pending[j]
  BY DEF Ack, RedisOK
<1>2. Pending \subseteq Pending' \cup {i}
  BY <1>1 DEF Pending
<1>3. RedisOK'
  BY <1>1, <1>2 DEF Ack, RedisOK
<1>4. NothingForgotten'
  BY <1>2 DEF NothingForgotten, Ack
<1> QED BY <1>3, <1>4

-----------------------------------------------------------------------------
(* The readers: one of them changes, and the others keep what they have. *)

LEMMA ReadersKeep ==
  ASSUME ReadersOK, SettledFirst, NEW c \in Consumers, NEW r, ReaderOK(r),
         readers' = [readers EXCEPT ![c] = r],
         handled \subseteq handled', alerted \cup logged \subseteq alerted' \cup logged',
         r.pc = "poison_ack" => First(r.raw) \in alerted' \cup logged',
         r.pc = "ack" => First(r.got) \in handled'
  PROVE  ReadersOK' /\ SettledFirst'
<1>1. r \in [pc : Pcs, raw : SUBSET Ids, got : SUBSET Ids, fetched : BOOLEAN]
  BY DEF ReaderOK
<1>2. /\ readers' \in [Consumers -> [pc : Pcs, raw : SUBSET Ids, got : SUBSET Ids, fetched : BOOLEAN]]
      /\ readers'[c] = r /\ \A d \in Consumers : d # c => readers'[d] = readers[d]
  BY <1>1 DEF ReadersOK
<1>3. \A d \in Consumers : ReaderOK(readers'[d])
  BY <1>2 DEF ReadersOK
<1>4. ReadersOK'
  BY <1>2, <1>3 DEF ReadersOK, ReaderOK
<1>5. ASSUME NEW d \in Consumers
      PROVE  /\ readers'[d].pc = "poison_ack" => First(readers'[d].raw) \in alerted' \cup logged'
             /\ readers'[d].pc = "ack" => First(readers'[d].got) \in handled'
  <2>1. CASE d = c
    BY <1>2, <2>1
  <2>2. CASE d # c
    <3>1. readers'[d] = readers[d]
      BY <1>2, <2>2
    <3>2. /\ readers[d].pc = "poison_ack" => First(readers[d].raw) \in alerted \cup logged
          /\ readers[d].pc = "ack" => First(readers[d].got) \in handled
      BY DEF SettledFirst
    <3> QED BY <3>1, <3>2
  <2> QED BY <2>1, <2>2
<1>6. SettledFirst'
  BY <1>5 DEF SettledFirst, First
<1> QED BY <1>4, <1>6

\* A consumer goes on to a step with the same messages in hand.
LEMMA PcKeeps ==
  ASSUME ReadersOK, NEW c \in Consumers, NEW pc \in Pcs,
         pc \in {"alert", "poison_ack"} => readers[c].pc \in {"alert", "poison_ack"},
         pc \in {"handle", "ack"} => readers[c].pc \in {"handle", "ack"}
  PROVE  /\ ReaderOK([readers[c] EXCEPT !.pc = pc])
         /\ [readers[c] EXCEPT !.pc = pc].pc = pc
         /\ [readers[c] EXCEPT !.pc = pc].raw = readers[c].raw
         /\ [readers[c] EXCEPT !.pc = pc].got = readers[c].got
<1> DEFINE r == readers[c]
           s == [r EXCEPT !.pc = pc]
<1>1. ReaderOK(r)
  BY DEF ReadersOK
<1>2. r \in [pc : Pcs, raw : SUBSET Ids, got : SUBSET Ids, fetched : BOOLEAN]
  BY <1>1 DEF ReaderOK
<1> HIDE DEF r
<1>3. /\ s \in [pc : Pcs, raw : SUBSET Ids, got : SUBSET Ids, fetched : BOOLEAN]
      /\ s.pc = pc /\ s.raw = r.raw /\ s.got = r.got
  BY <1>2
<1>4. /\ pc \in {"alert", "poison_ack"} => r.pc \in {"alert", "poison_ack"}
      /\ pc \in {"handle", "ack"} => r.pc \in {"handle", "ack"}
  BY DEF r
<1> HIDE DEF s
<1>5. ReaderOK(s)
  BY <1>1, <1>3, <1>4 DEF ReaderOK
<1> QED BY <1>3, <1>5 DEF r, s

LEMMA InHand ==
  ASSUME ReadersOK, NEW c \in Consumers
  PROVE  /\ readers[c].raw \subseteq Ids /\ readers[c].got \subseteq Ids
         /\ readers[c].fetched \in BOOLEAN
         /\ readers[c].pc \in {"alert", "poison_ack"} =>
              First(readers[c].raw) \in Poison \cap readers[c].raw
         /\ readers[c].pc \in {"handle", "ack"} => First(readers[c].got) \in readers[c].got
         /\ \A raw, got \in SUBSET Ids :
              raw \cup got \subseteq readers[c].raw \cup readers[c].got =>
                Cardinality(raw \cup got) <= Count
<1>1. ReaderOK(readers[c])
  BY DEF ReadersOK
<1>2. /\ readers[c].raw \subseteq Ids /\ readers[c].got \subseteq Ids
      /\ readers[c].fetched \in BOOLEAN
      /\ Cardinality(readers[c].raw \cup readers[c].got) <= Count
  BY <1>1 DEF ReaderOK
<1>3. readers[c].pc \in {"alert", "poison_ack"} =>
        First(readers[c].raw) \in Poison \cap readers[c].raw
  BY <1>1, <1>2, FirstOf DEF ReaderOK
<1>4. readers[c].pc \in {"handle", "ack"} => First(readers[c].got) \in readers[c].got
  BY <1>1, <1>2, FirstOf DEF ReaderOK
<1>5. ASSUME NEW raw \in SUBSET Ids, NEW got \in SUBSET Ids,
             raw \cup got \subseteq readers[c].raw \cup readers[c].got
      PROVE  Cardinality(raw \cup got) <= Count
  <2> DEFINE few == raw \cup got
             many == readers[c].raw \cup readers[c].got
  <2>1. few \subseteq many /\ few \subseteq Ids /\ many \subseteq Ids /\ Cardinality(many) <= Count
    BY <1>2, <1>5
  <2> HIDE DEF few, many
  <2>2. IsFiniteSet(many) /\ Cardinality(many) \in Nat /\ Cardinality(few) \in Nat
    BY <2>1, EntriesFinite
  <2>3. Cardinality(few) <= Cardinality(many)
    BY <2>1, <2>2, FS_Subset
  <2>4. Cardinality(few) <= Count
    BY <2>1, <2>2, <2>3, CountAssumption
  <2> QED BY <2>4 DEF few
<1> QED BY <1>2, <1>3, <1>4, <1>5

-----------------------------------------------------------------------------
(* The invariant holds at first, and every action keeps it. *)

LEMMA InvInit == Init => Inv
<1> SUFFICES ASSUME Init PROVE Inv
  OBVIOUS
<1>1. RedisOK
  <2>1. added \in 0..MaxEntry /\ trimmed \in 0..added /\ delivered \in 0..added
    BY BoundsAssumption DEF Init
  <2>2. group \in BOOLEAN
    BY DEF Init
  <2>3. pending \in [Ids -> Consumers \cup {None}] /\ idle \subseteq Pending
    BY DEF Init
  <2> QED BY <2>1, <2>2, <2>3 DEF RedisOK
<1>2. SettledOK
  BY BoundsAssumption DEF Init, SettledOK
<1>3. ReadersOK
  <2>1. \A c \in Consumers : readers[c] = Away
    BY DEF Init
  <2>2. \A c \in Consumers : ReaderOK(readers[c])
    BY <2>1, AwayOK
  <2>3. Away \in [pc : Pcs, raw : SUBSET Ids, got : SUBSET Ids, fetched : BOOLEAN]
    BY AwayOK DEF ReaderOK
  <2> QED BY <2>2, <2>3 DEF Init, ReadersOK
<1>4. SettledFirst
  BY DEF Init, SettledFirst, Away, Reader
<1>5. NothingForgotten
  BY DEF Init, NothingForgotten
<1> QED BY <1>1, <1>2, <1>3, <1>4, <1>5 DEF Inv

\* A step that leaves Redis alone.
LEMMA RedisUnchanged ==
  ASSUME RedisOK, NothingForgotten, UNCHANGED redis, Settled \subseteq Settled'
  PROVE  RedisOK' /\ NothingForgotten'
<1>1. RedisOK'
  BY DEF RedisOK, redis, Pending
<1>2. NothingForgotten'
  BY DEF NothingForgotten, redis, Pending
<1> QED BY <1>1, <1>2

\* A step that leaves the readers alone.
LEMMA ReadersUnchanged ==
  ASSUME ReadersOK, SettledFirst, readers' = readers,
         handled \subseteq handled', alerted \cup logged \subseteq alerted' \cup logged'
  PROVE  ReadersOK' /\ SettledFirst'
<1>1. ReadersOK'
  BY DEF ReadersOK, ReaderOK
<1>2. SettledFirst'
  BY DEF SettledFirst, First
<1> QED BY <1>1, <1>2

LEMMA StreamStep ==
  ASSUME Inv, Added \/ \E i \in Ids : GrowsIdle(i)
  PROVE  Inv'
<1>1. UNCHANGED <<readers, handled, alerted, logged, failures>>
  BY DEF Added, GrowsIdle
<1>2. SettledOK' /\ Settled' = Settled
  BY <1>1 DEF Inv, SettledOK, Settled
<1>3. ReadersOK' /\ SettledFirst'
  BY <1>1, ReadersUnchanged DEF Inv
<1>4. CASE Added
  <2>0. added \in 0..MaxEntry /\ added + 1 <= MaxEntry /\ trimmed \in 0..added
        /\ delivered \in 0..added /\ MaxEntry \in Nat
    BY <1>4, BoundsAssumption DEF Inv, RedisOK, Added
  <2>1. PICK n \in trimmed..added : trimmed' = n
    BY <1>4 DEF Added
  <2>2. added' = added + 1
        /\ UNCHANGED <<group, delivered, pending, idle>>
    BY <1>4 DEF Added
  <2>3. added' \in 0..MaxEntry /\ trimmed' \in 0..added' /\ delivered' \in 0..added'
    BY <2>0, <2>1, <2>2
  <2>4. RedisOK'
    BY <2>2, <2>3 DEF Inv, RedisOK, Pending
  <2>5. \A i \in 1..delivered : i <= trimmed => i <= trimmed'
    BY <2>0, <2>1
  <2>6. NothingForgotten'
    BY <1>2, <2>2, <2>5 DEF Inv, NothingForgotten, Pending
  <2> QED BY <1>2, <1>3, <2>4, <2>6 DEF Inv
<1>5. CASE \E i \in Ids : GrowsIdle(i)
  <2>1. PICK i \in Ids : GrowsIdle(i)
    BY <1>5
  <2>2. RedisOK'
    BY <2>1 DEF Inv, RedisOK, GrowsIdle, Pending
  <2>3. NothingForgotten'
    BY <1>2, <2>1 DEF Inv, NothingForgotten, GrowsIdle, Pending
  <2> QED BY <1>2, <1>3, <2>2, <2>3 DEF Inv
<1> QED BY <1>4, <1>5

LEMMA ReadStep ==
  ASSUME Inv, NEW c \in Consumers, ReadStarted(c) \/ ClaimAnswered(c) \/ FetchAnswered(c)
  PROVE  Inv'
<1>1. UNCHANGED <<handled, alerted, logged, failures>>
  BY DEF ReadStarted, ClaimAnswered, FetchAnswered
<1>2. SettledOK' /\ Settled' = Settled
  BY <1>1 DEF Inv, SettledOK, Settled
<1>3. CASE ReadStarted(c)
  <2>1. UNCHANGED <<added, trimmed, delivered, pending, idle>> /\ group' = TRUE
    BY <1>3 DEF ReadStarted
  <2>2. RedisOK' /\ NothingForgotten'
    BY <1>2, <2>1 DEF Inv, RedisOK, NothingForgotten, Pending
  <2> DEFINE r == [readers[c] EXCEPT !.pc = "claim"]
  <2>3. ReaderOK(r) /\ r.pc = "claim"
    BY PcKeeps DEF Inv, Pcs
  <2>4. readers' = [readers EXCEPT ![c] = r]
    BY <1>3 DEF ReadStarted
  <2> HIDE DEF r
  <2>5. ReadersOK' /\ SettledFirst'
    BY <1>1, <2>3, <2>4, ReadersKeep DEF Inv
  <2> QED BY <1>2, <2>2, <2>5 DEF Inv
<1>4. CASE ClaimAnswered(c)
  <2> DEFINE r == Decode(Claimed, {}, FALSE)
  <2>1. RedisOK' /\ NothingForgotten' /\ Claimed \subseteq Ids /\ Cardinality(Claimed) <= Count
    BY <1>2, <1>4, ClaimKeeps DEF Inv, ClaimAnswered
  <2>2. Claimed \cup {} = Claimed
    OBVIOUS
  <2>3. ReaderOK(r) /\ r.pc \notin {"poison_ack", "ack"}
    BY <2>1, <2>2, DecodeOK
  <2>4. readers' = [readers EXCEPT ![c] = r]
    BY <1>4 DEF ClaimAnswered
  <2> HIDE DEF r
  <2>5. ReadersOK' /\ SettledFirst'
    BY <1>1, <2>3, <2>4, ReadersKeep DEF Inv
  <2> QED BY <1>2, <2>1, <2>5 DEF Inv
<1>5. CASE FetchAnswered(c)
  <2> DEFINE r == Decode(New(c), readers[c].got, TRUE)
  <2>1. RedisOK' /\ NothingForgotten' /\ New(c) \subseteq Ids
        /\ Cardinality(New(c) \cup readers[c].got) <= Count
    BY <1>2, <1>5, FetchKeeps DEF Inv, FetchAnswered
  <2>2. readers[c].got \subseteq Ids
    BY InHand DEF Inv
  <2>3. ReaderOK(r) /\ r.pc \notin {"poison_ack", "ack"}
    BY <2>1, <2>2, DecodeOK
  <2>4. readers' = [readers EXCEPT ![c] = r]
    BY <1>5 DEF FetchAnswered
  <2> HIDE DEF r
  <2>5. ReadersOK' /\ SettledFirst'
    BY <1>1, <2>3, <2>4, ReadersKeep DEF Inv
  <2> QED BY <1>2, <2>1, <2>5 DEF Inv
<1> QED BY <1>3, <1>4, <1>5

LEMMA PoisonStep ==
  ASSUME Inv, NEW c \in Consumers, Alerted(c) \/ AlertFailed(c) \/ PoisonAcked(c)
  PROVE  Inv'
<1>1. /\ readers[c].pc \in {"alert", "poison_ack"}
      /\ First(readers[c].raw) \in Poison \cap readers[c].raw
      /\ readers[c].raw \subseteq Ids
  BY InHand DEF Inv, Alerted, AlertFailed, PoisonAcked
<1>2. /\ handled' = handled /\ failures' = failures
      /\ alerted \subseteq alerted' /\ logged \subseteq logged'
      /\ alerted' \subseteq Poison /\ logged' \subseteq Poison
  BY <1>1 DEF Inv, SettledOK, Alerted, AlertFailed, PoisonAcked
<1>3. SettledOK' /\ Settled \subseteq Settled'
  BY <1>2 DEF Inv, SettledOK, Settled
<1>4. CASE Alerted(c) \/ AlertFailed(c)
  <2> DEFINE r == [readers[c] EXCEPT !.pc = "poison_ack"]
  <2>1. RedisOK' /\ NothingForgotten'
    BY <1>3, <1>4, RedisUnchanged DEF Inv, Alerted, AlertFailed
  <2>2. ReaderOK(r) /\ r.pc = "poison_ack" /\ r.raw = readers[c].raw
    BY <1>1, PcKeeps DEF Inv, Pcs
  <2>3. readers' = [readers EXCEPT ![c] = r]
    BY <1>4 DEF Alerted, AlertFailed
  <2>4. First(readers[c].raw) \in alerted' \cup logged'
    BY <1>4 DEF Alerted, AlertFailed
  <2> HIDE DEF r
  <2>5. First(r.raw) \in alerted' \cup logged'
    BY <2>2, <2>4
  <2>6. ReadersOK' /\ SettledFirst'
    BY <1>2, <2>2, <2>3, <2>5, ReadersKeep DEF Inv
  <2> QED BY <1>3, <2>1, <2>6 DEF Inv
<1>5. CASE PoisonAcked(c)
  <2> DEFINE i == First(readers[c].raw)
             raw == readers[c].raw \ {i}
             got == readers[c].got
             r == Decode(raw, got, readers[c].fetched)
  <2>1. i \in Ids /\ i \in Settled /\ Ack(i)
    BY <1>1, <1>5 DEF Inv, SettledFirst, Settled, PoisonAcked
  <2>2. RedisOK' /\ NothingForgotten'
    BY <1>3, <2>1, AckKeeps DEF Inv
  <2>3. raw \subseteq Ids /\ got \subseteq Ids /\ readers[c].fetched \in BOOLEAN
        /\ Cardinality(raw \cup got) <= Count
    BY InHand DEF Inv
  <2>4. readers' = [readers EXCEPT ![c] = r]
    BY <1>5 DEF PoisonAcked
  <2> HIDE DEF raw, got
  <2>5. ReaderOK(r) /\ r.pc \notin {"poison_ack", "ack"}
    BY <2>3, DecodeOK
  <2> HIDE DEF r
  <2>6. ReadersOK' /\ SettledFirst'
    BY <1>2, <2>4, <2>5, ReadersKeep DEF Inv
  <2> QED BY <1>3, <2>2, <2>6 DEF Inv
<1> QED BY <1>4, <1>5

LEMMA HandleStep ==
  ASSUME Inv, NEW c \in Consumers, Handled(c) \/ Acked(c)
  PROVE  Inv'
<1>1. /\ readers[c].pc \in {"handle", "ack"}
      /\ First(readers[c].got) \in readers[c].got /\ readers[c].got \subseteq Ids
  BY InHand DEF Inv, Handled, Acked
<1>2. /\ alerted' = alerted /\ logged' = logged /\ failures' = failures
      /\ handled \subseteq handled' /\ handled' \subseteq Ids
  BY <1>1 DEF Inv, SettledOK, Handled, Acked
<1>3. SettledOK' /\ Settled \subseteq Settled'
  BY <1>2 DEF Inv, SettledOK, Settled
<1>4. CASE Handled(c)
  <2> DEFINE r == [readers[c] EXCEPT !.pc = "ack"]
  <2>1. RedisOK' /\ NothingForgotten'
    BY <1>3, <1>4, RedisUnchanged DEF Inv, Handled
  <2>2. ReaderOK(r) /\ r.pc = "ack" /\ r.got = readers[c].got
    BY <1>1, PcKeeps DEF Inv, Pcs
  <2>3. readers' = [readers EXCEPT ![c] = r] /\ First(readers[c].got) \in handled'
    BY <1>4 DEF Handled
  <2> HIDE DEF r
  <2>4. First(r.got) \in handled'
    BY <2>2, <2>3
  <2>5. ReadersOK' /\ SettledFirst'
    BY <1>2, <2>2, <2>3, <2>4, ReadersKeep DEF Inv
  <2> QED BY <1>3, <2>1, <2>5 DEF Inv
<1>5. CASE Acked(c)
  <2> DEFINE i == First(readers[c].got)
             got == readers[c].got \ {i}
             r == Decode({}, got, TRUE)
  <2>1. i \in Ids /\ i \in Settled /\ Ack(i)
    BY <1>1, <1>5 DEF Inv, SettledFirst, Settled, Acked
  <2>2. RedisOK' /\ NothingForgotten'
    BY <1>3, <2>1, AckKeeps DEF Inv
  <2>3. got \subseteq Ids /\ Cardinality({} \cup got) <= Count
    BY InHand DEF Inv
  <2>4. readers' = [readers EXCEPT ![c] = r]
    BY <1>5 DEF Acked
  <2> HIDE DEF got
  <2>5. ReaderOK(r) /\ r.pc \notin {"poison_ack", "ack"}
    BY <2>3, DecodeOK
  <2> HIDE DEF r
  <2>6. ReadersOK' /\ SettledFirst'
    BY <1>2, <2>4, <2>5, ReadersKeep DEF Inv
  <2> QED BY <1>3, <2>2, <2>6 DEF Inv
<1> QED BY <1>4, <1>5

LEMMA FailureStep ==
  ASSUME Inv, NEW c \in Consumers, AnswerLost(c) \/ Abandoned(c)
  PROVE  Inv'
<1>1. /\ readers[c].raw \subseteq Ids /\ readers[c].got \subseteq Ids
      /\ readers[c].pc \in {"alert", "poison_ack"} =>
           First(readers[c].raw) \in Poison \cap readers[c].raw
      /\ readers[c].pc \in {"handle", "ack"} => First(readers[c].got) \in readers[c].got
  BY InHand DEF Inv
<1>2. /\ handled' = handled /\ logged' = logged /\ failures' \in 0..MaxFailures
      /\ alerted \subseteq alerted' /\ alerted' \subseteq Poison
  BY <1>1, BoundsAssumption DEF Inv, SettledOK, AnswerLost, Abandoned, Fails
<1>3. SettledOK' /\ Settled \subseteq Settled'
  BY <1>2 DEF Inv, SettledOK, Settled
<1>4. CASE AnswerLost(c)
  <2>1. ReadersOK' /\ SettledFirst'
    BY <1>2, <1>4, ReadersUnchanged DEF Inv, AnswerLost
  <2>2. CASE ClaimPending(c)
    BY <1>3, <2>1, <2>2, ClaimKeeps DEF Inv
  <2>3. CASE FetchNew(c)
    BY <1>3, <2>1, <2>3, FetchKeeps DEF Inv
  <2>4. CASE readers[c].pc = "poison_ack" /\ Ack(First(readers[c].raw))
    <3>1. First(readers[c].raw) \in Ids /\ First(readers[c].raw) \in Settled
      BY <1>1, <2>4 DEF Inv, SettledFirst, Settled
    <3> QED BY <1>3, <2>1, <2>4, <3>1, AckKeeps DEF Inv
  <2>5. CASE readers[c].pc = "ack" /\ Ack(First(readers[c].got))
    <3>1. First(readers[c].got) \in Ids /\ First(readers[c].got) \in Settled
      BY <1>1, <2>5 DEF Inv, SettledFirst, Settled
    <3> QED BY <1>3, <2>1, <2>5, <3>1, AckKeeps DEF Inv
  <2>6. CASE UNCHANGED redis
    BY <1>3, <2>1, <2>6, RedisUnchanged DEF Inv
  <2> QED BY <1>4, <2>2, <2>3, <2>4, <2>5, <2>6 DEF AnswerLost
<1>5. CASE Abandoned(c)
  <2>1. RedisOK' /\ NothingForgotten'
    BY <1>3, <1>5, RedisUnchanged DEF Inv, Abandoned
  <2>2. readers' = [readers EXCEPT ![c] = Away] /\ Away.pc = "away"
    BY <1>5 DEF Abandoned, Away, Reader
  <2>3. ReadersOK' /\ SettledFirst'
    BY <1>2, <2>2, AwayOK, ReadersKeep DEF Inv
  <2> QED BY <1>3, <2>1, <2>3 DEF Inv
<1> QED BY <1>4, <1>5

LEMMA InvNext == Inv /\ [Next]_vars => Inv'
<1> SUFFICES ASSUME Inv, [Next]_vars PROVE Inv'
  OBVIOUS
<1>1. CASE Added \/ \E i \in Ids : GrowsIdle(i)
  BY <1>1, StreamStep
<1>2. ASSUME NEW c \in Consumers, Works(c) PROVE Inv'
  BY <1>2, ReadStep, PoisonStep, HandleStep DEF Works
<1>3. ASSUME NEW c \in Consumers, AnswerLost(c) \/ Abandoned(c) PROVE Inv'
  BY <1>3, FailureStep
<1>4. CASE UNCHANGED vars
  <2>1. UNCHANGED <<redis, readers, handled, alerted, logged, failures>>
    BY <1>4 DEF vars
  <2>2. SettledOK' /\ Settled' = Settled
    BY <2>1 DEF Inv, SettledOK, Settled
  <2>3. RedisOK' /\ NothingForgotten'
    BY <2>1, <2>2, RedisUnchanged DEF Inv
  <2>4. ReadersOK' /\ SettledFirst'
    BY <2>1, ReadersUnchanged DEF Inv
  <2> QED BY <2>2, <2>3, <2>4 DEF Inv
<1> QED BY <1>1, <1>2, <1>3, <1>4 DEF Next

-----------------------------------------------------------------------------
(* The theorems. *)

\* Every variable holds values of its type, and read() never has in hand
\* more messages than it was asked for.
THEOREM TypeCorrect == Spec => []TypeOK
<1>1. Inv => TypeOK
  BY DEF Inv, RedisOK, SettledOK, ReadersOK, ReaderOK, TypeOK
<1> QED BY <1>1, InvInit, InvNext, PTL DEF Spec

\* A message that has been delivered is handled, told of as poison, still
\* pending, or trimmed: no lost answer and no crash makes the group forget it.
THEOREM NoneForgotten == Spec => []NothingForgotten
<1>1. Inv => NothingForgotten
  BY DEF Inv
<1> QED BY <1>1, InvInit, InvNext, PTL DEF Spec
=============================================================================
