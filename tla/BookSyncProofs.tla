--------------------------- MODULE BookSyncProofs ---------------------------
(***************************************************************************)
(* IndInv of BookSync is inductive, the properties that follow, and that   *)
(* BookSync implements DepthFeed.                                          *)
(*                                                                         *)
(* First the order book's operators: they return books, and what the loop  *)
(* over the buffered events preserves; Drain is a recursive function over  *)
(* the events, so that is by induction on their number.  Then the same     *)
(* operators on books that come from the tape: the crucial lemma is        *)
(* ApplyFaithful.  Then the invariant in three parts, of the books         *)
(* (BooksOK), of where the tasks are (ControlInv) and of what is handed on *)
(* (HandedInv), and a lemma per action that preserves them.                *)
(***************************************************************************)
EXTENDS BookSync, WellFoundedInduction, TLAPS

-----------------------------------------------------------------------------
(* The operators of the order book. *)

\* A set of numbers that is not empty has a least member: the induction
\* below is on the smallest counterexample.
LEMMA NatMinimum ==
  ASSUME NEW T, T \subseteq Nat, T # {}
  PROVE  \E n \in T : \A m \in T : n <= m
<1>1. PICK n \in T : \A m \in T : ~ (<<m, n>> \in OpToRel(<, Nat))
  BY WFMin, NatLessThanWellFounded
<1>2. \A m \in T : m < n => <<m, n>> \in OpToRel(<, Nat)
  BY DEF OpToRel
<1>3. \A m \in T : n \in Nat /\ m \in Nat /\ ~(m < n)
  BY <1>1, <1>2
<1>4. \A m \in T : n <= m
  BY <1>3
<1> QED BY <1>4

IsDrainRun(r, n, b, events, fresh) ==
  r = [k \in 0..n |->
          IF k = 0 THEN Outcome(b, "applied")
          ELSE IF k \notin fresh \/ r[k - 1].result \in Failures THEN r[k - 1]
          ELSE ApplyUpdate(r[k - 1].book, events[k])]

\* The recursive function in Drain exists, for any number of events.
LEMMA DrainRunExists ==
  ASSUME NEW b, NEW events, NEW fresh, NEW n \in Nat
  PROVE  \E r : IsDrainRun(r, n, b, events, fresh)
<1> DEFINE Bad == {m \in Nat : ~ \E r : IsDrainRun(r, m, b, events, fresh)}
<1>1. SUFFICES ASSUME Bad # {} PROVE FALSE
  OBVIOUS
<1>2. PICK m \in Bad : \A j \in Bad : m <= j
  BY <1>1, NatMinimum
<1>3. CASE m = 0
  <2> DEFINE r == [k \in 0..0 |-> Outcome(b, "applied")]
  <2>1. IsDrainRun(r, 0, b, events, fresh)
    BY DEF IsDrainRun
  <2> QED BY <2>1, <1>3, <1>2
<1>4. CASE m # 0
  <2>1. m - 1 \in Nat /\ m - 1 \notin Bad
    BY <1>2, <1>4
  <2>2. PICK p : IsDrainRun(p, m - 1, b, events, fresh)
    BY <2>1
  <2> DEFINE NextOutcome(k) ==
               IF k = 0 THEN Outcome(b, "applied")
               ELSE IF k \notin fresh \/ p[k - 1].result \in Failures THEN p[k - 1]
               ELSE ApplyUpdate(p[k - 1].book, events[k])
             r == [k \in 0..m |-> NextOutcome(k)]
  <2>3. \A k \in 0..(m - 1) : p[k] = NextOutcome(k)
    BY <2>1, <2>2 DEF IsDrainRun
  <2>4. \A k \in 0..(m - 1) : r[k] = p[k]
    BY <2>1, <2>3
  <2>5. IsDrainRun(r, m, b, events, fresh)
    <3>1. \A k \in 0..m : k # 0 => r[k - 1] = p[k - 1]
      <4>1. \A k \in 0..m : k # 0 => k - 1 \in 0..(m - 1)
        BY <2>1
      <4> HIDE DEF r
      <4> QED BY <2>4, <4>1
    <3>2. \A k \in 0..m : NextOutcome(k) =
               IF k = 0 THEN Outcome(b, "applied")
               ELSE IF k \notin fresh \/ r[k - 1].result \in Failures THEN r[k - 1]
               ELSE ApplyUpdate(r[k - 1].book, events[k])
      BY <3>1
    <3> HIDE DEF NextOutcome
    <3> QED BY <3>2, Zenon DEF IsDrainRun
  <2> QED BY <2>5, <1>2
<1> QED BY <1>3, <1>4

\* Drain returns the last outcome of that function.
LEMMA DrainIsRun ==
  ASSUME NEW b, NEW events, NEW fresh, Len(events) \in Nat
  PROVE  \E r : IsDrainRun(r, Len(events), b, events, fresh) /\ Drain(b, events, fresh) = r[Len(events)]
<1> DEFINE R == CHOOSE r : IsDrainRun(r, Len(events), b, events, fresh)
<1>1. IsDrainRun(R, Len(events), b, events, fresh)
  BY DrainRunExists, Zenon
<1>2. Drain(b, events, fresh) = R[Len(events)]
  BY DEF Drain, IsDrainRun
<1> QED BY <1>1, <1>2

\* What the loop of initialize_from_snapshot preserves: a set of outcomes
\* that holds the first one and is closed under applying a fresh event to an
\* outcome that is no failure holds the last one.
LEMMA DrainInvariant ==
  ASSUME NEW b, NEW events, Len(events) \in Nat, NEW fresh, NEW G,
         Outcome(b, "applied") \in G,
         \A o \in G : \A i \in (1..Len(events)) \cap fresh :
            o.result \notin Failures => ApplyUpdate(o.book, events[i]) \in G
  PROVE  Drain(b, events, fresh) \in G
<1> DEFINE n == Len(events)
<1>1. PICK r : IsDrainRun(r, n, b, events, fresh) /\ Drain(b, events, fresh) = r[n]
  BY DrainIsRun
<1>2. \A k \in 0..n : r[k] =
        IF k = 0 THEN Outcome(b, "applied")
        ELSE IF k \notin fresh \/ r[k - 1].result \in Failures THEN r[k - 1]
        ELSE ApplyUpdate(r[k - 1].book, events[k])
  BY <1>1, Zenon DEF IsDrainRun
<1> DEFINE Bad == {k \in 0..n : r[k] \notin G}
<1>3. SUFFICES Bad = {}
  BY <1>1
<1>4. SUFFICES ASSUME Bad # {} PROVE FALSE
  OBVIOUS
<1>5. PICK k \in Bad : \A j \in Bad : k <= j
  <2>1. Bad \subseteq Nat
    OBVIOUS
  <2> HIDE DEF Bad
  <2> QED BY <2>1, <1>4, NatMinimum
<1>6. k # 0
  BY <1>2, <1>5
<1>7. k \in 1..n /\ k - 1 \in 0..n /\ k - 1 \notin Bad
  BY <1>5, <1>6
<1>8. r[k - 1] \in G
  BY <1>7
<1>9. r[k] = r[k - 1] \/ (k \in fresh /\ r[k - 1].result \notin Failures
                            /\ r[k] = ApplyUpdate(r[k - 1].book, events[k]))
  BY <1>2, <1>6, <1>7
<1>10. r[k] \in G
  BY <1>7, <1>8, <1>9
<1> QED BY <1>10, <1>5

-----------------------------------------------------------------------------
Outcomes == [book : Book, result : Results]

\* An emptied book is a book.
LEMMA ClearedType ==
  ASSUME NEW sync \in SyncStates, NEW integrity \in Integrities
  PROVE  Cleared(sync, integrity) \in Book
BY DEF Cleared, Book, Levels

\* _apply_levels leaves levels.
LEMMA ApplyLevelsType ==
  ASSUME NEW levels \in Levels, NEW diff \in [Slots -> Nat \cup {None}]
  PROVE  ApplyLevels(levels, diff) \in Levels
BY DEF ApplyLevels, Levels

\* What ApplyUpdate returns is a book and a result.
THEOREM ApplyUpdateType ==
  ASSUME NEW b \in Book, NEW u \in DepthUpdate
  PROVE  ApplyUpdate(b, u) \in Outcomes
<1>1. CASE Malformed(u)
  BY <1>1, ClearedType DEF ApplyUpdate, Outcomes, Outcome, Invalidated, SyncStates, Integrities, Results
<1>2. CASE ~Malformed(u) /\ (b.sync # "synced" \/ b.lastId = None)
  <2>1. Append(b.buffer, u) \in Seq(DepthUpdate)
    BY DEF Book
  <2>2. [b EXCEPT !.buffer = Append(b.buffer, u)] \in Book
    BY <2>1 DEF Book
  <2>3. Invalidated("gap_detected") \in Book
    BY ClearedType DEF Invalidated, SyncStates, Integrities
  <2> QED BY <1>2, <2>2, <2>3 DEF ApplyUpdate, BufferUpdate, Outcomes, Outcome, Results
<1>3. CASE ~Malformed(u) /\ b.sync = "synced" /\ b.lastId # None
  <2>1. ApplyLevels(b.levels, u.diff) \in Levels
    BY ApplyLevelsType DEF Book, DepthUpdate
  <2>2. [b EXCEPT !.levels = ApplyLevels(b.levels, u.diff), !.lastId = u.final,
                  !.integrity = "ok"] \in Book
    BY <2>1 DEF Book, DepthUpdate, Integrities
  <2>3. Invalidated("gap_detected") \in Book
    BY ClearedType DEF Invalidated, SyncStates, Integrities
  <2> QED BY <1>3, <2>2, <2>3 DEF ApplyUpdate, Outcomes, Outcome, Results
<1> QED BY <1>1, <1>2, <1>3

-----------------------------------------------------------------------------
(* The same on books that come from the tape. *)

\* An event of the tape is a depth update, and honest.
LEMMA EventHonest ==
  ASSUME NEW s \in Symbols, NEW first \in Nat \ {0}, NEW final \in Ids, first <= final
  PROVE  /\ DepthEvent(s, first, final) \in DepthUpdate
         /\ HonestEvent(s, DepthEvent(s, first, final))
<1>1. /\ first \in Nat /\ final \in Nat /\ first - 1 >= 0
  BY MaxIdAssumption DEF Ids
<1>2. \A k \in Slots : Market[s][final][k] \in Nat
  BY MarketAssumption DEF Levels
<1>3. DepthEvent(s, first, final).diff \in [Slots -> Nat \cup {None}]
  BY <1>2 DEF DepthEvent
<1>4. DepthEvent(s, first, final) \in DepthUpdate
  BY <1>1, <1>3 DEF DepthEvent, DepthUpdate
<1>5. DepthEvent(s, first, final).first = first /\ DepthEvent(s, first, final).final = final
  BY DEF DepthEvent
<1> QED BY <1>1, <1>4, <1>5 DEF HonestEvent

\* What MalformedReceived receives is a malformed depth update.
LEMMA MalformedEvent ==
  ASSUME NEW s \in Symbols, NEW final \in Ids, final >= 1
  PROVE  LET u == [DepthEvent(s, final, final) EXCEPT !.first = final + 1]
         IN  u \in DepthUpdate /\ Malformed(u)
<1>1. final \in Nat /\ final \in Nat \ {0}
  BY MaxIdAssumption DEF Ids
<1>2. DepthEvent(s, final, final) \in DepthUpdate /\ DepthEvent(s, final, final).final = final
  <2>1. DepthEvent(s, final, final) \in DepthUpdate
    BY <1>1, EventHonest
  <2> QED BY <2>1 DEF DepthEvent
<1> QED BY <1>1, <1>2 DEF DepthUpdate, Malformed

\* A REST snapshot lists levels of the tape at its id, all of them or, if the
\* limit cuts some off, none that are wrong.
LEMMA RestFaithful ==
  ASSUME NEW s \in Symbols, NEW id \in Ids
  PROVE  /\ RestSnapshot(s, id) \in RestDepthSnapshot
         /\ RestSnapshot(s, id).lastId = id
         /\ \A k \in Slots : LET q == RestSnapshot(s, id).levels[k]
                             IN q = Market[s][id][k] \/ (q = 0 /\ ~DeepRest)
<1>1. \A k \in Slots : Market[s][id][k] \in Nat
  BY MarketAssumption DEF Levels
<1>2. RestSnapshot(s, id).levels \in Levels
  BY <1>1 DEF RestSnapshot, Levels
<1>3. RestSnapshot(s, id) \in RestDepthSnapshot /\ RestSnapshot(s, id).lastId = id
  BY <1>2, MaxIdAssumption DEF RestSnapshot, RestDepthSnapshot, Ids
<1>4. ASSUME NEW k \in Slots
      PROVE  RestSnapshot(s, id).levels[k] = Market[s][id][k]
               \/ (RestSnapshot(s, id).levels[k] = 0 /\ ~DeepRest)
  BY DEF RestSnapshot, DeepRest
<1> QED BY <1>3, <1>4

\* What a synchronised book may become.
FaithfulOutcomes(s) ==
  {o \in Outcomes :
     /\ HonestBuffer(s, o.book)
     /\ IF o.result \in Failures THEN o.book.sync = "unsynced"
        ELSE o.book.sync = "synced" /\ Faithful(s, o.book)}

\* apply_update on a synchronised and faithful book: it is thrown away, or
\* stays faithful and does not go back.  The event must reach the book's id
\* (no gap), so a slot it does not mention has not changed since.
LEMMA ApplyFaithful ==
  ASSUME NEW s \in Symbols, NEW b \in Book, b.sync = "synced", Faithful(s, b), HonestBuffer(s, b),
         NEW u \in DepthUpdate, Malformed(u) \/ HonestEvent(s, u)
  PROVE  /\ ApplyUpdate(b, u) \in FaithfulOutcomes(s)
         /\ ApplyUpdate(b, u).result # "buffered"
         /\ ApplyUpdate(b, u).result \notin Failures => ApplyUpdate(b, u).book.lastId >= b.lastId
<1>1. ApplyUpdate(b, u) \in Outcomes
  BY ApplyUpdateType
<1>2. b.lastId \in Ids /\ b.lastId \in Nat /\ b.lastId # None
  BY MaxIdAssumption, NoneAssumption DEF Faithful, Ids
<1> HonestBuffer(s, Invalidated("gap_detected")) /\ HonestBuffer(s, Invalidated("invalid_sequence"))
  BY DEF HonestBuffer, Invalidated, Cleared
<1>3. CASE Malformed(u)
  BY <1>1, <1>3 DEF ApplyUpdate, FaithfulOutcomes, Outcome, Invalidated, Cleared, Failures
<1>4. CASE ~Malformed(u) /\ u.final <= b.lastId
  BY <1>1, <1>2, <1>4 DEF ApplyUpdate, FaithfulOutcomes, Outcome, Failures
<1>5. CASE ~Malformed(u) /\ ~(u.final <= b.lastId) /\ u.first > b.lastId + 1
  BY <1>1, <1>2, <1>5 DEF ApplyUpdate, FaithfulOutcomes, Outcome, Failures, Invalidated, Cleared
<1>6. CASE ~Malformed(u) /\ ~(u.final <= b.lastId) /\ ~(u.first > b.lastId + 1)
  <2> DEFINE nb == [b EXCEPT !.levels = ApplyLevels(b.levels, u.diff), !.lastId = u.final,
                             !.integrity = "ok"]
  <2>1. ApplyUpdate(b, u) = Outcome(nb, "applied")
    BY <1>2, <1>6 DEF ApplyUpdate
  <2>2. HonestEvent(s, u) /\ u.first \in Nat /\ u.final \in Ids /\ u.final \in Nat
    BY <1>6, MaxIdAssumption DEF HonestEvent, Ids
  <2>3. nb.sync = "synced" /\ nb.lastId = u.final /\ nb.levels = ApplyLevels(b.levels, u.diff)
    BY DEF Book
  <2> HonestBuffer(s, nb)
    BY DEF HonestBuffer
  <2>4. ASSUME NEW k \in Slots
        PROVE  nb.levels[k] = Market[s][u.final][k] \/ (nb.levels[k] = 0 /\ ~DeepRest)
    <3>1. u.diff[k] = IF k \in Touched(s, u.first, u.final) THEN Market[s][u.final][k] ELSE None
      BY <2>2 DEF HonestEvent, DepthEvent
    <3>2. Market[s][u.final][k] # None
      BY <2>2, MarketAssumption, NoneAssumption DEF Levels
    <3>3. CASE k \in Touched(s, u.first, u.final)
      BY <3>1, <3>2, <3>3, <2>3 DEF ApplyLevels
    <3>4. CASE k \notin Touched(s, u.first, u.final)
      <4>1. b.lastId \in (u.first - 1)..u.final
        BY <1>2, <1>6, <2>2
      <4>2. Market[s][b.lastId][k] = Market[s][u.final][k]
        BY <4>1, <3>4 DEF Touched
      <4>3. nb.levels[k] = b.levels[k]
        BY <3>1, <3>4, <2>3 DEF ApplyLevels
      <4> QED BY <4>2, <4>3 DEF Faithful
    <3> QED BY <3>3, <3>4
  <2>5. Faithful(s, nb)
    BY <2>2, <2>3, <2>4 DEF Faithful
  <2> HIDE DEF nb
  <2> QED BY <1>1, <1>2, <1>6, <2>1, <2>2, <2>3, <2>5 DEF FaithfulOutcomes, Outcome, Failures
<1> QED BY <1>3, <1>4, <1>5, <1>6

\* apply_update on any other book buffers the event or throws the book away.
LEMMA BufferFaithful ==
  ASSUME NEW s \in Symbols, NEW b \in Book, b.sync # "synced", HonestBuffer(s, b),
         NEW u \in DepthUpdate, Malformed(u) \/ HonestEvent(s, u)
  PROVE  LET out == ApplyUpdate(b, u)
         IN  /\ out \in Outcomes
             /\ out.result \in Failures \cup {"buffered"}
             /\ out.result \in Failures => out.book.sync = "unsynced"
             /\ out.book.sync # "synced"
             /\ HonestBuffer(s, out.book)
<1>1. ApplyUpdate(b, u) \in Outcomes
  BY ApplyUpdateType
<1>2. CASE Malformed(u) \/ Len(b.buffer) >= MaxBuffered
  BY <1>1, <1>2 DEF ApplyUpdate, BufferUpdate, Outcome, Invalidated, Cleared, Failures, HonestBuffer
<1>3. CASE ~Malformed(u) /\ ~(Len(b.buffer) >= MaxBuffered)
  <2> DEFINE nb == [b EXCEPT !.buffer = Append(b.buffer, u)]
  <2>1. ApplyUpdate(b, u) = Outcome(nb, "buffered")
    BY <1>3 DEF ApplyUpdate, BufferUpdate
  <2>2. b.buffer \in Seq(DepthUpdate) /\ nb.buffer = Append(b.buffer, u) /\ nb.sync = b.sync
    BY DEF Book
  <2>3. ASSUME NEW i \in 1..Len(nb.buffer) PROVE HonestEvent(s, nb.buffer[i])
    <3>1. nb.buffer[i] = u \/ (i \in 1..Len(b.buffer) /\ nb.buffer[i] = b.buffer[i])
      BY <2>2
    <3> QED BY <3>1, <1>3 DEF HonestBuffer
  <2>4. HonestBuffer(s, nb)
    BY <2>3 DEF HonestBuffer
  <2> HIDE DEF nb
  <2> QED BY <1>1, <2>1, <2>2, <2>4 DEF Outcome, Failures
<1> QED BY <1>2, <1>3

\* initialize_from_snapshot: only a snapshot that the buffered events connect
\* to leaves a synchronised book, and it is faithful.
LEMMA InitializeFaithful ==
  ASSUME NEW s \in Symbols, NEW b \in Book, b.sync # "synced", HonestBuffer(s, b), NEW id \in Ids
  PROVE  LET out == InitializeFromSnapshot(b, RestSnapshot(s, id))
         IN  /\ out \in Outcomes
             /\ out.result = "applied" => out.book.sync = "synced" /\ Faithful(s, out.book)
             /\ out.result # "applied" => out.book.sync # "synced"
             /\ HonestBuffer(s, out.book)
<1> DEFINE snapshot == RestSnapshot(s, id)
           fresh == Fresh(b.buffer, snapshot.lastId)
           loaded == [b EXCEPT !.levels = snapshot.levels, !.lastId = snapshot.lastId,
                               !.sync = "synced", !.buffer = <<>>]
           drained == Drain(loaded, b.buffer, fresh)
           out == InitializeFromSnapshot(b, snapshot)
<1>1. snapshot \in RestDepthSnapshot /\ snapshot.lastId = id
  BY RestFaithful
<1>2. loaded \in Book /\ loaded.sync = "synced" /\ loaded.buffer = <<>> /\ loaded.lastId = id
       /\ loaded.levels = snapshot.levels
  <2>1. snapshot.levels \in Levels /\ snapshot.lastId \in Nat /\ <<>> \in Seq(DepthUpdate)
    BY <1>1 DEF RestDepthSnapshot
  <2> HIDE DEF snapshot
  <2> QED BY <1>1, <2>1 DEF Book, SyncStates
<1>3. Faithful(s, loaded)
  BY <1>2, RestFaithful DEF Faithful
<1>4. Outcome(loaded, "applied") \in FaithfulOutcomes(s)
  <2> HIDE DEF loaded
  <2>1. HonestBuffer(s, loaded)
    BY <1>2 DEF HonestBuffer
  <2> QED BY <1>2, <1>3, <2>1 DEF FaithfulOutcomes, Outcomes, Outcome, Results, Failures
<1>5. ASSUME NEW o \in FaithfulOutcomes(s), NEW i \in (1..Len(b.buffer)) \cap fresh,
             o.result \notin Failures
      PROVE  ApplyUpdate(o.book, b.buffer[i]) \in FaithfulOutcomes(s)
  <2>1. b.buffer[i] \in DepthUpdate /\ HonestEvent(s, b.buffer[i])
    BY DEF Book, HonestBuffer
  <2>2. o.book \in Book /\ o.book.sync = "synced" /\ Faithful(s, o.book) /\ HonestBuffer(s, o.book)
    BY <1>5 DEF FaithfulOutcomes, Outcomes
  <2> QED BY <2>1, <2>2, ApplyFaithful
<1>6. drained \in FaithfulOutcomes(s)
  <2>1. Len(b.buffer) \in Nat
    BY DEF Book
  <2> HIDE DEF fresh, loaded
  <2> QED BY <1>4, <1>5, <2>1, DrainInvariant
<1>7. \/ out = Outcome([b EXCEPT !.sync = "syncing"], "ignored_old")
      \/ out = Outcome(Invalidated("gap_detected"), "gap_detected")
      \/ drained.result \in Failures /\ out = drained
      \/ drained.result \notin Failures
           /\ out = Outcome([drained.book EXCEPT !.integrity = "ok"], "applied")
  BY DEF InitializeFromSnapshot
<1> DEFINE Goal == /\ out \in Outcomes
                   /\ out.result = "applied" => out.book.sync = "synced" /\ Faithful(s, out.book)
                   /\ out.result # "applied" => out.book.sync # "synced"
                   /\ HonestBuffer(s, out.book)
<1> HIDE DEF drained, out
<1> SUFFICES Goal
  BY DEF out
<1>8. CASE out = Outcome([b EXCEPT !.sync = "syncing"], "ignored_old")
  BY <1>8 DEF Outcome, Outcomes, Book, Results, SyncStates, HonestBuffer
<1>9. CASE out = Outcome(Invalidated("gap_detected"), "gap_detected")
  BY <1>9, ClearedType DEF Outcome, Outcomes, Invalidated, Cleared, Results, SyncStates,
     Integrities, HonestBuffer
<1>10. CASE drained.result \in Failures /\ out = drained
  BY <1>6, <1>10 DEF FaithfulOutcomes, Failures
<1>11. CASE drained.result \notin Failures
             /\ out = Outcome([drained.book EXCEPT !.integrity = "ok"], "applied")
  <2> DEFINE nb == [drained.book EXCEPT !.integrity = "ok"]
  <2>1. drained.book \in Book /\ drained.book.sync = "synced" /\ Faithful(s, drained.book)
         /\ HonestBuffer(s, drained.book)
    BY <1>6, <1>11 DEF FaithfulOutcomes, Outcomes
  <2>2. nb \in Book /\ nb.sync = "synced" /\ nb.lastId = drained.book.lastId
         /\ nb.levels = drained.book.levels /\ nb.buffer = drained.book.buffer
    BY <2>1 DEF Book, Integrities
  <2>3. Faithful(s, nb) /\ HonestBuffer(s, nb)
    BY <2>1, <2>2 DEF Faithful, HonestBuffer
  <2>4. out = Outcome(nb, "applied")
    BY <1>11
  <2> HIDE DEF nb
  <2> QED BY <2>2, <2>3, <2>4 DEF Outcome, Outcomes, Results
<1> QED BY <1>7, <1>8, <1>9, <1>10, <1>11

\* start_buffering leaves an empty book that is not synchronised.
LEMMA BufferingBook ==
  ASSUME NEW s \in Symbols, NEW sync \in SyncStates \ {"synced"}, NEW integrity \in Integrities
  PROVE  /\ StartBuffering(sync, integrity) \in Book
         /\ StartBuffering(sync, integrity).sync # "synced"
         /\ HonestBuffer(s, StartBuffering(sync, integrity))
<1>1. StartBuffering(sync, integrity) \in Book
  BY ClearedType DEF StartBuffering
<1> QED BY <1>1 DEF StartBuffering, Cleared, HonestBuffer

\* A book that a step leaves in the place of another keeps the parts of the
\* invariant that speak of books alone.
BookOK(s, b) == b \in Book /\ HonestBuffer(s, b) /\ (b.sync = "synced" => Faithful(s, b))

BooksOK(bs) == bs \in [Symbols -> Book] /\ \A s \in Symbols : BookOK(s, bs[s])

\* The invariant gives what is known of each book.
LEMMA BooksOKNow ==
  ASSUME IndInv PROVE BooksOK(books)
BY DEF IndInv, TypeOK, BookFaithful, BuffersHonest, Synced, BooksOK, BookOK

\* And conversely for the parts that speak of books.
LEMMA BooksOKNext ==
  ASSUME BooksOK(books')
  PROVE  books' \in [Symbols -> Book] /\ BookFaithful' /\ BuffersHonest'
BY DEF BookFaithful, BuffersHonest, Synced, BooksOK, BookOK

\* Replacing one book by one that is as good keeps all good.
LEMMA BookReplaced ==
  ASSUME BooksOK(books), NEW s \in Symbols, NEW b, BookOK(s, b),
         books' = [books EXCEPT ![s] = b]
  PROVE  BooksOK(books')
BY DEF BooksOK, BookOK

\* The parts of the invariant that speak of where the tasks are.
ControlInv ==
  /\ tasks \in [Symbols -> [pc : TaskPcs, first : Nat \cup {None}]]
  /\ ws \in [pc : WsPcs, symbol : Symbols \cup {None}, snapshot : Reduced \cup {None}]
  /\ stop \in StopPcs
  /\ NoOrphanedBook /\ NoResyncOfSyncedBook /\ TasksMatchConnection /\ StopIsQuiet

\* The parts that speak of what is handed on.
HandedInv ==
  /\ seen \in [Symbols -> Ids]
  /\ published \in [Symbols -> Reduced \cup {None}]
  /\ PublishedTopOfBook /\ PendingTopOfBook

\* The inductive invariant in three parts.
LEMMA IndInvParts == IndInv <=> BooksOK(books) /\ ControlInv /\ HandedInv
BY DEF IndInv, TypeOK, BookFaithful, BuffersHonest, Synced, BooksOK, BookOK, ControlInv, HandedInv

\* The actions of the three tasks that leave the books alone.
ControlStep ==
  \/ Connected \/ RecvFailed \/ Disconnect \/ WsTasksCancelled \/ ReconnectAlerted
  \/ OtherReceived \/ TradePublished \/ SnapshotPublished \/ QueueAlerted \/ WsUnwound
  \/ StopCalled \/ StopTasksCancelled \/ Stopped
  \/ \E s \in Symbols : FetchFailed(s) \/ FetchAlerted(s) \/ TaskUnwound(s)

\* They preserve the invariant: one step per action for where the tasks are.
LEMMA ControlStepPreserves ==
  ASSUME BooksOK(books), ControlInv, HandedInv, ControlStep
  PROVE  BooksOK(books') /\ ControlInv' /\ HandedInv'
<1>1. UNCHANGED books
  BY DEF ControlStep, Connected, RecvFailed, Disconnect, WsTasksCancelled, ReconnectAlerted, OtherReceived,
     TradePublished, SnapshotPublished, QueueAlerted, WsUnwound, StopCalled, StopTasksCancelled, Stopped,
     FetchFailed, FetchAlerted, TaskUnwound
<1>2. BooksOK(books')
  BY <1>1
<1>3. ControlInv'
  <2> USE <1>1, <1>2 DEF ControlInv, NoOrphanedBook, NoResyncOfSyncedBook, TasksMatchConnection,
          StopIsQuiet, Running, Alive, Synced, Stopping, Open, TaskPcs, WsPcs, StopPcs, Task, Ws,
          BooksOK
  <2>1. CASE Connected
    BY <2>1 DEF NextPayload, Connected
  <2>2. CASE Disconnect
    BY <2>2 DEF CancelTasks, Disconnect
  <2>3. CASE WsTasksCancelled
    BY <2>3 DEF WsTasksCancelled
  <2>4. CASE ReconnectAlerted
    BY <2>4 DEF ReconnectAlerted
  <2>5. CASE SnapshotPublished
    BY <2>5 DEF NextPayload, SnapshotPublished
  <2>6. CASE OtherReceived
    BY <2>6 DEF NextPayload, OtherReceived
  <2>7. CASE QueueAlerted
    BY <2>7 DEF NextPayload, QueueAlerted
  <2>8. CASE WsUnwound
    BY <2>8 DEF WsUnwound
  <2>9. CASE StopCalled
    BY <2>9 DEF CancelTasks, CancelWs, StopCalled
  <2>10. CASE StopTasksCancelled
    BY <2>10 DEF CancelWs, StopTasksCancelled
  <2>11. CASE Stopped
    BY <2>11 DEF Stopped
  <2>12. ASSUME NEW s \in Symbols, FetchFailed(s) PROVE ControlInv'
    BY <2>12 DEF FetchFailed
  <2>13. ASSUME NEW s \in Symbols, FetchAlerted(s) PROVE ControlInv'
    BY <2>13 DEF FetchAlerted
  <2>14. ASSUME NEW s \in Symbols, TaskUnwound(s) PROVE ControlInv'
    BY <2>14 DEF TaskUnwound
  <2>15. CASE RecvFailed
    BY <2>15 DEF RecvFailed
  <2>16. CASE TradePublished
    BY <2>16 DEF NextPayload, TradePublished
  <2> QED BY <2>1, <2>2, <2>3, <2>4, <2>5, <2>6, <2>7, <2>8, <2>9, <2>10, <2>11, <2>12, <2>13, <2>14,
          <2>15, <2>16 DEF ControlStep
<1>4. HandedInv'
  <2>1. UNCHANGED seen
    BY DEF ControlStep, Connected, RecvFailed, Disconnect, WsTasksCancelled, ReconnectAlerted, OtherReceived,
       TradePublished, SnapshotPublished, QueueAlerted, WsUnwound, StopCalled, StopTasksCancelled, Stopped,
       FetchFailed, FetchAlerted, TaskUnwound
  <2>2. CASE SnapshotPublished
    BY <2>2 DEF HandedInv, PublishedTopOfBook, PendingTopOfBook, Ws, NextPayload, SnapshotPublished
  <2>3. CASE ~SnapshotPublished
    <3>1. UNCHANGED published /\ (UNCHANGED ws \/ \E pc \in WsPcs \ {"publish", "gap_alert"} : ws' = Ws(pc))
      BY <2>3 DEF ControlStep, Connected, RecvFailed, Disconnect, WsTasksCancelled, ReconnectAlerted,
         OtherReceived, TradePublished, QueueAlerted, WsUnwound, StopCalled, StopTasksCancelled, Stopped,
         FetchFailed, FetchAlerted, TaskUnwound, NextPayload, CancelWs, WsPcs
    <3> QED BY <2>1, <3>1 DEF HandedInv, PublishedTopOfBook, PendingTopOfBook, Ws
  <2> QED BY <2>2, <2>3
<1> QED BY <1>2, <1>3, <1>4

\* The head of the websocket loop empties every book, when no task runs.
LEMMA WsLoopTopPreserves ==
  ASSUME BooksOK(books), ControlInv, HandedInv, WsLoopTop
  PROVE  BooksOK(books') /\ ControlInv' /\ HandedInv'
<1>1. \A s \in Symbols : BookOK(s, StartBuffering("buffering", "unknown"))
                          /\ StartBuffering("buffering", "unknown").sync # "synced"
  BY BufferingBook DEF BookOK, SyncStates, Integrities
<1>2. BooksOK(books')
  BY <1>1 DEF WsLoopTop, BooksOK, BookOK
<1>3. ControlInv'
  BY <1>1, <1>2 DEF ControlInv, NoOrphanedBook, NoResyncOfSyncedBook,
     TasksMatchConnection, StopIsQuiet, Running, Alive, Synced, Stopping, Open, TaskPcs, WsPcs,
     StopPcs, Task, Ws, WsLoopTop
<1>4. HandedInv'
  BY DEF HandedInv, PublishedTopOfBook, PendingTopOfBook, Ws, WsLoopTop
<1> QED BY <1>2, <1>3, <1>4

\* _trigger_resync: the book it empties has no task, the one it leaves has.
LEMMA TriggerResyncPreserves ==
  ASSUME BooksOK(books), ControlInv, HandedInv, TriggerResync
  PROVE  BooksOK(books') /\ ControlInv' /\ HandedInv'
<1>1. ws.symbol \in Symbols
  BY DEF TriggerResync, HandedInv, PendingTopOfBook
<1> DEFINE b == StartBuffering("resyncing", books[ws.symbol].integrity)
<1>2. BookOK(ws.symbol, b) /\ b.sync # "synced"
  <2>1. books[ws.symbol].integrity \in Integrities
    BY <1>1 DEF BooksOK, BookOK, Book
  <2> QED BY <1>1, <2>1, BufferingBook DEF BookOK, SyncStates
<1>3. books' = books \/ books' = [books EXCEPT ![ws.symbol] = b]
  BY <1>1 DEF TriggerResync
<1> HIDE DEF b
<1>4. BooksOK(books')
  BY <1>1, <1>2, <1>3, BookReplaced
<1>5. ControlInv'
  <2>1. CASE Alive(ws.symbol)
    <3>1. books' = books /\ tasks' = tasks /\ stop' = stop /\ ws' = NextPayload
      BY <2>1 DEF TriggerResync
    <3> QED BY <1>1, <2>1, <3>1 DEF ControlInv, NoOrphanedBook, NoResyncOfSyncedBook,
         TasksMatchConnection, StopIsQuiet, Running, Alive, Synced, Stopping, Open, TaskPcs, WsPcs,
         StopPcs, Task, Ws, NextPayload, TriggerResync
  <2>2. CASE ~Alive(ws.symbol)
    <3>1. /\ books' = [books EXCEPT ![ws.symbol] = b]
          /\ tasks' = [tasks EXCEPT ![ws.symbol] = Task("top", None)]
          /\ stop' = stop /\ ws' = NextPayload /\ ws.pc = "gap_alert"
      BY <2>2 DEF TriggerResync, b
    <3>2. books \in [Symbols -> Book]
      BY DEF BooksOK
    <3> QED BY <1>1, <1>2, <3>1, <3>2 DEF ControlInv, NoOrphanedBook, NoResyncOfSyncedBook,
         TasksMatchConnection, StopIsQuiet, Running, Alive, Synced, Stopping, Open, TaskPcs, WsPcs,
         StopPcs, Task, Ws, NextPayload
  <2> QED BY <2>1, <2>2
<1>6. HandedInv'
  BY DEF HandedInv, PublishedTopOfBook, PendingTopOfBook, Ws, TriggerResync, NextPayload
<1> QED BY <1>4, <1>5, <1>6

\* The loop of a synchronisation task, on a book that is not synchronised.
LEMMA SyncLoopPreserves ==
  ASSUME BooksOK(books), ControlInv, HandedInv, NEW s \in Symbols, Running(s),
         NEW b, BookOK(s, b), b.sync # "synced", ~Stopping \/ b = books[s],
         SyncLoop(s, b), UNCHANGED <<ws, stop, seen, published>>
  PROVE  BooksOK(books') /\ ControlInv' /\ HandedInv'
<1> DEFINE nb == IF Stopping THEN b ELSE [b EXCEPT !.sync = "syncing"]
<1>1. BookOK(s, nb) /\ nb.sync # "synced"
  BY DEF BookOK, Book, SyncStates, HonestBuffer
<1>2. books' = [books EXCEPT ![s] = nb]
  BY DEF SyncLoop
<1>3. b.buffer # <<>> => b.buffer[1].first \in Nat
  <2>1. b.buffer \in Seq(DepthUpdate)
    BY DEF BookOK, Book
  <2>2. b.buffer # <<>> => b.buffer[1] \in DepthUpdate
    BY <2>1
  <2> QED BY <2>2 DEF DepthUpdate
<1> HIDE DEF nb
<1>4. BooksOK(books')
  BY <1>1, <1>2, BookReplaced
<1>5. ControlInv'
  BY <1>1, <1>2, <1>3, <1>4 DEF ControlInv, NoOrphanedBook, NoResyncOfSyncedBook,
     TasksMatchConnection, StopIsQuiet, Running, Alive, Synced, Stopping, Open, TaskPcs, WsPcs,
     StopPcs, Task, Ws, SyncLoop, BooksOK
<1>6. HandedInv'
  BY DEF HandedInv, PublishedTopOfBook, PendingTopOfBook, Ws
<1> QED BY <1>4, <1>5, <1>6

\* The loop wakes up from its sleep.
LEMMA SyncTopPreserves ==
  ASSUME BooksOK(books), ControlInv, HandedInv, NEW s \in Symbols, SyncTop(s)
  PROVE  BooksOK(books') /\ ControlInv' /\ HandedInv'
<1>1. Running(s) /\ books[s].sync # "synced" /\ BookOK(s, books[s])
  BY DEF SyncTop, Running, ControlInv, NoResyncOfSyncedBook, Synced, BooksOK
<1> QED BY <1>1, SyncLoopPreserves DEF SyncTop

\* The loop starts over with an emptied book.
LEMMA SyncAlertedPreserves ==
  ASSUME BooksOK(books), ControlInv, HandedInv, NEW s \in Symbols, SyncAlerted(s)
  PROVE  BooksOK(books') /\ ControlInv' /\ HandedInv'
<1> DEFINE b == StartBuffering("buffering", "unknown")
<1>1. BookOK(s, b) /\ b.sync # "synced"
  BY BufferingBook DEF BookOK, SyncStates, Integrities
<1>2. Running(s) /\ ~Stopping
  BY DEF SyncAlerted, Running, ControlInv, StopIsQuiet
<1> HIDE DEF b
<1> QED BY <1>1, <1>2, SyncLoopPreserves DEF SyncAlerted, b

\* A snapshot that is new enough is tried on the book.
LEMMA SynchronisePreserves ==
  ASSUME BooksOK(books), ControlInv, HandedInv, NEW s \in Symbols, tasks[s].pc = "fetch",
         NEW id \in Ids, Synchronise(s, RestSnapshot(s, id)),
         UNCHANGED <<ws, stop, seen, published>>
  PROVE  BooksOK(books') /\ ControlInv' /\ HandedInv'
<1> DEFINE out == InitializeFromSnapshot(books[s], RestSnapshot(s, id))
<1>1. BookOK(s, books[s]) /\ books[s].sync # "synced"
  BY DEF Running, ControlInv, NoResyncOfSyncedBook, Synced, BooksOK
<1>2. BookOK(s, out.book) /\ (out.result = "applied" <=> out.book.sync = "synced")
  BY <1>1, InitializeFaithful DEF BookOK, Outcomes
<1>3. /\ books' = [books EXCEPT ![s] = out.book]
      /\ tasks' = [tasks EXCEPT ![s] = Task(IF out.result = "applied" THEN "idle"
                                            ELSE "sync_alert", None)]
  BY DEF Synchronise
<1> HIDE DEF out
<1>4. BooksOK(books')
  BY <1>2, <1>3, BookReplaced
<1>5. ControlInv'
  BY <1>2, <1>3, <1>4 DEF ControlInv, NoOrphanedBook, NoResyncOfSyncedBook,
     TasksMatchConnection, StopIsQuiet, Running, Alive, Synced, Stopping, Open, TaskPcs, WsPcs,
     StopPcs, Task, Ws, BooksOK
<1>6. HandedInv'
  BY DEF HandedInv, PublishedTopOfBook, PendingTopOfBook, Ws
<1> QED BY <1>4, <1>5, <1>6

\* A fetch returns.
LEMMA SnapshotFetchedPreserves ==
  ASSUME BooksOK(books), ControlInv, HandedInv, NEW s \in Symbols, NEW id \in Ids,
         SnapshotFetched(s, id)
  PROVE  BooksOK(books') /\ ControlInv' /\ HandedInv'
<1>1. CASE id < CurrentFirst(s)
  <2>1. Running(s) /\ books[s].sync # "synced" /\ BookOK(s, books[s])
    BY DEF SnapshotFetched, Running, ControlInv, NoResyncOfSyncedBook, Synced, BooksOK
  <2> QED BY <1>1, <2>1, SyncLoopPreserves DEF SnapshotFetched
<1>2. CASE ~(id < CurrentFirst(s))
  BY <1>2, SynchronisePreserves DEF SnapshotFetched
<1> QED BY <1>1, <1>2

-----------------------------------------------------------------------------
\* The depth handler, on any event that the tape or a broken feed can give.
LEMMA DepthOutcome ==
  ASSUME NEW s \in Symbols, NEW b, BookOK(s, b), NEW u \in DepthUpdate,
         Malformed(u) \/ HonestEvent(s, u)
  PROVE  LET out == ApplyUpdate(b, u)
         IN  /\ BookOK(s, out.book)
             /\ out.result \in Failures => out.book.sync # "synced"
             /\ out.result \notin Failures => (out.book.sync = "synced" <=> b.sync = "synced")
             /\ out.result = "applied" => out.book.sync = "synced"
<1> DEFINE out == ApplyUpdate(b, u)
<1>1. CASE b.sync = "synced"
  <2>1. out \in FaithfulOutcomes(s)
    BY <1>1, ApplyFaithful DEF BookOK
  <2> HIDE DEF out
  <2>2. BookOK(s, out.book) /\ (out.result \in Failures => out.book.sync # "synced")
          /\ (out.result \notin Failures => out.book.sync = "synced")
    BY <2>1 DEF FaithfulOutcomes, Outcomes, BookOK
  <2> QED BY <1>1, <2>2 DEF out, Failures
<1>2. CASE b.sync # "synced"
  <2>1. /\ out \in Outcomes
        /\ out.result \in Failures \cup {"buffered"}
        /\ out.book.sync # "synced"
        /\ HonestBuffer(s, out.book)
    BY <1>2, BufferFaithful DEF BookOK
  <2> HIDE DEF out
  <2> QED BY <1>2, <2>1 DEF Outcomes, BookOK, Failures, out
<1> QED BY <1>1, <1>2

\* The depth handler up to its first await.
LEMMA HandleDepthPreserves ==
  ASSUME BooksOK(books), ControlInv, HandedInv, NEW s \in Symbols, NEW u \in DepthUpdate,
         Malformed(u) \/ HonestEvent(s, u), ws.pc = "recv", HandleDepth(s, u),
         NEW final \in Ids, seen' = [seen EXCEPT ![s] = final],
         UNCHANGED <<tasks, stop, published>>
  PROVE  BooksOK(books') /\ ControlInv' /\ HandedInv'
<1> DEFINE out == ApplyUpdate(books[s], u)
<1>1. /\ BookOK(s, out.book)
      /\ out.result \in Failures => out.book.sync # "synced"
      /\ out.result \notin Failures => (out.book.sync = "synced" <=> books[s].sync = "synced")
      /\ out.result = "applied" => out.book.sync = "synced"
  BY DepthOutcome DEF BooksOK
<1>2. /\ books' = [books EXCEPT ![s] = out.book]
      /\ \/ /\ out.result \in Failures
            /\ ws' = [pc |-> "gap_alert", symbol |-> s, snapshot |-> None]
         \/ /\ out.result \notin Failures
            /\ ws' = NextPayload
         \/ /\ out.result = "applied"
            /\ Reducible(out.book)
            /\ ws' = [pc |-> "publish", symbol |-> s, snapshot |-> ReducedSnapshot(out.book)]
  BY DEF HandleDepth, Failures
<1> HIDE DEF out
<1>3. BooksOK(books')
  BY <1>1, <1>2, BookReplaced
<1>4. out.result = "applied" /\ Reducible(out.book) => ReducedSnapshot(out.book) \in Reduced
       /\ (DeepRest => IsTopOf(s, ReducedSnapshot(out.book)))
  <2> SUFFICES ASSUME out.result = "applied", Reducible(out.book)
               PROVE  ReducedSnapshot(out.book) \in Reduced
                       /\ (DeepRest => IsTopOf(s, ReducedSnapshot(out.book)))
    OBVIOUS
  <2>1. out.book \in Book /\ Faithful(s, out.book)
    BY <1>1 DEF BookOK
  <2>2. \A side \in {"bid", "ask"} : Top(out.book.levels, side) \in [Prices -> Nat]
    BY <2>1 DEF Book, Levels, Top, Slots
  <2>3. out.book.lastId \in Ids /\ out.book.lastId \in Nat
    BY <2>1, MaxIdAssumption DEF Faithful, Ids
  <2>4. DeepRest => out.book.levels = Market[s][out.book.lastId]
    BY <2>1, <2>3, MarketAssumption DEF Faithful, Book, Levels
  <2> QED BY <2>2, <2>3, <2>4 DEF ReducedSnapshot, Reduced, IsTopOf
<1>5. out.result \notin Failures \/ out.result # "applied"
  BY DEF Failures
<1>6. ControlInv'
  <2>1. /\ ws' \in [pc : WsPcs, symbol : Symbols \cup {None}, snapshot : Reduced \cup {None}]
        /\ ws'.pc \in {"recv", "unwinding", "gap_alert", "publish"}
        /\ ~Stopping => ws'.pc # "unwinding"
        /\ ws'.pc = "gap_alert" => out.result \in Failures /\ ws'.symbol = s
        /\ out.result \in Failures /\ ~Stopping => ws'.pc = "gap_alert" /\ ws'.symbol = s
    BY <1>2, <1>4, <1>5 DEF NextPayload, Ws, WsPcs, Stopping
  <2>2. books \in [Symbols -> Book] /\ tasks' = tasks /\ stop' = stop
    BY DEF BooksOK
  <2> QED BY <1>1, <1>2, <1>5, <2>1, <2>2 DEF ControlInv, NoOrphanedBook, NoResyncOfSyncedBook,
     TasksMatchConnection, StopIsQuiet, Running, Alive, Synced, Stopping, Open, TaskPcs, WsPcs,
     StopPcs, Task, Ws
<1>7. HandedInv'
  BY <1>2, <1>4 DEF HandedInv, PublishedTopOfBook, PendingTopOfBook, Ws, NextPayload
<1> QED BY <1>3, <1>6, <1>7

\* An event of the tape is handled.
LEMMA DepthReceivedPreserves ==
  ASSUME BooksOK(books), ControlInv, HandedInv, NEW s \in Symbols, DepthReceived(s)
  PROVE  BooksOK(books') /\ ControlInv' /\ HandedInv'
<1>1. PICK first \in (seen[s] + 1)..MaxId, final \in (seen[s] + 1)..MaxId :
         /\ first <= final
         /\ HandleDepth(s, DepthEvent(s, first, final))
         /\ seen' = [seen EXCEPT ![s] = final]
  BY DEF DepthReceived
<1>2. first \in Nat \ {0} /\ final \in Ids
  <2>1. seen[s] \in Nat
    BY MaxIdAssumption DEF HandedInv, Ids
  <2> QED BY <2>1, MaxIdAssumption DEF Ids
<1>3. DepthEvent(s, first, final) \in DepthUpdate /\ HonestEvent(s, DepthEvent(s, first, final))
  BY <1>1, <1>2, EventHonest
<1> QED BY <1>1, <1>2, <1>3, HandleDepthPreserves DEF DepthReceived

\* A malformed event is handled.
LEMMA MalformedReceivedPreserves ==
  ASSUME BooksOK(books), ControlInv, HandedInv, NEW s \in Symbols, MalformedReceived(s)
  PROVE  BooksOK(books') /\ ControlInv' /\ HandedInv'
<1>1. PICK final \in (seen[s] + 1)..MaxId :
         /\ HandleDepth(s, [DepthEvent(s, final, final) EXCEPT !.first = final + 1])
         /\ seen' = [seen EXCEPT ![s] = final]
  BY DEF MalformedReceived
<1>2. final >= 1 /\ final \in Ids
  <2>1. seen[s] \in Nat
    BY MaxIdAssumption DEF HandedInv, Ids
  <2> QED BY <2>1, MaxIdAssumption DEF Ids
<1> DEFINE u == [DepthEvent(s, final, final) EXCEPT !.first = final + 1]
<1>3. u \in DepthUpdate /\ Malformed(u)
  BY <1>2, MalformedEvent
<1> HIDE DEF u
<1>4. HandleDepth(s, u)
  BY <1>1 DEF u
<1> QED BY <1>1, <1>2, <1>3, <1>4, HandleDepthPreserves DEF MalformedReceived

-----------------------------------------------------------------------------
\* The invariant holds at the start.
LEMMA InitInv == Init => IndInv
<1> SUFFICES ASSUME Init PROVE IndInv
  OBVIOUS
<1>1. NewBook \in Book /\ NewBook.sync # "synced" /\ NewBook.buffer = <<>>
  BY ClearedType DEF NewBook, Cleared, SyncStates, Integrities
<1>2. BooksOK(books)
  BY <1>1 DEF Init, BooksOK, BookOK, HonestBuffer
<1>3. ControlInv
  BY <1>1 DEF ControlInv, NoOrphanedBook, NoResyncOfSyncedBook, TasksMatchConnection,
     StopIsQuiet, Running, Synced, Stopping, Open, TaskPcs, WsPcs, StopPcs, Task, Ws, Init
<1>4. HandedInv
  BY MaxIdAssumption DEF HandedInv, PublishedTopOfBook, PendingTopOfBook, Ws, Init, Ids
<1> QED BY <1>2, <1>3, <1>4, IndInvParts

\* A stuttering step preserves the invariant.
LEMMA StutterPreserves ==
  ASSUME BooksOK(books), ControlInv, HandedInv, UNCHANGED vars
  PROVE  BooksOK(books') /\ ControlInv' /\ HandedInv'
<1>1. BooksOK(books')
  BY DEF vars
<1>2. ControlInv'
  BY DEF vars, ControlInv, NoOrphanedBook, NoResyncOfSyncedBook, TasksMatchConnection,
     StopIsQuiet, Running, Synced, Stopping, Open
<1>3. HandedInv'
  BY DEF vars, HandedInv, PublishedTopOfBook, PendingTopOfBook
<1> QED BY <1>1, <1>2, <1>3

\* Every step preserves the invariant.
LEMMA NextInv == IndInv /\ [Next]_vars => IndInv'
<1> SUFFICES ASSUME IndInv, [Next]_vars
             PROVE  BooksOK(books') /\ ControlInv' /\ HandedInv'
  <2>1. (BooksOK(books) /\ ControlInv /\ HandedInv)' => IndInv'
    BY DEF IndInv, TypeOK, BookFaithful, BuffersHonest, Synced, BooksOK, BookOK, ControlInv, HandedInv
  <2> QED BY <2>1
<1> DEFINE Goal == BooksOK(books') /\ ControlInv' /\ HandedInv'
<1> BooksOK(books) /\ ControlInv /\ HandedInv
  BY IndInvParts
<1>1. CASE ControlStep
  BY <1>1, ControlStepPreserves
<1>2. CASE WsLoopTop
  BY <1>2, WsLoopTopPreserves
<1>3. CASE TriggerResync
  BY <1>3, TriggerResyncPreserves
<1>4. ASSUME NEW s \in Symbols, DepthReceived(s) PROVE Goal
  BY <1>4, DepthReceivedPreserves
<1>5. ASSUME NEW s \in Symbols, MalformedReceived(s) PROVE Goal
  BY <1>5, MalformedReceivedPreserves
<1>6. ASSUME NEW s \in Symbols, SyncTop(s) PROVE Goal
  BY <1>6, SyncTopPreserves
<1>7. ASSUME NEW s \in Symbols, NEW id \in Ids, SnapshotFetched(s, id) PROVE Goal
  BY <1>7, SnapshotFetchedPreserves
<1>8. ASSUME NEW s \in Symbols, SyncAlerted(s) PROVE Goal
  BY <1>8, SyncAlertedPreserves
<1>9. CASE UNCHANGED vars
  BY <1>9, StutterPreserves
<1> QED BY <1>1, <1>2, <1>3, <1>4, <1>5, <1>6, <1>7, <1>8, <1>9
       DEF Next, WebsocketTask, StopTask, SyncTask, StaysStopped, ControlStep

\* The inductive invariant holds in every reachable state, for every set of
\* symbols, tape, depth, buffer bound and REST limit.
THEOREM Invariance == Spec => []IndInv
BY InitInv, NextInv, PTL DEF Spec

\* Type correctness.
THEOREM TypeCorrect == Spec => []TypeOK
<1>1. IndInv => TypeOK
  BY DEF IndInv
<1> QED BY <1>1, Invariance, PTL

\* A synchronised book is the exchange's book at its last update id.
THEOREM BooksStayFaithful == Spec => []BookFaithful
<1>1. IndInv => BookFaithful
  BY DEF IndInv
<1> QED BY <1>1, Invariance, PTL

\* What is published is the top of the exchange's book.
THEOREM PublishedIsTop == Spec => []PublishedTopOfBook
<1>1. IndInv => PublishedTopOfBook
  BY DEF IndInv
<1> QED BY <1>1, Invariance, PTL

\* No book on an open connection is left without a task to synchronise it.
THEOREM NoBookOrphaned == Spec => []NoOrphanedBook
<1>1. IndInv => NoOrphanedBook
  BY DEF IndInv
<1> QED BY <1>1, Invariance, PTL

\* No task runs for a synchronised book.
THEOREM NoSyncedBookResynced == Spec => []NoResyncOfSyncedBook
<1>1. IndInv => NoResyncOfSyncedBook
  BY DEF IndInv
<1> QED BY <1>1, Invariance, PTL

-----------------------------------------------------------------------------
RollbackFree == \A s \in Symbols : Synced(s) /\ Synced(s)' => books'[s].lastId >= books[s].lastId

\* The id of a synchronised book is a number.
LEMMA IdsAreNumbers ==
  ASSUME BooksOK(books), NEW s \in Symbols, Synced(s)
  PROVE  books[s].lastId \in Nat
BY MaxIdAssumption DEF BooksOK, BookOK, Synced, Faithful, Ids

\* Books that stay or are emptied do not go back.
LEMMA SameBooksRollbackFree ==
  ASSUME BooksOK(books), \A s \in Symbols : books'[s] = books[s] \/ books'[s].sync # "synced"
  PROVE  RollbackFree
BY IdsAreNumbers DEF RollbackFree, Synced

\* A book that was not synchronised has nothing to go back from.
LEMMA UnsyncedRollbackFree ==
  ASSUME BooksOK(books), NEW s \in Symbols, ~Synced(s), NEW b, books' = [books EXCEPT ![s] = b]
  PROVE  RollbackFree
BY IdsAreNumbers DEF RollbackFree, Synced, BooksOK

\* The depth handler does not take a synchronised book back.
LEMMA HandleDepthRollbackFree ==
  ASSUME BooksOK(books), NEW s \in Symbols, NEW u \in DepthUpdate,
         Malformed(u) \/ HonestEvent(s, u), HandleDepth(s, u)
  PROVE  RollbackFree
<1> DEFINE out == ApplyUpdate(books[s], u)
<1>1. books' = [books EXCEPT ![s] = out.book] /\ books \in [Symbols -> Book] /\ BookOK(s, books[s])
  BY DEF HandleDepth, BooksOK
<1>2. CASE Synced(s)
  <2>1. out \in FaithfulOutcomes(s) /\ (out.result \notin Failures => out.book.lastId >= books[s].lastId)
    BY <1>1, <1>2, ApplyFaithful DEF BookOK, Synced
  <2>2. out.book.sync = "synced" => out.book.lastId >= books[s].lastId
    BY <2>1 DEF FaithfulOutcomes
  <2> HIDE DEF out
  <2> QED BY <1>1, <2>2, IdsAreNumbers DEF RollbackFree, Synced
<1>3. CASE ~Synced(s)
  BY <1>1, <1>3, UnsyncedRollbackFree
<1> QED BY <1>2, <1>3

\* No step takes a synchronised book back.
LEMMA StepRollbackFree == IndInv /\ [Next]_vars => RollbackFree
<1> SUFFICES ASSUME IndInv, [Next]_vars PROVE RollbackFree
  OBVIOUS
<1> BooksOK(books) /\ ControlInv /\ HandedInv
  BY IndInvParts
<1>1. ASSUME UNCHANGED books PROVE RollbackFree
  BY <1>1, SameBooksRollbackFree
<1>2. CASE WsLoopTop
  <2>1. \A s \in Symbols : books'[s] = books[s] \/ books'[s].sync # "synced"
    BY <1>2 DEF WsLoopTop, StartBuffering, Cleared
  <2> QED BY <2>1, SameBooksRollbackFree
<1>3. CASE TriggerResync
  <2>1. \A s \in Symbols : books'[s] = books[s] \/ books'[s].sync # "synced"
    BY <1>3 DEF TriggerResync, StartBuffering, Cleared, BooksOK
  <2> QED BY <2>1, SameBooksRollbackFree
<1>4. ASSUME NEW s \in Symbols, DepthReceived(s) PROVE RollbackFree
  <2>1. PICK first \in (seen[s] + 1)..MaxId, final \in (seen[s] + 1)..MaxId :
           first <= final /\ HandleDepth(s, DepthEvent(s, first, final))
    BY <1>4 DEF DepthReceived
  <2>2. first \in Nat \ {0} /\ final \in Ids
    BY MaxIdAssumption DEF HandedInv, Ids
  <2> QED BY <2>1, <2>2, EventHonest, HandleDepthRollbackFree
<1>5. ASSUME NEW s \in Symbols, MalformedReceived(s) PROVE RollbackFree
  <2>1. PICK final \in (seen[s] + 1)..MaxId :
           HandleDepth(s, [DepthEvent(s, final, final) EXCEPT !.first = final + 1])
    BY <1>5 DEF MalformedReceived
  <2>2. final >= 1 /\ final \in Ids
    BY MaxIdAssumption DEF HandedInv, Ids
  <2> QED BY <2>1, <2>2, MalformedEvent, HandleDepthRollbackFree
<1>6. ASSUME NEW s \in Symbols, SyncTop(s) \/ SyncAlerted(s) \/ \E id \in Ids : SnapshotFetched(s, id)
      PROVE  RollbackFree
  <2>1. ~Synced(s)
    BY <1>6 DEF SyncTop, SyncAlerted, SnapshotFetched, ControlInv, NoResyncOfSyncedBook, Running
  <2>2. \E b : books' = [books EXCEPT ![s] = b]
    BY <1>6 DEF SyncTop, SyncAlerted, SnapshotFetched, SyncLoop, Synchronise
  <2> QED BY <2>1, <2>2, UnsyncedRollbackFree
<1>7. ASSUME NEW s \in Symbols, FetchFailed(s) \/ FetchAlerted(s) \/ TaskUnwound(s)
      PROVE  RollbackFree
  BY <1>1, <1>7 DEF FetchFailed, FetchAlerted, TaskUnwound
<1>8. CASE \/ Connected \/ RecvFailed \/ Disconnect \/ WsTasksCancelled \/ ReconnectAlerted
           \/ OtherReceived \/ TradePublished \/ SnapshotPublished \/ QueueAlerted \/ WsUnwound
  BY <1>1, <1>8 DEF Connected, RecvFailed, Disconnect, WsTasksCancelled, ReconnectAlerted,
     OtherReceived, TradePublished, SnapshotPublished, QueueAlerted, WsUnwound
<1>9. CASE StopTask \/ UNCHANGED vars
  BY <1>1, <1>9 DEF StopTask, StopCalled, StopTasksCancelled, Stopped, StaysStopped, vars
<1> QED BY <1>2, <1>3, <1>4, <1>5, <1>6, <1>7, <1>8, <1>9 DEF Next, WebsocketTask, SyncTask

\* A synchronised book never goes back to an earlier update id.
THEOREM BooksNeverRollBack == Spec => NoRollback
<1>1. IndInv /\ [Next]_vars =>
        [\A s \in Symbols : Synced(s) /\ Synced(s)' => books'[s].lastId >= books[s].lastId]_vars
  BY StepRollbackFree DEF RollbackFree
<1> QED BY <1>1, Invariance, PTL DEF Spec, NoRollback

\* A step after stop() has returned.
LEMMA StoppedStep == IndInv /\ [Next]_vars => (stop = "stopped" => UNCHANGED <<books, ws, published>>)
<1> SUFFICES ASSUME IndInv, [Next]_vars, stop = "stopped"
             PROVE  UNCHANGED <<books, ws, published>>
  OBVIOUS
<1>1. /\ ws.pc = "done" /\ Stopping /\ books \in [Symbols -> Book]
      /\ \A s \in Symbols : tasks[s].pc \in {"idle", "top", "cancelling"}
  BY DEF IndInv, TypeOK, StopIsQuiet, Stopping
<1>2. ASSUME NEW s \in Symbols, SyncTask(s) PROVE UNCHANGED <<books, ws, published>>
  BY <1>1, <1>2 DEF SyncTask, SyncTop, SyncLoop, FetchFailed, FetchAlerted, SyncAlerted,
     TaskUnwound, SnapshotFetched
<1>3. ~WebsocketTask
  BY <1>1 DEF WebsocketTask, WsLoopTop, Connected, RecvFailed, Disconnect, WsTasksCancelled, ReconnectAlerted,
     DepthReceived, MalformedReceived, OtherReceived, TradePublished, SnapshotPublished, QueueAlerted, TriggerResync, WsUnwound
<1>4. CASE StopTask \/ UNCHANGED vars
  BY <1>4 DEF StopTask, StopCalled, StopTasksCancelled, Stopped, StaysStopped, vars
<1> QED BY <1>2, <1>3, <1>4 DEF Next

\* After stop() has returned, no book, no publication and no websocket step.
THEOREM NothingAfterStop == Spec => StoppedForGood
<1>1. IndInv /\ [Next]_vars => [stop = "stopped" => UNCHANGED <<books, ws, published>>]_vars
  BY StoppedStep
<1> QED BY <1>1, Invariance, PTL DEF Spec, StoppedForGood

-----------------------------------------------------------------------------
(* What BookSync promises: it implements DepthFeed, for every value of the *)
(* constants with which REST lists every level.                            *)

\* A snapshot under way to its publication is that of the book as it still
\* is, at the last id seen, and later than all that was published.
PendingIsView ==
    ws.pc = "publish" =>
        /\ Synced(ws.symbol)
        /\ ws.snapshot = ReducedSnapshot(books[ws.symbol])
        /\ ws.snapshot.lastId = seen[ws.symbol]
        /\ published[ws.symbol] # None => published[ws.symbol].lastId < seen[ws.symbol]

PublishedSeen == \A s \in Symbols : published[s] # None => published[s].lastId <= seen[s]

FeedInv == PendingIsView /\ PublishedSeen

\* It holds at the start.
LEMMA FeedInit == Init => FeedInv
BY DEF Init, FeedInv, PendingIsView, PublishedSeen, Ws

\* An applied update leaves the book at the update's last id.
LEMMA AppliedAtFinal ==
  ASSUME NEW b \in Book, NEW u, ApplyUpdate(b, u).result = "applied"
  PROVE  ApplyUpdate(b, u).book.lastId = u.final /\ ApplyUpdate(b, u).book.sync = "synced"
BY DEF ApplyUpdate, BufferUpdate, Outcome, Book

\* Steps in which nothing is published or seen, and that leave a snapshot
\* under way and its book alone.
LEMMA FeedQuietStep ==
  ASSUME FeedInv, UNCHANGED <<seen, published>>,
         \/ ws'.pc # "publish"
         \/ ws' = ws /\ (ws.pc = "publish" => books'[ws.symbol] = books[ws.symbol])
  PROVE  FeedInv'
BY DEF FeedInv, PendingIsView, PublishedSeen, Synced

\* The depth handler.
LEMMA HandleDepthFeed ==
  ASSUME TypeOK, FeedInv, NEW s \in Symbols, NEW u, HandleDepth(s, u),
         NEW final \in Ids, seen' = [seen EXCEPT ![s] = final], final > seen[s],
         u.final = final, UNCHANGED published
  PROVE  FeedInv'
<1> DEFINE out == ApplyUpdate(books[s], u)
<1>1. /\ books \in [Symbols -> Book] /\ books' = [books EXCEPT ![s] = out.book]
      /\ seen \in [Symbols -> Nat] /\ final \in Nat /\ seen'[s] = final
      /\ \A t \in Symbols : t # s => seen'[t] = seen[t]
  BY MaxIdAssumption DEF TypeOK, HandleDepth, Ids
<1>2. \A t \in Symbols : published[t] # None => published[t].lastId \in Nat
  BY DEF TypeOK, Reduced
<1>3. PublishedSeen'
  BY <1>1, <1>2 DEF FeedInv, PublishedSeen
<1>4. ASSUME ws'.pc = "publish"
      PROVE  out.result = "applied" /\ ws'.symbol = s /\ ws'.snapshot = ReducedSnapshot(out.book)
  BY <1>4 DEF HandleDepth, NextPayload, Ws
<1>5. ASSUME ws'.pc = "publish" PROVE PendingIsView'
  <2>1. out.book.lastId = final /\ out.book.sync = "synced"
    BY <1>1, <1>4, <1>5, AppliedAtFinal
  <2> HIDE DEF out
  <2> QED BY <1>1, <1>2, <1>4, <1>5, <2>1
        DEF FeedInv, PublishedSeen, PendingIsView, Synced, ReducedSnapshot
<1> QED BY <1>3, <1>5 DEF FeedInv, PendingIsView

\* Every step keeps it.
LEMMA FeedNext == IndInv /\ FeedInv /\ [Next]_vars => FeedInv'
<1> SUFFICES ASSUME IndInv, FeedInv, [Next]_vars PROVE FeedInv'
  OBVIOUS
<1> TypeOK /\ NoResyncOfSyncedBook
  BY DEF IndInv
<1>0. ws.pc = "publish" => ws.symbol \in Symbols
  BY DEF IndInv, PendingTopOfBook
<1>1. CASE WsLoopTop \/ Connected \/ RecvFailed \/ Disconnect \/ WsTasksCancelled \/ ReconnectAlerted
           \/ OtherReceived \/ TradePublished \/ QueueAlerted \/ TriggerResync \/ WsUnwound
  BY <1>1, FeedQuietStep DEF WsLoopTop, Connected, RecvFailed, Disconnect, WsTasksCancelled, ReconnectAlerted,
     OtherReceived, TradePublished, QueueAlerted, TriggerResync, WsUnwound, NextPayload, Ws
<1>2. CASE StopTask \/ UNCHANGED vars
  BY <1>2, FeedQuietStep DEF StopTask, StopCalled, StopTasksCancelled, Stopped, StaysStopped, CancelWs,
     Ws, vars
<1>3. ASSUME NEW s \in Symbols, DepthReceived(s) PROVE FeedInv'
  <2>1. PICK first \in (seen[s] + 1)..MaxId, final \in (seen[s] + 1)..MaxId :
           HandleDepth(s, DepthEvent(s, first, final)) /\ seen' = [seen EXCEPT ![s] = final]
    BY <1>3 DEF DepthReceived
  <2>2. final \in Ids /\ final > seen[s] /\ DepthEvent(s, first, final).final = final
    BY MaxIdAssumption DEF TypeOK, Ids, DepthEvent
  <2> QED BY <1>3, <2>1, <2>2, HandleDepthFeed DEF DepthReceived
<1>4. ASSUME NEW s \in Symbols, MalformedReceived(s) PROVE FeedInv'
  <2>1. PICK final \in (seen[s] + 1)..MaxId :
           /\ HandleDepth(s, [DepthEvent(s, final, final) EXCEPT !.first = final + 1])
           /\ seen' = [seen EXCEPT ![s] = final]
    BY <1>4 DEF MalformedReceived
  <2>2. /\ final \in Ids /\ final > seen[s]
        /\ [DepthEvent(s, final, final) EXCEPT !.first = final + 1].final = final
    BY MaxIdAssumption DEF TypeOK, Ids, DepthEvent
  <2> QED BY <1>4, <2>1, <2>2, HandleDepthFeed DEF MalformedReceived
<1>5. ASSUME NEW s \in Symbols, SyncTask(s) PROVE FeedInv'
  <2>1. UNCHANGED <<ws, seen, published>>
    BY <1>5 DEF SyncTask, SyncTop, FetchFailed, FetchAlerted, SyncAlerted, TaskUnwound, SnapshotFetched
  <2>2. \A t \in Symbols : Synced(t) => books'[t] = books[t]
    <3>1. CASE FetchFailed(s) \/ FetchAlerted(s) \/ TaskUnwound(s)
      BY <3>1 DEF FetchFailed, FetchAlerted, TaskUnwound
    <3>2. CASE SyncTop(s) \/ SyncAlerted(s) \/ \E id \in Ids : SnapshotFetched(s, id)
      <4>1. ~Synced(s)
        BY <3>2 DEF SyncTop, SyncAlerted, SnapshotFetched, NoResyncOfSyncedBook, Running
      <4>2. \E b : books' = [books EXCEPT ![s] = b]
        BY <3>2 DEF SyncTop, SyncAlerted, SnapshotFetched, SyncLoop, Synchronise
      <4> QED BY <4>1, <4>2 DEF TypeOK
    <3> QED BY <1>5, <3>1, <3>2 DEF SyncTask
  <2>3. ws.pc = "publish" => books'[ws.symbol] = books[ws.symbol]
    BY <1>0, <2>2 DEF FeedInv, PendingIsView
  <2> QED BY <2>1, <2>3, FeedQuietStep
<1>6. CASE SnapshotPublished
  <2>1. /\ published' = [published EXCEPT ![ws.symbol] = ws.snapshot]
        /\ ws'.pc # "publish" /\ seen' = seen /\ ws.pc = "publish"
    BY <1>6 DEF SnapshotPublished, NextPayload, Ws
  <2>2. seen \in [Symbols -> Nat] /\ published \in [Symbols -> Reduced \cup {None}]
    BY MaxIdAssumption DEF TypeOK, Ids
  <2> QED BY <1>0, <2>1, <2>2 DEF FeedInv, PendingIsView, PublishedSeen
<1> QED BY <1>1, <1>2, <1>3, <1>4, <1>5, <1>6 DEF Next, WebsocketTask

-----------------------------------------------------------------------------
\* A synchronised book shows the exchange's book at its id.
LEMMA ViewIsAt ==
  ASSUME DeepRest, NEW s \in Symbols, NEW b \in Book, Faithful(s, b)
  PROVE  b.lastId \in Ids /\ [id |-> b.lastId, levels |-> b.levels] = Feed!At(s, b.lastId)
BY MarketAssumption DEF Faithful, Book, Levels, Feed!At

\* A step in which at most the book of s changes shows it, hides it or
\* leaves it as it is.
LEMMA OneBookStep ==
  ASSUME DeepRest, IndInv, IndInv', RollbackFree, stop # "stopped", UNCHANGED <<published, stop>>,
         NEW s \in Symbols, \A t \in Symbols : t # s => books'[t] = books[t]
  PROVE  [Feed!Next]_(Feed!vars)
<1> USE DEF Synced
<1>1. \A t \in Symbols : t # s => View'[t] = View[t]
  BY DEF View
<1>2. View \in [Symbols -> {View[t] : t \in Symbols}] /\ View' \in [Symbols -> {View'[t] : t \in Symbols}]
  BY DEF View
<1>3. CASE books'[s].sync # "synced"
  <2>1. View' = [t \in Symbols |-> IF t \in {s} THEN {} ELSE View[t]]
    BY <1>1, <1>3 DEF View
  <2>2. Feed!Hide
    BY <2>1 DEF Feed!Hide
  <2> QED BY <2>2 DEF Feed!Next, Feed!Serve
<1>4. CASE books'[s].sync = "synced"
  <2> DEFINE i == books'[s].lastId
  <2>1. i \in Ids /\ View'[s] = {Feed!At(s, i)}
    BY <1>4, ViewIsAt DEF IndInv, TypeOK, BookFaithful, View
  <2>2. View' = [View EXCEPT ![s] = {Feed!At(s, i)}]
    BY <1>1, <1>2, <2>1
  <2>3. CASE books[s].sync # "synced"
    <3>1. View[s] = {}
      BY <2>3 DEF View
    <3>2. Feed!Show(s)
      BY <2>1, <2>2, <3>1 DEF Feed!Show
    <3> QED BY <3>2 DEF Feed!Next, Feed!Serve
  <2>4. CASE books[s].sync = "synced"
    <3>1. books[s].lastId \in Ids /\ View[s] = {Feed!At(s, books[s].lastId)}
      BY <2>4, ViewIsAt DEF IndInv, TypeOK, BookFaithful, View
    <3>2. i >= books[s].lastId
      BY <1>4, <2>4 DEF RollbackFree
    <3>3. CASE i = books[s].lastId
      <4>1. View' = View
        BY <1>2, <2>2, <3>1, <3>3
      <4> QED BY <4>1 DEF Feed!vars
    <3>4. CASE i > books[s].lastId
      <4>1. \A shown \in View[s] : shown.id = books[s].lastId
        BY <3>1 DEF Feed!At
      <4>2. Feed!Show(s)
        BY <2>1, <2>2, <3>4, <4>1 DEF Feed!Show
      <4> QED BY <4>2 DEF Feed!Next, Feed!Serve
    <3> QED BY <2>1, <3>1, <3>2, <3>3, <3>4, MaxIdAssumption DEF Ids
  <2> QED BY <2>3, <2>4
<1> QED BY <1>3, <1>4

\* A step of BookSync is one of DepthFeed.
LEMMA FeedStep ==
  ASSUME DeepRest, IndInv, IndInv', FeedInv, [Next]_vars
  PROVE  [Feed!Next]_(Feed!vars)
<1> DEFINE Goal == [Feed!Next]_(Feed!vars)
<1>a. TypeOK /\ RollbackFree
  BY StepRollbackFree DEF IndInv
<1>b. ASSUME UNCHANGED <<books, published>>, stop' # "stopped" <=> stop # "stopped" PROVE Goal
  BY <1>b DEF Feed!vars, View, Synced
<1>1. CASE stop = "stopped"
  <2>1. UNCHANGED <<books, published>>
    BY <1>1, StoppedStep
  <2>2. stop' = stop
    BY <1>1 DEF Next, WebsocketTask, WsLoopTop, Connected, RecvFailed, Disconnect, WsTasksCancelled,
       ReconnectAlerted, DepthReceived, MalformedReceived, OtherReceived, TradePublished, SnapshotPublished,
       QueueAlerted, TriggerResync, WsUnwound, StopTask, StopCalled, StopTasksCancelled,
       Stopped, StaysStopped, SyncTask, SyncTop, FetchFailed, FetchAlerted, SyncAlerted,
       TaskUnwound, SnapshotFetched, vars
  <2> QED BY <1>b, <2>1, <2>2
<1>2. CASE stop # "stopped" /\ WsLoopTop
  <2>1. CASE Stopping
    BY <1>b, <1>2, <2>1 DEF WsLoopTop
  <2>2. CASE ~Stopping
    <3>1. View' = [s \in Symbols |-> IF s \in Symbols THEN {} ELSE View[s]]
      BY <1>2, <2>2 DEF WsLoopTop, View, Synced, StartBuffering, Cleared
    <3>2. Feed!Hide /\ UNCHANGED stop
      BY <1>2, <3>1 DEF Feed!Hide, WsLoopTop
    <3> QED BY <1>2, <3>2 DEF Feed!Next, Feed!Serve
  <2> QED BY <2>1, <2>2
<1>3. CASE stop # "stopped" /\ (TriggerResync \/ \E s \in Symbols : DepthReceived(s) \/ MalformedReceived(s))
  <2>1. UNCHANGED <<published, stop>>
    BY <1>3 DEF TriggerResync, DepthReceived, MalformedReceived
  <2>2. UNCHANGED books \/ \E s \in Symbols : \E b : books' = [books EXCEPT ![s] = b]
    <3>1. TriggerResync => ws.symbol \in Symbols
      BY DEF TriggerResync, IndInv, PendingTopOfBook
    <3> QED BY <1>3, <3>1 DEF TriggerResync, DepthReceived, MalformedReceived, HandleDepth
  <2>3. CASE UNCHANGED books
    BY <1>b, <2>1, <2>3
  <2>4. ASSUME NEW s \in Symbols, NEW b, books' = [books EXCEPT ![s] = b] PROVE Goal
    <3>1. \A t \in Symbols : t # s => books'[t] = books[t]
      BY <1>a, <2>4 DEF TypeOK
    <3> QED BY <1>a, <1>3, <2>1, <3>1, OneBookStep
  <2> QED BY <2>2, <2>3, <2>4
<1>4. ASSUME NEW s \in Symbols, stop # "stopped", SyncTask(s) PROVE Goal
  <2>1. UNCHANGED <<published, stop>>
    BY <1>4 DEF SyncTask, SyncTop, FetchFailed, FetchAlerted, SyncAlerted, TaskUnwound, SnapshotFetched
  <2>2. \A t \in Symbols : t # s => books'[t] = books[t]
    BY <1>a, <1>4 DEF TypeOK, SyncTask, SyncTop, FetchFailed, FetchAlerted, SyncAlerted,
       TaskUnwound, SnapshotFetched, SyncLoop, Synchronise
  <2> QED BY <1>a, <1>4, <2>1, <2>2, OneBookStep
<1>5. CASE stop # "stopped" /\ SnapshotPublished
  <2> DEFINE s == ws.symbol
             i == books[s].lastId
  <2>1. /\ ws.pc = "publish" /\ s \in Symbols /\ books' = books /\ stop' = stop
        /\ published' = [published EXCEPT ![s] = ws.snapshot]
    BY <1>5 DEF SnapshotPublished, IndInv, PendingTopOfBook
  <2>2. Synced(s) /\ ws.snapshot = ReducedSnapshot(books[s])
    BY <2>1 DEF FeedInv, PendingIsView
  <2>3. i \in Ids /\ View[s] = {Feed!At(s, i)}
    BY <2>1, <2>2, ViewIsAt DEF IndInv, TypeOK, BookFaithful, View, Synced
  <2>4. Feed!At(s, i).id = i /\ books[s].levels = Market[s][i]
    <3>1. View[s] = {[id |-> i, levels |-> books[s].levels]}
      BY <2>1, <2>2 DEF View
    <3>2. [id |-> i, levels |-> books[s].levels] = [id |-> i, levels |-> Market[s][i]]
      <4>1. [id |-> i, levels |-> books[s].levels] = Feed!At(s, i)
        BY <2>3, <3>1
      <4> QED BY <4>1, Zenon DEF Feed!At
    <3>3. [id |-> i, levels |-> books[s].levels].levels = [id |-> i, levels |-> Market[s][i]].levels
      BY <3>2, Zenon
    <3>4. Feed!At(s, i).id = i
      BY DEF Feed!At
    <3> HIDE DEF i
    <3> QED BY <3>3, <3>4
  <2>5. ws.snapshot = TopsOf(s)[i]
    BY <2>2, <2>3, <2>4 DEF ReducedSnapshot, TopsOf
  <2>6. published[s] # None => published[s].lastId < i
    BY <2>1, <2>2 DEF FeedInv, PendingIsView, ReducedSnapshot
  <2>7. Feed!Publish(s)
    <3>1. Feed!At(s, i) \in View[s] /\ View' = View
      BY <2>1, <2>3 DEF View, Synced
    <3>2. published' = [published EXCEPT ![s] = [t \in Symbols |-> TopsOf(t)][s][i]]
      BY <2>1, <2>5
    <3> QED BY <2>4, <2>6, <3>1, <3>2 DEF Feed!Publish
  <2> QED BY <1>5, <2>1, <2>7 DEF Feed!Next, Feed!Serve
<1>6. CASE stop # "stopped" /\ (\/ Connected \/ RecvFailed \/ Disconnect \/ WsTasksCancelled \/ ReconnectAlerted
                                \/ OtherReceived \/ TradePublished \/ QueueAlerted \/ WsUnwound)
  BY <1>b, <1>6 DEF Connected, RecvFailed, Disconnect, WsTasksCancelled, ReconnectAlerted, OtherReceived,
     TradePublished, QueueAlerted, WsUnwound
<1>7. CASE stop # "stopped" /\ (StopTask \/ UNCHANGED vars)
  <2>1. CASE StopCalled \/ StopTasksCancelled \/ StaysStopped \/ UNCHANGED vars
    BY <1>b, <1>7, <2>1 DEF StopCalled, StopTasksCancelled, StaysStopped, vars
  <2>2. CASE Stopped
    <3>1. Feed!Close
      BY <2>2 DEF Stopped, Feed!Close, View, Synced
    <3> QED BY <1>7, <3>1 DEF Feed!Next
  <2> QED BY <1>7, <2>1, <2>2 DEF StopTask
<1> QED BY <1>1, <1>2, <1>3, <1>4, <1>5, <1>6, <1>7 DEF Next, WebsocketTask

\* BookSync implements DepthFeed where REST lists every level: every book
\* that is shown, and every top that is handed on, is the exchange's, and
\* what is handed on is never out of date or out of order.
THEOREM FeedKept == ASSUME DeepRest PROVE Spec => KeepsFeed
<1>1. Init => Feed!Init
  BY DEF Init, Feed!Init, View, Synced, NewBook, Cleared
<1>2. IndInv /\ IndInv' /\ FeedInv /\ [Next]_vars => [Feed!Next]_(Feed!vars)
  BY FeedStep
<1>3. Spec => []IndInv /\ []FeedInv
  <2>1. Init => FeedInv
    BY FeedInit
  <2>2. IndInv /\ FeedInv /\ [Next]_vars => FeedInv'
    BY FeedNext
  <2> QED BY <2>1, <2>2, Invariance, PTL DEF Spec
<1> QED BY <1>1, <1>2, <1>3, PTL DEF Spec, Feed!Spec, KeepsFeed
=============================================================================
