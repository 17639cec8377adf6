----------------------------- MODULE OrderBook -----------------------------
(***************************************************************************)
(* The local order book of one symbol, src/src/market_data/orderbook.py,   *)
(* as pure operators: each method of LocalOrderBook is an operator from a  *)
(* book (and its argument) to the book it leaves and the result it returns.*)
(*                                                                         *)
(* A book holds its price levels as one function from slots, a slot being  *)
(* a side and a price, to quantities; quantity 0 is a price the dictionary *)
(* of that side does not hold.                                             *)
(***************************************************************************)
EXTENDS Integers, Sequences, FiniteSets

CONSTANTS
    Prices,        \* the prices that occur on either side
    Depth,         \* orderbook_levels: how many levels a reduced snapshot has
    MaxBuffered,   \* queue_max_size_per_symbol: bound of buffered_updates
    None           \* Python's None, the id of a book that is not initialised

ASSUME PricesAssumption == Prices \subseteq Int
ASSUME DepthAssumption == Depth \in Nat \ {0}
ASSUME MaxBufferedAssumption == MaxBuffered \in Nat \ {0}
ASSUME NoneAssumption == None \notin Int

Slots == {"bid", "ask"} \X Prices

SyncStates == {"unsynced", "buffering", "syncing", "synced", "resyncing"}
Integrities == {"unknown", "ok", "gap_detected", "invalid_sequence"}
Results == {"applied", "ignored_old", "gap_detected", "invalid_sequence", "buffered"}
Failures == {"gap_detected", "invalid_sequence"}

Levels == [Slots -> Nat]

\* A depth event: the ids it spans and the quantities it sets, None for a
\* slot it does not mention.
DepthUpdate == [first : Nat, final : Nat, diff : [Slots -> Nat \cup {None}]]

\* A REST snapshot: the id it was taken at and the levels it lists.
RestDepthSnapshot == [lastId : Nat, levels : Levels]

Book == [levels : Levels, lastId : Nat \cup {None}, sync : SyncStates,
         integrity : Integrities, buffer : Seq(DepthUpdate)]

Outcome(book, result) == [book |-> book, result |-> result]

Malformed(u) == u.final < u.first

Cleared(sync, integrity) ==
    [levels |-> [k \in Slots |-> 0], lastId |-> None, sync |-> sync,
     integrity |-> integrity, buffer |-> <<>>]

\* LocalOrderBook.__init__
NewBook == Cleared("unsynced", "unknown")

StartBuffering(sync, integrity) == Cleared(sync, integrity)

Invalidated(reason) == Cleared("unsynced", reason)

\* A full buffer is a lost event: the book is thrown away.
BufferUpdate(b, u) ==
    IF Len(b.buffer) >= MaxBuffered
    THEN Outcome(Invalidated("gap_detected"), "gap_detected")
    ELSE Outcome([b EXCEPT !.buffer = Append(@, u)], "buffered")

ApplyLevels(levels, diff) ==
    [k \in Slots |-> IF diff[k] = None THEN levels[k] ELSE diff[k]]

\* Slips of ApplyUpdate: no check for a gap, none for an old event, and the
\* first id of the event taken for its last.
ApplyUpdateAcrossGap(b, u) ==
    IF Malformed(u) THEN Outcome(Invalidated("invalid_sequence"), "invalid_sequence")
    ELSE IF b.sync # "synced" \/ b.lastId = None THEN BufferUpdate(b, u)
    ELSE IF u.final <= b.lastId THEN Outcome(b, "ignored_old")
    ELSE Outcome([b EXCEPT !.levels = ApplyLevels(@, u.diff), !.lastId = u.final], "applied")
ApplyUpdateEvenOld(b, u) ==
    IF Malformed(u) THEN Outcome(Invalidated("invalid_sequence"), "invalid_sequence")
    ELSE IF b.sync # "synced" \/ b.lastId = None THEN BufferUpdate(b, u)
    ELSE IF u.first > b.lastId + 1 THEN Outcome(Invalidated("gap_detected"), "gap_detected")
    ELSE Outcome([b EXCEPT !.levels = ApplyLevels(@, u.diff), !.lastId = u.final], "applied")
ApplyUpdateFirstId(b, u) ==
    IF Malformed(u) THEN Outcome(Invalidated("invalid_sequence"), "invalid_sequence")
    ELSE IF b.sync # "synced" \/ b.lastId = None THEN BufferUpdate(b, u)
    ELSE IF u.final <= b.lastId THEN Outcome(b, "ignored_old")
    ELSE IF u.first > b.lastId + 1 THEN Outcome(Invalidated("gap_detected"), "gap_detected")
    ELSE Outcome([b EXCEPT !.levels = ApplyLevels(@, u.diff), !.lastId = u.first], "applied")

ApplyUpdate(b, u) ==
    IF Malformed(u) THEN Outcome(Invalidated("invalid_sequence"), "invalid_sequence")
    ELSE IF b.sync # "synced" \/ b.lastId = None THEN BufferUpdate(b, u)
    ELSE IF u.final <= b.lastId THEN Outcome(b, "ignored_old")
    ELSE IF u.first > b.lastId + 1 THEN Outcome(Invalidated("gap_detected"), "gap_detected")
    ELSE Outcome([b EXCEPT !.levels = ApplyLevels(@, u.diff), !.lastId = u.final,
                           !.integrity = "ok"],
                 "applied")

\* _snapshot_bridges_first_event
Bridges(lastId, u) == u.first <= lastId + 1 /\ lastId + 1 <= u.final

\* The buffered events a snapshot does not contain yet, by their index.
Fresh(buffer, lastId) == {i \in 1..Len(buffer) : buffer[i].final > lastId}

\* The loop over the fresh events after each index, stopped by a failure.
Drain(b, events, fresh) ==
    LET run[k \in 0..Len(events)] ==
          IF k = 0 THEN Outcome(b, "applied")
          ELSE IF k \notin fresh \/ run[k - 1].result \in Failures THEN run[k - 1]
          ELSE ApplyUpdate(run[k - 1].book, events[k])
    IN  run[Len(events)]

InitializeFromSnapshot(b, snapshot) ==
    LET fresh == Fresh(b.buffer, snapshot.lastId)
        loaded == [b EXCEPT !.levels = snapshot.levels, !.lastId = snapshot.lastId,
                            !.sync = "synced", !.buffer = <<>>]
        drained == Drain(loaded, b.buffer, fresh)
    IN  IF b.buffer # <<>> /\ snapshot.lastId < b.buffer[1].first
        THEN Outcome([b EXCEPT !.sync = "syncing"], "ignored_old")
        ELSE IF \E i \in fresh : /\ \A j \in fresh : i <= j
                                 /\ ~Bridges(snapshot.lastId, b.buffer[i])
        THEN Outcome(Invalidated("gap_detected"), "gap_detected")
        ELSE IF drained.result \in Failures THEN drained
        ELSE Outcome([drained.book EXCEPT !.integrity = "ok"], "applied")

\* The quantities at the best Depth prices of a side, 0 at the others:
\* top_bids counts from the highest price, top_asks from the lowest.
Better(side, p, q) == IF side = "bid" THEN p > q ELSE p < q

Top(levels, side) ==
    LET held == {p \in Prices : levels[<<side, p>>] # 0}
        best == {p \in held : Cardinality({q \in held : Better(side, q, p)}) < Depth}
    IN  [p \in Prices |-> IF p \in best THEN levels[<<side, p>>] ELSE 0]

Reducible(b) ==
    /\ b.lastId # None
    /\ \A side \in {"bid", "ask"} : \E p \in Prices : Top(b.levels, side)[p] # 0

Reduced == [lastId : Nat, bids : [Prices -> Nat], asks : [Prices -> Nat]]

ReducedSnapshot(b) ==
    [lastId |-> b.lastId, bids |-> Top(b.levels, "bid"), asks |-> Top(b.levels, "ask")]
=============================================================================
