-------------------------- MODULE SnapshotPipeline --------------------------
(***************************************************************************)
(* A reduced order-book snapshot's way from the depth handler through the  *)
(* LatestSnapshotQueue of its symbol to ClickHouse: put_snapshot, the      *)
(* snapshot writer task and stop() with its final flush                    *)
(* (src/src/market_data/backpressure.py and engine.py).                    *)
(*                                                                         *)
(* Snapshots of a symbol are numbered in the order they are put.           *)
(***************************************************************************)
EXTENDS Integers, Sequences, FiniteSets

CONSTANTS
    Symbols,
    Capacity,     \* snapshot_queue_max_size_per_symbol
    BatchLimit,   \* snapshots drained per symbol
    MaxSnapshot   \* snapshots put per symbol, a bound on the model

ASSUME CapacityAssumption == Capacity \in Nat \ {0}
ASSUME BatchLimitAssumption == BatchLimit \in Nat \ {0}
ASSUME MaxSnapshotAssumption == MaxSnapshot \in Nat

VARIABLES
    queue,     \* _snapshot_queues
    put,       \* the number of snapshots put
    writer,    \* where _snapshot_writer_loop is
    batch,     \* the snapshots drained and being inserted
    stored,    \* the snapshots that are in ClickHouse
    dropped,   \* _dropped_snapshots
    stop       \* how far stop() is

vars == <<queue, put, writer, batch, stored, dropped, stop>>

WriterPcs == {"top", "insert", "alert", "done"}
StopPcs == {"up", "cancel_tasks", "join_writer", "final_flush", "final_insert", "stopped"}

Stopping == stop # "up"

Elements(seq) == {seq[i] : i \in 1..Len(seq)}
Least(m, n) == IF m < n THEN m ELSE n
NoBatch == [s \in Symbols |-> <<>>]

\* A slip of PutLatest: nothing is evicted.
PutLatestUnbounded(seq, snapshots) == seq \o snapshots

\* put_latest for each of some snapshots in turn: as many are evicted at
\* the head as do not fit.
PutLatest(seq, snapshots) ==
    LET all == seq \o snapshots
    IN  SubSeq(all, Len(all) - Least(Capacity, Len(all)) + 1, Len(all))

Init ==
    /\ queue = [s \in Symbols |-> <<>>]
    /\ put = [s \in Symbols |-> 0]
    /\ writer = "top"
    /\ batch = NoBatch
    /\ stored = [s \in Symbols |-> {}]
    /\ dropped = [s \in Symbols |-> 0]
    /\ stop = "up"

-----------------------------------------------------------------------------
\* put_snapshot, by the depth handler; stop_accepting does not concern it,
\* only the end of the websocket task does.
SnapshotPut(s) ==
    /\ stop \in {"up", "cancel_tasks"}
    /\ put[s] < MaxSnapshot
    /\ put' = [put EXCEPT ![s] = @ + 1]
    /\ queue' = [queue EXCEPT ![s] = PutLatest(@, <<put[s] + 1>>)]
    /\ dropped' = [dropped EXCEPT ![s] = @ + (IF Len(queue[s]) >= Capacity THEN 1 ELSE 0)]
    /\ UNCHANGED <<writer, batch, stored, stop>>

-----------------------------------------------------------------------------
(* _writer_loop with _flush_snapshots_once. *)

\* A slip of DrainSnapshots: the snapshots are read and not removed.
DrainSnapshotsPeeks ==
    /\ batch' = [s \in Symbols |-> SubSeq(queue[s], 1, Least(BatchLimit, Len(queue[s])))]
    /\ UNCHANGED queue

DrainSnapshots ==
    /\ batch' = [s \in Symbols |-> SubSeq(queue[s], 1, Least(BatchLimit, Len(queue[s])))]
    /\ queue' = [s \in Symbols |->
                    SubSeq(queue[s], Least(BatchLimit, Len(queue[s])) + 1, Len(queue[s]))]

FlushStarted ==
    /\ writer = "top" /\ ~Stopping
    /\ \E s \in Symbols : queue[s] # <<>>
    /\ DrainSnapshots
    /\ writer' = "insert"
    /\ UNCHANGED <<put, stored, dropped, stop>>

StoreBatch == stored' = [s \in Symbols |-> stored[s] \cup Elements(batch[s])]

FlushStored ==
    /\ writer = "insert"
    /\ StoreBatch
    /\ batch' = NoBatch
    /\ writer' = "top"
    /\ UNCHANGED <<queue, put, dropped, stop>>

\* A slip of RequeueSnapshots: the batch is forgotten.
RequeueSnapshotsForgotten == batch' = NoBatch /\ UNCHANGED queue

\* requeue_latest_snapshots: what it evicts is not counted.
RequeueSnapshots ==
    /\ queue' = [s \in Symbols |-> PutLatest(queue[s], batch[s])]
    /\ batch' = NoBatch

FlushFailed ==
    /\ writer = "insert"
    /\ StoreBatch \/ UNCHANGED stored
    /\ RequeueSnapshots
    /\ writer' = "alert"
    /\ UNCHANGED <<put, dropped, stop>>

\* A slip of FlushAlerted: the error ends the writer.
FlushAlertedEnds ==
    /\ writer = "alert"
    /\ writer' = "done"
    /\ UNCHANGED <<queue, put, batch, stored, dropped, stop>>

FlushAlerted ==
    /\ writer = "alert"
    /\ writer' = "top"
    /\ UNCHANGED <<queue, put, batch, stored, dropped, stop>>

WriterExits ==
    /\ writer = "top" /\ Stopping
    /\ writer' = "done"
    /\ UNCHANGED <<queue, put, batch, stored, dropped, stop>>

-----------------------------------------------------------------------------
(* stop(). *)

StopCalled ==
    /\ stop = "up"
    /\ stop' = "cancel_tasks"
    /\ UNCHANGED <<queue, put, writer, batch, stored, dropped>>

HandlerCancelled ==
    /\ stop = "cancel_tasks"
    /\ stop' = "join_writer"
    /\ UNCHANGED <<queue, put, writer, batch, stored, dropped>>

WriterJoined ==
    /\ stop = "join_writer" /\ writer = "done"
    /\ stop' = "final_flush"
    /\ UNCHANGED <<queue, put, writer, batch, stored, dropped>>

\* The drain timeout cancels the writer; the thread of its insert goes on.
WriterCancelled ==
    /\ stop = "join_writer" /\ writer # "done"
    /\ StoreBatch \/ UNCHANGED stored
    /\ batch' = NoBatch
    /\ writer' = "done"
    /\ stop' = "final_flush"
    /\ UNCHANGED <<queue, put, dropped>>

\* _flush_final, if its flush of the trades did not fail.
FinalFlush ==
    /\ stop = "final_flush"
    /\ DrainSnapshots
    /\ stop' = IF \E s \in Symbols : queue[s] # <<>> THEN "final_insert" ELSE "stopped"
    /\ UNCHANGED <<put, writer, stored, dropped>>

\* It did: the snapshots are not flushed.
FinalSkipped ==
    /\ stop = "final_flush"
    /\ stop' = "stopped"
    /\ UNCHANGED <<queue, put, writer, batch, stored, dropped>>

FinalStored ==
    /\ stop = "final_insert"
    /\ StoreBatch
    /\ batch' = NoBatch
    /\ stop' = "stopped"
    /\ UNCHANGED <<queue, put, writer, dropped>>

FinalFailed ==
    /\ stop = "final_insert"
    /\ StoreBatch \/ UNCHANGED stored
    /\ RequeueSnapshots
    /\ stop' = "stopped"
    /\ UNCHANGED <<put, writer, dropped>>

FinalTimedOut ==
    /\ stop = "final_insert"
    /\ StoreBatch \/ UNCHANGED stored
    /\ batch' = NoBatch
    /\ stop' = "stopped"
    /\ UNCHANGED <<queue, put, writer, dropped>>

StaysStopped == stop = "stopped" /\ UNCHANGED vars

-----------------------------------------------------------------------------
WriterTask == FlushStarted \/ FlushStored \/ FlushFailed \/ FlushAlerted \/ WriterExits

StopTask ==
    \/ StopCalled \/ HandlerCancelled \/ WriterJoined \/ WriterCancelled
    \/ FinalFlush \/ FinalSkipped \/ FinalStored \/ FinalFailed \/ FinalTimedOut \/ StaysStopped

Next == WriterTask \/ StopTask \/ \E s \in Symbols : SnapshotPut(s)

Spec == Init /\ [][Next]_vars

-----------------------------------------------------------------------------
TypeOK ==
    /\ queue \in [Symbols -> Seq(Nat)]
    /\ \A s \in Symbols : Len(queue[s]) <= Capacity
    /\ put \in [Symbols -> 0..MaxSnapshot]
    /\ writer \in WriterPcs
    /\ batch \in [Symbols -> Seq(Nat)]
    /\ \A s \in Symbols : Len(batch[s]) <= BatchLimit
    /\ stored \in [Symbols -> SUBSET Nat]
    /\ dropped \in [Symbols -> Nat]
    /\ stop \in StopPcs

Pending(s) == Elements(queue[s]) \cup Elements(batch[s])
Lost(s) == (1..put[s]) \ (stored[s] \cup Pending(s))

\* No snapshot is twice in the pipeline, however often it is requeued.
NoCopies ==
    \A s \in Symbols : Cardinality(Pending(s)) = Len(queue[s]) + Len(batch[s])

\* While the engine runs, the pipeline of a symbol empties only by storing:
\* evictions and failed flushes always leave a snapshot to be stored.
EmptiesOnlyByStoring ==
    [][\A s \in Symbols : ~Stopping /\ Pending(s) # {} /\ Pending(s)' = {} =>
         Pending(s) \cap stored'[s] # {}]_vars

\* Of the snapshots that are waiting, an older one is evicted before a newer.
OldestEvicted ==
    [][\A s \in Symbols : ~Stopping =>
         \A n \in Lost(s)' \ Lost(s) : \A m \in Elements(queue'[s]) : n < m]_vars

-----------------------------------------------------------------------------
Fairness ==
    /\ WF_vars(FlushStarted) /\ SF_vars(FlushStored) /\ WF_vars(FlushAlerted)

LiveSpec == Spec /\ Fairness

\* If ClickHouse does not fail for ever, no snapshot waits for ever.
SnapshotsSettle ==
    \A s \in Symbols : \A n \in 1..MaxSnapshot :
        (n \in Pending(s)) ~> (n \notin Pending(s) \/ Stopping)
=============================================================================
