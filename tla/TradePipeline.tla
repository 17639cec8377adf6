--------------------------- MODULE TradePipeline ---------------------------
(***************************************************************************)
(* A trade's way from the websocket task through the bounded queue of its  *)
(* symbol (src/src/market_data/backpressure.py) to ClickHouse: the handler *)
(* of engine.py, the trade writer task, and stop() with its final flush.   *)
(*                                                                         *)
(* Trades of a symbol are numbered in the order they are received.  Only   *)
(* trades are modelled: other payloads do not touch this state.            *)
(***************************************************************************)
EXTENDS Integers, Sequences, FiniteSets

CONSTANTS
    Symbols,
    Capacity,    \* queue_max_size_per_symbol
    BatchLimit,  \* trades drained per symbol: batch size over number of symbols
    MaxTrade,    \* trades received per symbol, a bound on the model
    None

ASSUME CapacityAssumption == Capacity \in Nat \ {0}
ASSUME BatchLimitAssumption == BatchLimit \in Nat \ {0}
ASSUME MaxTradeAssumption == MaxTrade \in Nat
ASSUME SymbolsAssumption == None \notin Symbols

VARIABLES
    queue,      \* _trade_queues
    received,   \* the number of trades received
    handler,    \* where _handle_trade is, and with which symbol
    writer,     \* where _trade_writer_loop is
    batch,      \* the trades drained and being inserted
    stored,     \* the trades that are in ClickHouse
    dropped,    \* _dropped_trades
    droppedRequeued,    \* _dropped_requeued_trades
    stop        \* how far stop() is

vars == <<queue, received, handler, writer, batch, stored, dropped, droppedRequeued, stop>>

HandlerPcs == {"recv", "publish", "put", "alert", "done"}
WriterPcs == {"top", "insert", "alert", "done"}
StopPcs == {"up", "cancel_tasks", "join_writer", "final_flush", "final_insert", "stopped"}

\* _stop_event is set and the queues have stopped accepting.
Stopping == stop # "up"

Handler(pc, s) == [pc |-> pc, symbol |-> s]
NextPayload == Handler(IF Stopping THEN "done" ELSE "recv", None)

\* The trade the handler holds is the last one received.
InHand(s) == IF handler.pc \in {"publish", "put"} /\ handler.symbol = s THEN {received[s]} ELSE {}

Elements(seq) == {seq[i] : i \in 1..Len(seq)}
Least(m, n) == IF m < n THEN m ELSE n
NoBatch == [s \in Symbols |-> <<>>]

Init ==
    /\ queue = [s \in Symbols |-> <<>>]
    /\ received = [s \in Symbols |-> 0]
    /\ handler = Handler("recv", None)
    /\ writer = "top"
    /\ batch = NoBatch
    /\ stored = [s \in Symbols |-> {}]
    /\ dropped = [s \in Symbols |-> 0]
    /\ droppedRequeued = [s \in Symbols |-> 0]
    /\ stop = "up"

-----------------------------------------------------------------------------
(* _handle_trade and put_trade. *)

TradeReceived(s) ==
    /\ handler.pc = "recv"
    /\ received[s] < MaxTrade
    /\ received' = [received EXCEPT ![s] = @ + 1]
    /\ handler' = Handler("publish", s)
    /\ UNCHANGED <<queue, writer, batch, stored, dropped, droppedRequeued, stop>>

\* _publish_trade has returned, and put_trade runs up to its first await.
TradePublished ==
    /\ handler.pc = "publish"
    /\ LET s == handler.symbol
       IN  \/ /\ Stopping                              \* queue_closed
              /\ dropped' = [dropped EXCEPT ![s] = @ + 1]
              /\ handler' = NextPayload
              /\ UNCHANGED queue
           \/ /\ ~Stopping /\ Len(queue[s]) < Capacity
              /\ queue' = [queue EXCEPT ![s] = Append(@, received[s])]
              /\ handler' = NextPayload
              /\ UNCHANGED dropped
           \/ /\ ~Stopping /\ Len(queue[s]) >= Capacity
              /\ handler' = Handler("put", s)
              /\ UNCHANGED <<queue, dropped>>
    /\ UNCHANGED <<received, writer, batch, stored, droppedRequeued, stop>>

\* The writer made room before the timeout.
PutAccepted ==
    /\ handler.pc = "put"
    /\ LET s == handler.symbol
       IN  /\ Len(queue[s]) < Capacity
           /\ queue' = [queue EXCEPT ![s] = Append(@, received[s])]
           /\ handler' = Handler("alert", s)
    /\ UNCHANGED <<received, writer, batch, stored, dropped, droppedRequeued, stop>>

\* A slip of PutTimedOut: the drop is not counted.
PutTimedOutUncounted ==
    /\ handler.pc = "put"
    /\ LET s == handler.symbol
       IN  /\ queue' = [queue EXCEPT ![s] = Append(IF @ = <<>> THEN @ ELSE Tail(@), received[s])]
           /\ handler' = Handler("alert", s)
    /\ UNCHANGED <<received, writer, batch, stored, dropped, droppedRequeued, stop>>

\* The timeout fires, perhaps after the writer made room: the trade at the
\* head is dropped, if there is one, and the new one takes the free place.
PutTimedOut ==
    /\ handler.pc = "put"
    /\ LET s == handler.symbol
       IN  /\ IF queue[s] = <<>>
              THEN queue' = [queue EXCEPT ![s] = <<received[s]>>] /\ UNCHANGED dropped
              ELSE /\ queue' = [queue EXCEPT ![s] = Append(Tail(@), received[s])]
                   /\ dropped' = [dropped EXCEPT ![s] = @ + 1]
           /\ handler' = Handler("alert", s)
    /\ UNCHANGED <<received, writer, batch, stored, droppedRequeued, stop>>

BackpressureAlerted ==
    /\ handler.pc = "alert"
    /\ handler' = NextPayload
    /\ UNCHANGED <<queue, received, writer, batch, stored, dropped, droppedRequeued, stop>>

-----------------------------------------------------------------------------
(* _writer_loop with _flush_trades_once. *)

\* drain_trades for every symbol.
DrainTrades ==
    /\ batch' = [s \in Symbols |-> SubSeq(queue[s], 1, Least(BatchLimit, Len(queue[s])))]
    /\ queue' = [s \in Symbols |->
                    SubSeq(queue[s], Least(BatchLimit, Len(queue[s])) + 1, Len(queue[s]))]

\* A flush with nothing to drain does nothing.
FlushStarted ==
    /\ writer = "top" /\ ~Stopping
    /\ \E s \in Symbols : queue[s] # <<>>
    /\ DrainTrades
    /\ writer' = "insert"
    /\ UNCHANGED <<received, handler, stored, dropped, droppedRequeued, stop>>

StoreBatch == stored' = [s \in Symbols |-> stored[s] \cup Elements(batch[s])]

FlushStored ==
    /\ writer = "insert"
    /\ StoreBatch
    /\ batch' = NoBatch
    /\ writer' = "top"
    /\ UNCHANGED <<queue, received, handler, dropped, droppedRequeued, stop>>

\* Slips of RequeueTrades: no bound, and the batch kept.
RequeueTradesUnbounded ==
    /\ queue' = [s \in Symbols |-> queue[s] \o batch[s]]
    /\ batch' = NoBatch
    /\ UNCHANGED droppedRequeued
RequeueTradesKeepsBatch ==
    /\ queue' = [s \in Symbols |->
                    queue[s] \o SubSeq(batch[s], 1, Least(Capacity - Len(queue[s]), Len(batch[s])))]
    /\ UNCHANGED <<batch, droppedRequeued>>

\* requeue_trades: behind the trades that came in during the insert, as
\* long as there is room, and not once the queues have stopped accepting.
RequeueTrades ==
    LET room(s) == IF Stopping THEN 0 ELSE Capacity - Len(queue[s])
        kept(s) == Least(room(s), Len(batch[s]))
    IN  /\ queue' = [s \in Symbols |-> queue[s] \o SubSeq(batch[s], 1, kept(s))]
        /\ droppedRequeued' = [s \in Symbols |-> droppedRequeued[s] + Len(batch[s]) - kept(s)]
        /\ batch' = NoBatch

\* A slip of FlushFailed: the batch is not requeued.
FlushFailedForgets ==
    /\ writer = "insert"
    /\ batch' = NoBatch
    /\ writer' = "alert"
    /\ UNCHANGED <<queue, received, handler, stored, dropped, droppedRequeued, stop>>

\* The insert gave up after its retries; ClickHouse may have taken the rows
\* of an attempt whose answer was lost.
FlushFailed ==
    /\ writer = "insert"
    /\ StoreBatch \/ UNCHANGED stored
    /\ RequeueTrades
    /\ writer' = "alert"
    /\ UNCHANGED <<received, handler, dropped, stop>>

\* A slip of FlushAlerted: the error ends the writer.
FlushAlertedEnds ==
    /\ writer = "alert"
    /\ writer' = "done"
    /\ UNCHANGED <<queue, received, handler, batch, stored, dropped, droppedRequeued, stop>>

FlushAlerted ==
    /\ writer = "alert"
    /\ writer' = "top"
    /\ UNCHANGED <<queue, received, handler, batch, stored, dropped, droppedRequeued, stop>>

WriterExits ==
    /\ writer = "top" /\ Stopping
    /\ writer' = "done"
    /\ UNCHANGED <<queue, received, handler, batch, stored, dropped, droppedRequeued, stop>>

-----------------------------------------------------------------------------
(* stop(). *)

\* It then waits for the synchronisation tasks it has cancelled.
StopCalled ==
    /\ stop = "up"
    /\ stop' = "cancel_tasks"
    /\ UNCHANGED <<queue, received, handler, writer, batch, stored, dropped, droppedRequeued>>

\* A slip of HandlerCancelled: the websocket task is awaited, not cancelled.
HandlerAwaited ==
    /\ stop = "cancel_tasks" /\ handler.pc = "done"
    /\ stop' = "join_writer"
    /\ UNCHANGED <<queue, received, handler, writer, batch, stored, dropped, droppedRequeued>>

\* The websocket task is cancelled, with the trade it may hold.
HandlerCancelled ==
    /\ stop = "cancel_tasks"
    /\ handler' = Handler("done", None)
    /\ stop' = "join_writer"
    /\ UNCHANGED <<queue, received, writer, batch, stored, dropped, droppedRequeued>>

WriterJoined ==
    /\ stop = "join_writer" /\ writer = "done"
    /\ stop' = "final_flush"
    /\ UNCHANGED <<queue, received, handler, writer, batch, stored, dropped, droppedRequeued>>

\* The drain timeout cancels the writer; the thread of its insert goes on.
WriterCancelled ==
    /\ stop = "join_writer" /\ writer # "done"
    /\ StoreBatch \/ UNCHANGED stored
    /\ batch' = NoBatch
    /\ writer' = "done"
    /\ stop' = "final_flush"
    /\ UNCHANGED <<queue, received, handler, dropped, droppedRequeued>>

\* _flush_final: one more batch.
FinalFlush ==
    /\ stop = "final_flush"
    /\ DrainTrades
    /\ stop' = IF \E s \in Symbols : queue[s] # <<>> THEN "final_insert" ELSE "stopped"
    /\ UNCHANGED <<received, handler, writer, stored, dropped, droppedRequeued>>

FinalStored ==
    /\ stop = "final_insert"
    /\ StoreBatch
    /\ batch' = NoBatch
    /\ stop' = "stopped"
    /\ UNCHANGED <<queue, received, handler, writer, dropped, droppedRequeued>>

FinalFailed ==
    /\ stop = "final_insert"
    /\ StoreBatch \/ UNCHANGED stored
    /\ RequeueTrades
    /\ stop' = "stopped"
    /\ UNCHANGED <<received, handler, writer, dropped>>

\* The timeout cancels the flush, which requeues nothing then.
FinalTimedOut ==
    /\ stop = "final_insert"
    /\ StoreBatch \/ UNCHANGED stored
    /\ batch' = NoBatch
    /\ stop' = "stopped"
    /\ UNCHANGED <<queue, received, handler, writer, dropped, droppedRequeued>>

StaysStopped == stop = "stopped" /\ UNCHANGED vars

-----------------------------------------------------------------------------
HandlerTask ==
    \/ \E s \in Symbols : TradeReceived(s)
    \/ TradePublished \/ PutAccepted \/ PutTimedOut \/ BackpressureAlerted

WriterTask == FlushStarted \/ FlushStored \/ FlushFailed \/ FlushAlerted \/ WriterExits

StopTask ==
    \/ StopCalled \/ HandlerCancelled \/ WriterJoined \/ WriterCancelled
    \/ FinalFlush \/ FinalStored \/ FinalFailed \/ FinalTimedOut \/ StaysStopped

Next == HandlerTask \/ WriterTask \/ StopTask

Spec == Init /\ [][Next]_vars

-----------------------------------------------------------------------------
TypeOK ==
    /\ queue \in [Symbols -> Seq(Nat)]
    /\ \A s \in Symbols : Len(queue[s]) <= Capacity
    /\ received \in [Symbols -> 0..MaxTrade]
    /\ handler \in [pc : HandlerPcs, symbol : Symbols \cup {None}]
    /\ writer \in WriterPcs
    /\ batch \in [Symbols -> Seq(Nat)]
    /\ \A s \in Symbols : Len(batch[s]) <= BatchLimit
    /\ stored \in [Symbols -> SUBSET Nat]
    /\ dropped \in [Symbols -> Nat] /\ droppedRequeued \in [Symbols -> Nat]
    /\ stop \in StopPcs

Pending(s) == Elements(queue[s]) \cup Elements(batch[s]) \cup InHand(s)

\* The trades that are nowhere any more.
Lost(s) == (1..received[s]) \ (stored[s] \cup Pending(s))

Counted(s) == dropped[s] + droppedRequeued[s]

\* While the engine runs, the drop counters that health reports account for
\* every trade that is lost, whatever races there are between the timeout of
\* the handler, the writer's drain and the requeue of a failed batch.
LossesCounted ==
    ~Stopping => \A s \in Symbols : Cardinality(Lost(s)) <= Counted(s)

\* What stop() loses without counting it is at most the trade the handler
\* holds, the batch of a cancelled writer and the batch of the final flush.
StopLossBounded ==
    \A s \in Symbols : Cardinality(Lost(s)) <= Counted(s) + 2 * BatchLimit + 1

\* No trade is twice in the pipeline, however often its batch is requeued.
NoCopies ==
    \A s \in Symbols :
        Cardinality(Pending(s)) = Len(queue[s]) + Len(batch[s]) + Cardinality(InHand(s))

\* Under backpressure the trade that is dropped is the oldest of the queue.
OldestDropped ==
    [][\A s \in Symbols :
         queue'[s] # <<>> /\ dropped'[s] > dropped[s] /\ ~Stopping =>
            \A t \in Elements(queue[s]) \ Elements(queue'[s]) :
                \A u \in Elements(queue'[s]) : t < u]_vars

-----------------------------------------------------------------------------
(* Fairness: the tasks run, publications and alerts return, the timers of  *)
(* the put and of stop() fire, and ClickHouse does not fail for ever.      *)
Fairness ==
    /\ WF_vars(TradePublished) /\ WF_vars(PutTimedOut) /\ WF_vars(BackpressureAlerted)
    /\ WF_vars(FlushStarted) /\ SF_vars(FlushStored) /\ WF_vars(FlushAlerted)
    /\ WF_vars(WriterExits)
    /\ WF_vars(HandlerCancelled) /\ WF_vars(WriterJoined \/ WriterCancelled)
    /\ WF_vars(FinalFlush) /\ WF_vars(FinalStored \/ FinalFailed \/ FinalTimedOut)

LiveSpec == Spec /\ Fairness

\* A trade does not stay in the pipeline: it is stored, or dropped under
\* backpressure, unless the engine stops.
TradesSettle ==
    \A s \in Symbols : \A t \in 1..MaxTrade :
        (t \in Pending(s)) ~> (t \notin Pending(s) \/ Stopping)

\* stop() returns whether or not ClickHouse answers.
StopReturns == Stopping ~> (stop = "stopped")
=============================================================================
