------------------------------ MODULE BookSync ------------------------------
(***************************************************************************)
(* How MarketDataEngine (src/src/market_data/engine.py) keeps one local    *)
(* order book per symbol equal to the exchange's: the websocket task that  *)
(* reads depth events, the synchronisation task of each symbol that loads  *)
(* a REST snapshot, and stop(), all on one event loop.                     *)
(*                                                                         *)
(* A task runs alone between two awaits, so an action is the code from one *)
(* await to the next.  The symbol locks guard blocks without an await and  *)
(* are never contended.  The health flags that the same lines write are    *)
(* added to these actions by EngineHealth.                                 *)
(*                                                                         *)
(* The exchange is a tape: Market[s][i] is its book of s at update id i.   *)
(* A connection delivers the events of a symbol in order, and may lose any *)
(* of them; a REST reply may be older or newer than the events seen.       *)
(***************************************************************************)
EXTENDS OrderBook

CONSTANTS
    Symbols,
    MaxId,    \* the last update id of the tape, a bound on the model
    Market,   \* the tape
    Listed    \* Listed[s][i]: the slots that a REST snapshot at id i lists

Ids == 0..MaxId

ASSUME MaxIdAssumption == MaxId \in Nat
ASSUME MarketAssumption == Market \in [Symbols -> [Ids -> Levels]]
ASSUME ListedAssumption == Listed \in [Symbols -> [Ids -> SUBSET Slots]]

VARIABLES
    books,      \* _orderbooks
    tasks,      \* _resync_tasks: where the synchronisation task of a symbol is
    ws,         \* where _websocket_loop is, for which symbol, with which snapshot
    stop,       \* how far stop() is; anything but "up" means _stop_event is set
    seen,       \* the last update id the exchange has sent on the depth stream
    published   \* the last reduced snapshot handed on

vars == <<books, tasks, ws, stop, seen, published>>

-----------------------------------------------------------------------------
(* The exchange. *)

\* The slots that change between the ids before first and final.
Touched(s, first, final) ==
    {k \in Slots : \E i \in (first - 1)..final : Market[s][i][k] # Market[s][final][k]}

DepthEvent(s, first, final) ==
    [first |-> first, final |-> final,
     diff |-> [k \in Slots |-> IF k \in Touched(s, first, final)
                               THEN Market[s][final][k] ELSE None]]

RestSnapshot(s, id) ==
    [lastId |-> id,
     levels |-> [k \in Slots |-> IF k \in Listed[s][id] THEN Market[s][id][k] ELSE 0]]

-----------------------------------------------------------------------------
(* Tasks.  A synchronisation task is idle (absent or done), at the top of  *)
(* its loop, in its cooldown or fetch, publishing the alert of a failed    *)
(* fetch or of a snapshot that did not connect, or cancelled and not yet   *)
(* unwound.  The websocket task awaits, in this order, a connection, a     *)
(* payload, what its handlers publish, the closing handshake of a          *)
(* connection it gives up, the cancelled tasks, and the reconnect alert;   *)
(* unwinding is the closing handshake after which the task ends.           *)

TaskPcs == {"idle", "top", "fetch", "fetch_alert", "sync_alert", "cancelling"}
WsPcs == {"top", "connect", "recv", "gap_alert", "publish", "trade", "queue_alert",
          "closing", "cancel_wait", "reconnect_alert", "unwinding", "done"}
StopPcs == {"up", "cancel_tasks", "cancel_ws", "stopped"}

Task(pc, first) == [pc |-> pc, first |-> first]
Ws(pc) == [pc |-> pc, symbol |-> None, snapshot |-> None]

Stopping == stop # "up"
Alive(s) == tasks[s].pc # "idle"
Running(s) == tasks[s].pc \notin {"idle", "cancelling"}
CancelTasks == [s \in Symbols |-> IF Alive(s) THEN Task("cancelling", None) ELSE tasks[s]]

\* The payload loop of _run_websocket_once is left, and the connection
\* closed, once _stop_event is set.
NextPayload == Ws(IF Stopping THEN "unwinding" ELSE "recv")

Init ==
    /\ books = [s \in Symbols |-> NewBook]
    /\ tasks = [s \in Symbols |-> Task("idle", None)]
    /\ ws = Ws("top")
    /\ stop = "up"
    /\ seen = [s \in Symbols |-> 0]
    /\ published = [s \in Symbols |-> None]

-----------------------------------------------------------------------------
(* _websocket_loop and _run_websocket_once. *)

\* The head of the loop: no synchronisation task is left from the last
\* connection, every book starts to buffer, and the client connects.
WsLoopTop ==
    /\ ws.pc = "top"
    /\ IF Stopping
       THEN ws' = Ws("done") /\ UNCHANGED books
       ELSE ws' = Ws("connect")
            /\ books' = [s \in Symbols |-> StartBuffering("buffering", "unknown")]
    /\ UNCHANGED <<tasks, stop, seen, published>>

Connected ==
    /\ ws.pc = "connect"
    /\ tasks' = [s \in Symbols |-> Task("top", None)]
    /\ ws' = NextPayload
    /\ UNCHANGED <<books, stop, seen, published>>

\* recv() or a handler raises, or the payload is a serverShutdown or cannot
\* be read: the error leaves the context of connect(), which awaits the
\* closing handshake.  The loop has not seen it yet.
RecvFailed ==
    /\ ws.pc = "recv"
    /\ ws' = Ws("closing")
    /\ UNCHANGED <<books, tasks, stop, seen, published>>

\* A slip of Disconnect: the tasks of the lost connection go on.
DisconnectKeepsTasks ==
    /\ ws.pc \in {"connect", "closing"}
    /\ ws' = Ws("reconnect_alert")
    /\ UNCHANGED <<books, tasks, stop, seen, published>>

\* The loop gets the error of connect() or, once the connection is closed,
\* that of the payload loop: it cancels the synchronisation tasks and waits
\* for them.
Disconnect ==
    /\ ws.pc \in {"connect", "closing"}
    /\ tasks' = CancelTasks
    /\ ws' = Ws(IF \E s \in Symbols : Alive(s) THEN "cancel_wait" ELSE "reconnect_alert")
    /\ UNCHANGED <<books, stop, seen, published>>

WsTasksCancelled ==
    /\ ws.pc = "cancel_wait"
    /\ \A s \in Symbols : tasks[s].pc # "cancelling"
    /\ ws' = Ws("reconnect_alert")
    /\ UNCHANGED <<books, tasks, stop, seen, published>>

\* The reconnect alert is out; after its delay the loop starts over.
ReconnectAlerted ==
    /\ ws.pc = "reconnect_alert"
    /\ ws' = Ws("top")
    /\ UNCHANGED <<books, tasks, stop, seen, published>>

-----------------------------------------------------------------------------
(* _handle_depth_update. *)

\* The part under the symbol lock, up to the first await.
HandleDepth(s, u) ==
    LET out == ApplyUpdate(books[s], u)
    IN  /\ books' = [books EXCEPT ![s] = out.book]
        /\ \/ /\ out.result \in Failures
              /\ ws' = [pc |-> "gap_alert", symbol |-> s, snapshot |-> None]
           \/ /\ out.result \in {"buffered", "ignored_old"}
              /\ ws' = NextPayload
           \/ /\ out.result = "applied"    \* no snapshot is due, or a side is empty
              /\ ws' = NextPayload
           \/ /\ out.result = "applied"    \* a snapshot is due
              /\ Reducible(out.book)
              /\ ws' = [pc |-> "publish", symbol |-> s,
                        snapshot |-> ReducedSnapshot(out.book)]

\* The next event of s arrives; the ids it skips are lost.
DepthReceived(s) ==
    /\ ws.pc = "recv"
    /\ \E first, final \in (seen[s] + 1)..MaxId :
         /\ first <= final
         /\ HandleDepth(s, DepthEvent(s, first, final))
         /\ seen' = [seen EXCEPT ![s] = final]
    /\ UNCHANGED <<tasks, stop, published>>

\* An event whose last id precedes its first.
MalformedReceived(s) ==
    /\ ws.pc = "recv"
    /\ \E final \in (seen[s] + 1)..MaxId :
         /\ HandleDepth(s, [DepthEvent(s, final, final) EXCEPT !.first = final + 1])
         /\ seen' = [seen EXCEPT ![s] = final]
    /\ UNCHANGED <<tasks, stop, published>>

\* A payload that is no depth event: a trade, which _handle_trade publishes,
\* or an event of a type that is ignored.
OtherReceived ==
    /\ ws.pc = "recv"
    /\ ws' \in {Ws("trade"), NextPayload}
    /\ UNCHANGED <<books, tasks, stop, seen, published>>

\* The trade is published, and its queue has room, takes nothing any more,
\* or makes the handler wait (TradePipeline) and publish an alert: a wait
\* that began before stop() ends as it would have.
TradePublished ==
    /\ ws.pc = "trade"
    /\ ws' \in {NextPayload, Ws("queue_alert")}
    /\ UNCHANGED <<books, tasks, stop, seen, published>>

\* The rest of the handler once _publish_orderbook has returned; the queue
\* of snapshots either had room or dropped its oldest, which is an alert.
SnapshotPublished ==
    /\ ws.pc = "publish"
    /\ published' = [published EXCEPT ![ws.symbol] = ws.snapshot]
    /\ \/ ws' = NextPayload
       \/ ws' = Ws("queue_alert")
    /\ UNCHANGED <<books, tasks, stop, seen>>

\* The alert of a full queue, of trades or of snapshots, is out.
QueueAlerted ==
    /\ ws.pc = "queue_alert"
    /\ ws' = NextPayload
    /\ UNCHANGED <<books, tasks, stop, seen, published>>

\* A slip of TriggerResync: the book is not emptied, for the gap has been.
TriggerResyncOnly ==
    /\ ws.pc = "gap_alert"
    /\ LET s == ws.symbol
       IN  tasks' = IF Alive(s) THEN tasks ELSE [tasks EXCEPT ![s] = Task("top", None)]
    /\ ws' = NextPayload
    /\ UNCHANGED <<books, stop, seen, published>>

\* _trigger_resync, after the alert of _handle_sequence_failure.
TriggerResync ==
    /\ ws.pc = "gap_alert"
    /\ LET s == ws.symbol
       IN  IF Alive(s)
           THEN UNCHANGED <<books, tasks>>
           ELSE /\ books' = [books EXCEPT ![s] = StartBuffering("resyncing", @.integrity)]
                /\ tasks' = [tasks EXCEPT ![s] = Task("top", None)]
    /\ ws' = NextPayload
    /\ UNCHANGED <<stop, seen, published>>

-----------------------------------------------------------------------------
(* _sync_orderbook. *)

\* From the head of the loop, on book b, to its first await: the sleep that
\* waits for an event, or the cooldown and the fetch.
SyncLoop(s, b) ==
    /\ books' = [books EXCEPT ![s] = IF Stopping THEN b ELSE [b EXCEPT !.sync = "syncing"]]
    /\ tasks' = [tasks EXCEPT ![s] = IF Stopping THEN Task("idle", None)
                                     ELSE IF b.buffer = <<>> THEN Task("top", None)
                                     ELSE Task("fetch", b.buffer[1].first)]

SyncTop(s) ==
    /\ tasks[s].pc = "top"
    /\ SyncLoop(s, books[s])
    /\ UNCHANGED <<ws, stop, seen, published>>

\* The first id the snapshot is compared with: of the buffer as it is now,
\* or, if it was emptied during the fetch, as it was before.
CurrentFirst(s) ==
    IF books[s].buffer = <<>> THEN tasks[s].first ELSE books[s].buffer[1].first

\* A slip of Synchronise: the task ends even if the events did not connect.
SynchroniseOnce(s, snapshot) ==
    /\ books' = [books EXCEPT ![s] = InitializeFromSnapshot(books[s], snapshot).book]
    /\ tasks' = [tasks EXCEPT ![s] = Task("idle", None)]

Synchronise(s, snapshot) ==
    LET out == InitializeFromSnapshot(books[s], snapshot)
    IN  /\ books' = [books EXCEPT ![s] = out.book]
        /\ tasks' = [tasks EXCEPT ![s] = Task(IF out.result = "applied" THEN "idle"
                                              ELSE "sync_alert", None)]

\* The fetch returns a snapshot: too old, it is fetched again.
SnapshotFetched(s, id) ==
    /\ tasks[s].pc = "fetch"
    /\ IF id < CurrentFirst(s)
       THEN SyncLoop(s, books[s])
       ELSE Synchronise(s, RestSnapshot(s, id))
    /\ UNCHANGED <<ws, stop, seen, published>>

\* The fetch is rate limited or fails.
FetchFailed(s) ==
    /\ tasks[s].pc = "fetch"
    /\ tasks' = [tasks EXCEPT ![s] = Task("fetch_alert", None)]
    /\ UNCHANGED <<books, ws, stop, seen, published>>

\* A slip of FetchAlerted: the task gives up.
FetchAlertedGivesUp(s) ==
    /\ tasks[s].pc = "fetch_alert"
    /\ tasks' = [tasks EXCEPT ![s] = Task("idle", None)]
    /\ UNCHANGED <<books, ws, stop, seen, published>>

\* Its alert is out; the task sleeps and starts over.
FetchAlerted(s) ==
    /\ tasks[s].pc = "fetch_alert"
    /\ tasks' = [tasks EXCEPT ![s] = Task("top", None)]
    /\ UNCHANGED <<books, ws, stop, seen, published>>

\* The alert of a snapshot that the buffered events did not connect to is
\* out: the book is emptied and the loop starts over.
SyncAlerted(s) ==
    /\ tasks[s].pc = "sync_alert"
    /\ SyncLoop(s, StartBuffering("buffering", "unknown"))
    /\ UNCHANGED <<ws, stop, seen, published>>

TaskUnwound(s) ==
    /\ tasks[s].pc = "cancelling"
    /\ tasks' = [tasks EXCEPT ![s] = Task("idle", None)]
    /\ UNCHANGED <<books, ws, stop, seen, published>>

-----------------------------------------------------------------------------
(* stop(). *)

\* Slips of stop(): it waits for the websocket task without cancelling it;
\* it forgets the synchronisation tasks.
CancelWsForgotten == ws
StopCalledKeepsTasks ==
    /\ stop = "up"
    /\ stop' = "cancel_ws" /\ ws' = Ws(IF ws.pc = "done" THEN "done" ELSE "unwinding")
    /\ UNCHANGED <<books, tasks, seen, published>>

CancelWs == Ws(IF ws.pc = "done" THEN "done" ELSE "unwinding")

\* Sets _stop_event and cancels the synchronisation tasks; it only waits,
\* and lets the other tasks run, if there are any.
StopCalled ==
    /\ stop = "up"
    /\ IF \E s \in Symbols : Alive(s)
       THEN stop' = "cancel_tasks" /\ tasks' = CancelTasks /\ UNCHANGED ws
       ELSE stop' = "cancel_ws" /\ ws' = CancelWs /\ UNCHANGED tasks
    /\ UNCHANGED <<books, seen, published>>

StopTasksCancelled ==
    /\ stop = "cancel_tasks"
    /\ \A s \in Symbols : tasks[s].pc # "cancelling"
    /\ stop' = "cancel_ws"
    /\ ws' = CancelWs
    /\ UNCHANGED <<books, tasks, seen, published>>

WsUnwound ==
    /\ ws.pc = "unwinding"
    /\ ws' = Ws("done")
    /\ UNCHANGED <<books, tasks, stop, seen, published>>

Stopped ==
    /\ stop = "cancel_ws"
    /\ ws.pc = "done"
    /\ stop' = "stopped"
    /\ UNCHANGED <<books, tasks, ws, seen, published>>

\* A stopped engine stays as it is.
StaysStopped == stop = "stopped" /\ UNCHANGED vars

-----------------------------------------------------------------------------
SyncTask(s) ==
    \/ SyncTop(s) \/ FetchFailed(s) \/ FetchAlerted(s) \/ SyncAlerted(s) \/ TaskUnwound(s)
    \/ \E id \in Ids : SnapshotFetched(s, id)

WebsocketTask ==
    \/ WsLoopTop \/ Connected \/ RecvFailed \/ Disconnect \/ WsTasksCancelled \/ ReconnectAlerted
    \/ \E s \in Symbols : DepthReceived(s) \/ MalformedReceived(s)
    \/ OtherReceived \/ TradePublished \/ SnapshotPublished \/ QueueAlerted \/ TriggerResync
    \/ WsUnwound

StopTask == StopCalled \/ StopTasksCancelled \/ Stopped \/ StaysStopped

Next == WebsocketTask \/ StopTask \/ \E s \in Symbols : SyncTask(s)

Spec == Init /\ [][Next]_vars
-----------------------------------------------------------------------------
\* Every variable holds values of its type.
TypeOK ==
    /\ books \in [Symbols -> Book]
    /\ tasks \in [Symbols -> [pc : TaskPcs, first : Nat \cup {None}]]
    /\ ws \in [pc : WsPcs, symbol : Symbols \cup {None}, snapshot : Reduced \cup {None}]
    /\ stop \in StopPcs
    /\ seen \in [Symbols -> Ids]
    /\ published \in [Symbols -> Reduced \cup {None}]

Synced(s) == books[s].sync = "synced"

\* The connection is open: the payload loop waits or handles a payload.
Open == ws.pc \in {"recv", "gap_alert", "publish", "trade", "queue_alert"}

\* The REST snapshots list every level the exchange has.
DeepRest == \A s \in Symbols, i \in Ids, k \in Slots : Market[s][i][k] # 0 => k \in Listed[s][i]

Faithful(s, b) ==
    /\ b.lastId \in Ids
    /\ \A k \in Slots : \/ b.levels[k] = Market[s][b.lastId][k]
                        \/ b.levels[k] = 0 /\ ~DeepRest

\* A synchronised book is the exchange's book at its last update id,
\* whatever order its snapshot, its buffered events, the losses and the
\* resynchronisations came in: no level of another id, and, if REST lists
\* every level, none missing.
BookFaithful == \A s \in Symbols : Synced(s) => Faithful(s, books[s])

\* On an open connection a book that is not synchronised has a task that
\* will synchronise it, or the websocket task is about to start one: a gap
\* found while the old task still ran is never forgotten.
NoOrphanedBook ==
    \A s \in Symbols :
        Open /\ ~Stopping => Synced(s) \/ Running(s) \/ (ws.pc = "gap_alert" /\ ws.symbol = s)

\* No task synchronises a book that is synchronised already: its loop would
\* mark it as syncing and its snapshot would replace newer levels.
NoResyncOfSyncedBook ==
    \A s \in Symbols : Synced(s) => ~Running(s)

IsTopOf(s, snapshot) ==
    /\ snapshot.lastId \in Ids
    /\ snapshot.bids = Top(Market[s][snapshot.lastId], "bid")
    /\ snapshot.asks = Top(Market[s][snapshot.lastId], "ask")

\* What is handed on for Redis and ClickHouse is the top of the exchange's
\* book at the id it claims, although the handler has let other tasks run
\* since it looked.
PublishedTopOfBook ==
    DeepRest => \A s \in Symbols : published[s] # None => IsTopOf(s, published[s])

\* A synchronised book never goes back to an earlier update id, whatever the
\* REST snapshots list; where they list every level, KeepsFeed says so too.
NoRollback ==
    [][\A s \in Symbols : Synced(s) /\ Synced(s)' => books'[s].lastId >= books[s].lastId]_vars

\* Once stop() has returned, nothing that outlived it touches a book or
\* publishes one.
StoppedForGood == [][stop = "stopped" => UNCHANGED <<books, ws, published>>]_vars

-----------------------------------------------------------------------------
(* The promise to the readers of the books and of the snapshots. *)

View == [s \in Symbols |->
            IF Synced(s) THEN {[id |-> books[s].lastId, levels |-> books[s].levels]} ELSE {}]

TopsOf(s) == [i \in Ids |-> [lastId |-> i, bids |-> Top(Market[s][i], "bid"),
                                          asks |-> Top(Market[s][i], "ask")]]

Feed == INSTANCE DepthFeed
            WITH view <- View, serving <- (stop # "stopped"),
                 Tops <- [s \in Symbols |-> TopsOf(s)]

\* The engine keeps the promise of DepthFeed where REST lists every level: a
\* book is shown only at an id of the exchange and only moves on, and what is
\* handed on is the top of the book as it is then shown, although the
\* handler has let other tasks run since it took it, at ids that grow across
\* gaps, resynchronisations and connections.
KeepsFeed == Feed!Spec

-----------------------------------------------------------------------------
(* The inductive invariant: what the properties above rest on.             *)

HonestEvent(s, u) ==
    /\ u.first \in Nat \ {0} /\ u.final \in Ids /\ u.first <= u.final
    /\ u = DepthEvent(s, u.first, u.final)

HonestBuffer(s, b) == \A i \in 1..Len(b.buffer) : HonestEvent(s, b.buffer[i])

\* The buffered events are events of the tape.
BuffersHonest == \A s \in Symbols : HonestBuffer(s, books[s])

\* A snapshot under way to its publication is right.
PendingTopOfBook ==
    /\ ws.pc = "publish" => ws.symbol \in Symbols /\ ws.snapshot \in Reduced
    /\ ws.pc = "publish" /\ DeepRest => IsTopOf(ws.symbol, ws.snapshot)
    /\ ws.pc = "gap_alert" => ws.symbol \in Symbols

\* Which tasks there are while the connection is closed or being opened,
\* and once stop() has begun.
TasksMatchConnection ==
    /\ ws.pc \in {"top", "connect", "cancel_wait", "reconnect_alert"}
         => \A s \in Symbols : ~Running(s)
    /\ ws.pc = "connect" => \A s \in Symbols : ~Synced(s)
    /\ ws.pc # "cancel_wait" /\ ~Stopping => \A s \in Symbols : tasks[s].pc # "cancelling"
    /\ \A s \in Symbols : tasks[s].pc = "fetch" => tasks[s].first \in Nat

StopIsQuiet ==
    /\ Stopping => \A s \in Symbols : tasks[s].pc \in {"idle", "top", "cancelling"}
    /\ stop = "stopped" => ws.pc = "done"

IndInv ==
    /\ TypeOK /\ BookFaithful /\ BuffersHonest /\ PublishedTopOfBook /\ PendingTopOfBook
    /\ NoOrphanedBook /\ NoResyncOfSyncedBook /\ TasksMatchConnection /\ StopIsQuiet

-----------------------------------------------------------------------------
(* Fairness: a task that can run is run, and an alert or a publication     *)
(* returns, because the Redis client's calls time out.  Of the environment *)
(* it is only assumed that fetches do not fail or stay too old for ever.   *)

FreshSnapshot(s) ==
    tasks[s].pc = "fetch" /\ \E id \in CurrentFirst(s)..MaxId : SnapshotFetched(s, id)

Fairness ==
    /\ WF_vars(WsLoopTop) /\ WF_vars(WsTasksCancelled) /\ WF_vars(ReconnectAlerted)
    /\ WF_vars(SnapshotPublished) /\ WF_vars(TradePublished) /\ WF_vars(QueueAlerted)
    /\ WF_vars(TriggerResync)
    /\ WF_vars(WsUnwound) /\ WF_vars(StopTasksCancelled) /\ WF_vars(Stopped)
    /\ \A s \in Symbols :
         /\ WF_vars(SyncTop(s)) /\ WF_vars(FetchAlerted(s)) /\ WF_vars(SyncAlerted(s))
         /\ WF_vars(TaskUnwound(s)) /\ SF_vars(FreshSnapshot(s))

LiveSpec == Spec /\ Fairness

\* A started synchronisation ends: the book becomes synchronised, unless its
\* events are thrown away (a gap or a full buffer), the connection is lost
\* or the engine stops.  Failed and outdated fetches only delay it.
SyncCompletes ==
    \A s \in Symbols :
        (tasks[s].pc = "fetch") ~> (Synced(s) \/ books[s].buffer = <<>> \/ ~Open \/ Stopping)

\* stop() returns, whatever it interrupts.
StopReturns == Stopping ~> (stop = "stopped")
=============================================================================
