# Formal model of the market data service

This directory holds TLA+ specifications of `microtrade_crypto_ia`, the TLC
configurations that check them, and proofs for the TLA+ proof system. The
source they are translated from is under `src/`; the Python package is
`src/src/`. Paths below are relative to `src/src/` unless they start with
`src/`.

Contents

1. The system
2. Plan
3. The modules and the code
4. What the runs check
5. Fairness
6. What is proved
7. Abstractions
8. What is not modelled
9. Disagreements between the code and what is said of it

## 1. The system

The service is one Python process with one asyncio event loop. It reads the
trades and the depth events of a few symbols from Binance, keeps a local order
book per symbol, publishes trades and reduced books on Redis streams, and
stores both in ClickHouse. Later phases (features, ML, risk, execution, replay)
are empty packages.

| Component | State it keeps | Operations | Talks to |
|---|---|---|---|
| Local order book, `market_data/orderbook.py` | levels of both sides, `last_update_id`, `sync_state`, `sequence_integrity`, `buffered_updates` | `start_buffering`, `buffer_update`, `initialize_from_snapshot`, `apply_update`, `invalidate`, `reduced_snapshot` | called by the engine only |
| Order-book synchronisation, `market_data/engine.py` | `_orderbooks`, `_resync_tasks`, `_symbol_locks`, `_stop_event`, the snapshot a handler is about to publish | `_websocket_loop`, `_run_websocket_once`, `_handle_depth_update`, `_sync_orderbook`, `_handle_sequence_failure`, `_trigger_resync`, `_cancel_resync_tasks`, `stop` | REST and websocket client, event bus, queues |
| Engine health, `market_data/engine.py` | `_degraded_reasons`, `_health.status`, `_health.connected` | `_set_degraded`, `_clear_degraded_reason`, `_refresh_engine_status`, `_refresh_health_fields`, `ping`, `health_snapshot` | written by every task of the engine, read by the API |
| Trade queues and writer, `market_data/backpressure.py`, `engine.py` | a bounded queue per symbol, drop counters, the batch being inserted | `put_trade`, `drain_trades`, `requeue_trades`, `stop_accepting`, `_writer_loop`, `_flush_trades_once`, `_flush_final` | ClickHouse writer |
| Snapshot queues and writer, same files | a queue per symbol that evicts its head, drop counter, the batch | `put_snapshot`, `drain_snapshots`, `requeue_latest_snapshots`, `_flush_snapshots_once` | ClickHouse writer |
| Binance client, `market_data/binance_client.py` | request-weight window, cooldown, time of the last REST call | `fetch_depth_snapshot`, `acquire`, `apply_cooldown`, `connect`, `recv_combined_payload` | exchange |
| ClickHouse writer, `storage/market_data_writer.py`, with `core/retry.py` | lazily created client, lock | `ensure_schema`, `insert_trades`, `insert_orderbook_snapshots`, `close` | ClickHouse, in threads |
| Redis event bus, `storage/redis_event_bus.py` | connection; in Redis the streams, groups and pending entries | `publish`, `read`, `ack`, claiming, dead letters | Redis |
| API and lifespan, `api/main.py`, `storage/clickhouse.py` | the dependencies it owns | startup, shutdown, `/health/live`, `/health/ready`, `/health/market-data` | all of the above |
| Configuration, logging, models | none that changes | parsing, validation, formatting | everywhere |

How they interact. The **websocket task** calls the depth handler and the trade
handler in turn; both await the event bus, and the trade handler awaits a queue.
One **synchronisation task per symbol** is created when a connection opens, and
again by `_trigger_resync`; it shares the book with the depth handler. Two
**writer tasks** drain the queues. **stop()** runs in the caller's task and
cancels the others in an order. The polls of the **API** read and write the
health at any await. All of them run on one thread: a task runs alone from one
`await` to the next, and the inserts run in worker threads that a cancellation
does not stop.

The behaviours that are hard:

- A REST snapshot and the events on the websocket arrive in any relative order;
  events are lost, the buffer overflows, a snapshot is too old.
- The book changes during every `await` of the two tasks that share it: during
  the cooldown and the fetch, and during the alert that precedes
  `_trigger_resync`.
- A connection is lost, or `stop()` is called, while synchronisation tasks
  fetch, sleep or publish. The loss is reported only after the closing handshake
  and after the tasks have been waited for, and polls come in between.
- The timeout of a put races with the drain of a writer; a failed batch returns
  to a queue that has filled up meanwhile.
- A shutdown has a timeout at every stage, and cancels whatever is in progress.
- Reasons for being degraded are set and cleared by tasks that do not know of
  each other.
- A worker thread outlives the call that was cancelled, and goes on using or
  creating the client that others use and close.
- A caller of the REST client looks at the budget, sleeps and looks again while
  its lock changes hands by cancellation.

What makes each component correct: a synchronised book equals the exchange's
book at its id, and whatever is published is its top; no book is forgotten; no
trade is lost without being counted, or duplicated in the pipeline, while the
engine runs; the newest market state is not wiped out by evictions; alarms are
neither false nor lost, a healthy answer speaks of a connection that the engine
reads or is still closing, and a lost one is reported;
`stop()` returns and nothing outlives it; every message of a stream is handled
or reported at least once; the weight of the requests within any minute is
within the limit, and every caller is served; connections to ClickHouse are
bounded, and an insert that returns has stored its rows; the application lets go
of what it has created, in order, and answers every readiness request.

`PROJECT.json` lists, under `hazards`, each place where the code is exposed and
the properties that watch it.

## 2. Plan

Done, in this order.

1. `OrderBook`: the book as operators, on which the rest is built.
2. `BookSync`: the synchronisation protocol, with `BookSyncProofs`, which are
   also about the operators of the order book.
3. `EngineHealth`: the health on top of it, with `EngineHealthProofs`, which
   show that it implements `BookSync`.
4. `TradePipeline` and `SnapshotPipeline`: the queues, writers and shutdown, with
   `TradePipelineProofs` and `SnapshotPipelineProofs`.
5. `RedisEventBus`: a consumer group, poison messages, lost answers, crashes;
   `RedisEventBusProofs`.
6. `DepthFeed`: what the synchronisation promises to those who read its books,
   and the proof, in `BookSyncProofs`, that `BookSync` implements it.
7. `RestClient`: the weight limiter, the spacing of calls and the cooldown, in
   discrete time; `RestClientProofs`.
8. `MarketDataWriter`: the lock, the retries, the client, and the threads that
   outlive their calls; `MarketDataWriterProofs`.
9. `Lifespan`: start and stop order, readiness; `LifespanProofs`.

What composes what: `BookSync` extends `OrderBook` and instantiates `DepthFeed`;
`EngineHealth` extends `BookSync`. The pipelines, the clients, the bus and the
lifespan are modules of their own: they share no state with each other but the
calls between them, which each takes as an operation that returns or raises, and
which the module of the callee shows to end.

Every invariant and every action property of the passing runs is proved. What
could be added: abstract specifications of the pipelines, the bus and the writer,
as `DepthFeed` is one of the synchronisation.

## 3. The modules and the code

`PROJECT.json` names, under `map`, the lines of every definition.

**OrderBook** has no variables. A book is a record with the fields of
`LocalOrderBook`; its two dictionaries are one function `levels` from slots
(side and price) to quantities, 0 for an absent price. Each method is an
operator that returns the new book, or, where the method returns an
`ApplyUpdateResult`, a record of book and result (`Outcome`). The loop of
`initialize_from_snapshot` over the buffered events is the recursive function in
`Drain`.

**BookSync** extends it with the engine's tasks. `books` and `tasks` are
`_orderbooks` and `_resync_tasks`, a task being represented by the await it is
at: `top` (head of the loop, including its sleeps), `fetch` (cooldown and REST
call, with the first buffered id read before them), `fetch_alert`, `sync_alert`,
`cancelling`. `ws` is the same for the websocket task, with the symbol and the
reduced snapshot its handler holds across an await. `stop` is how far `stop()`
has come. `seen` and the constants `Market` and `Listed` are the exchange: a
tape of books by update id, how far each symbol's stream has got, and which
levels a REST reply lists. `published` is the history the properties need.

Each action is the code from one await to the next. `DepthReceived` is
`_handle_depth_update` up to its first await, for an event that spans any ids
after the last one sent: the skipped ids are the lost events. `SnapshotFetched`
is everything from the return of the fetch to the next await, including
`initialize_from_snapshot` and, for a snapshot that is too old, the turn of the
loop up to the next fetch. A lost connection takes three steps. `RecvFailed` is
the error of `recv()` or of a handler, which leaves `async with connect()` and
awaits the closing handshake (`closing`; `market_data/engine.py:274`,
`market_data/binance_client.py:84-92`); `Disconnect` is the loop's `except` up to
the wait for the cancelled tasks (`cancel_wait`), and `WsTasksCancelled` what
follows it. A connection that is left because `_stop_event` is set is closed at
`unwinding`, after which the task ends. A trade is `OtherReceived`, then
`TradePublished` and, if its queue was full, `QueueAlerted`, which is also the
alert of a full snapshot queue. `StopCalled`, `StopTasksCancelled` and `Stopped`
are the stages of `stop()`.

**DepthFeed** is the abstract specification: a view of each symbol that is hidden
or the exchange's book at some id, a series of published tops at ever later ids,
and an end. `BookSync` maps its state to it with `View` (a synchronised book is
shown, any other is hidden), `published` and `stop`, and states `KeepsFeed ==
Feed!Spec`.

**EngineHealth** extends `BookSync` by conjoining to each of its actions what
the same lines do to the health, and adds the writers (`Writers`, two tasks in the
engine, which succeed, or fail and then publish an alert) and `HealthPoll`. `reasons`, `status`,
`connected` are the engine's fields; `heard` are the symbols with a
`last_event_received_ts`; `failing` the writers at their alert. `Healthy` is what
`ping()` answers after it has refreshed the fields. Nothing is reported by
`RecvFailed`: the reason and `connected` change with `Disconnect`, if no task is
left to wait for, or with `WsTasksCancelled`.

**TradePipeline** follows the trades of a symbol, numbered as they are received,
from the trade handler (`handler`: `publish`, `put` while it waits for room,
`alert`) through `queue` and `batch` to `stored`. `PutTimedOut` covers every
outcome of the timeout: the queue still full, one place free, empty. `stop`
stages the shutdown: `cancel_tasks`, `join_writer`, `final_flush`,
`final_insert`.

**SnapshotPipeline** is the same for snapshots, whose queue evicts its head
instead of making the handler wait. `FinalSkipped` is `_flush_final` after a
failed flush of the trades.

**RedisEventBus** is one consumer group of one stream. `added`, `trimmed`,
`group`, `delivered`, `pending` and `idle` are what Redis keeps; `readers` is,
for each consumer, the await it is at in `read()` or in its own loop, the raw
messages it has still to decode and the messages it has decoded. The code between
two awaits is `Decode`: it takes the messages up to the first poison one, and
then awaits the alert (`alert`), fetches new ones (`fetch`), returns (`handle`)
or raises. `Alerted`, `AlertFailed` and `PoisonAcked` are
`_dead_letter_poison_message`. `AnswerLost` is a command that Redis ran and
`retry_async` runs again; `Abandoned` a call that raises in the end, or a crash:
both leave the consumer with nothing in hand.

**RestClient** is `fetch_depth_snapshot` with its lock, `_respect_rest_spacing`, and
the limiter. `queue` is the lock: its owner first, then those who wait. `stage`
is where the owner is: `entering` (the lock has just been handed to it),
`spacing` and `budget` (the two sleeps), `request`. A time stamp is kept as its
age and a deadline as the time left, so that the state space is finite without a
bound on time. `Acquire` is one turn of the loop of `acquire()`. `sent` is not in
the code: the requests that were really sent, whatever the limiter remembers.

**MarketDataWriter** is the class of that name under the calls the engine makes:
`queue`, `stage` and `attempt` are its lock and the owner's place in
`retry_async`; `thread` has, for each call, the worker thread of
`asyncio.to_thread`, which after a cancellation goes on, abandoned. `Connected`
creates the client on the event loop, for an insert, and `SchemaConnected` in
the thread of `ensure_schema`. `phase` is how far `start()` and `stop()` are.
`copies` counts how often ClickHouse took the rows of a call, and `late` tells
that `start()` has given up on a schema whose thread had no client yet.

**Lifespan** is `lifespan` and `readiness` of `create_app`. `given` are the
dependencies handed in, which the application neither creates nor lets go of;
`state` is what has become of each. `ping` has, for each readiness request, its
three concurrent pings with their attempts; `line` is the lock of
`ClickHouseClient`.

**BookSyncMC** and **EngineHealthMC** give the constants their values for TLC.
**BookSyncProofs**, **EngineHealthProofs**, **TradePipelineProofs**,
**SnapshotPipelineProofs**, **RedisEventBusProofs**, **RestClientProofs**,
**MarketDataWriterProofs** and **LifespanProofs** hold the theorems.

Definitions introduced by a comment "A slip of ..." are not the code: each is a
definition changed as a plausible mistake would change it. `PROJECT.json` lists
under `mutants`, for each property of each run, the slip that violates it.

## 4. What the runs check

| Run | Question | Bounds |
|---|---|---|
| `BookSync_one` | Does the synchronisation implement the feed it promises (`KeepsFeed`)? Is a synchronised book the exchange's (`BookFaithful`), is what is published its top (`PublishedTopOfBook`)? Does a synchronisation end (`SyncCompletes`), does `stop()` return (`StopReturns`)? | 1 symbol, 6 updates, 3 prices, top of 1 level, buffer of 3 |
| `BookSync_two` | Is no book forgotten (`NoOrphanedBook`) or synchronised twice (`NoResyncOfSyncedBook`), is `stop()` final (`StoppedForGood`)? Does the inductive invariant hold (`IndInv`), also if REST replies list the best level only? | 2 symbols, 3 updates, buffer of 2 |
| `EngineHealth` | Are alarms true (`AlarmsAreTrue`), do they stand until the book is synchronised (`AlarmsStand`), does fetch trouble end (`FetchTroubleEnds`), is a healthy answer about a connection that is open or in its closing handshake (`HealthyUntilClosed`), and does one that was given up cease to count as connected (`LossIsReported`)? | 1 symbol, 3 updates, buffer of 1, 1 writer, all reasons |
| `TradePipeline_one` | Is every lost trade counted while the engine runs (`LossesCounted`), is the loss of `stop()` bounded (`StopLossBounded`), is nothing duplicated (`NoCopies`)? Does a trade leave the pipeline (`TradesSettle`), does `stop()` return (`StopReturns`)? | 1 symbol, 6 trades, queue 2, batch 2 |
| `TradePipeline_order` | Is the oldest trade dropped? It is not: section 9. | 1 symbol, 4 trades |
| `SnapshotPipeline` | Is nothing duplicated, and does the pipeline of a symbol only become empty by storing (`EmptiesOnlyByStoring`)? Does a snapshot leave the pipeline (`SnapshotsSettle`)? | 2 symbols, 3 snapshots each, queue 2, batch 2 |
| `SnapshotPipeline_order` | Is the oldest snapshot evicted first? It is not: section 9. | 1 symbol, 3 snapshots, queue 1 |
| `RedisEventBus` | Is no message forgotten, whoever crashes (`NothingForgotten`), and is every message settled in the end (`MessagesSettle`)? | 2 consumers, 3 entries, entry 2 is poison, reads of 2, stream trimmed to 2, 1 failure |
| `RedisEventBus_binary` | Is a poison message settled if its fields are not UTF-8? It is not: section 9. | 1 consumer, 2 entries, no failure |
| `RestClient` | Is the weight of every window within the limit (`WithinBudget`)? Does a request go out only when the cooldown and the spacing are over, also after a sleep (`Polite`)? Is every caller served (`CallersAreServed`)? | 3 callers, a window of 6, a spacing of 2, requests of weight 2, limits of 4 and 1 (below one request) |
| `MarketDataWriter` | Are connections bounded (`ClientsBounded`)? Has an insert that returns stored its rows, and none more often than it may try (`InsertsAccounted`)? Does every call end (`CallsEnd`), and do `start()` and `stop()` (`EngineGoesOn`)? | 5 calls, 2 attempts each, 3 clients |
| `Lifespan` | Is everything the application has created let go of, the bus after the engine, whatever raises (`LetGoInOrder`)? Is every readiness request answered (`RequestsAnswered`)? | 2 concurrent requests, 2 attempts, every set of dependencies handed in |

Why the bounds are enough.

- *Six updates.* The interesting orders need an event before the snapshot, one
  it overlaps, one after it, a lost one, and one that reveals the loss. The tape
  lets a level appear, change sides, change its quantity, vanish and return, so
  that any event applied to the wrong book, out of order or twice leaves a level
  that differs from the tape.
- *A buffer of three* has an old event and two fresh ones, and overflows on the
  fourth. With a buffer of one (`EngineHealth`) it overflows on the second, which
  is all the health depends on.
- *One writer* (`EngineHealth`): all writers set and clear the same reasons, and no
  property tells them apart; the theorems hold of any number (`Writers`).
- *Two symbols* are needed where tasks wait for all tasks (`cancel_wait`,
  `cancel_tasks`) and where one gap alert delays the events of the other symbol.
  Where reasons are shared by symbols (`EngineHealth`), and where they share a
  batch and a writer (`TradePipeline`), the runs have one symbol, whose poll,
  writers and tasks already set and clear each other's reasons; that the
  properties hold of several symbols is proved (section 6).
- *Queue 2, batch 2 and six trades* let the queue be full while a full batch is
  being inserted and one more trade waits in the handler, and let that happen
  after a requeue.
- *Three entries and reads of two* give a batch with a message before the poison,
  one after it, and a read that claims some and fetches some. One lost answer or
  crash can happen at any call; the other consumer then meets what it left.
- *Three callers* of the REST client: one that owns the lock and two in line, of
  whom any may be cancelled at any place. The window is short, so that events expire
  while callers sleep, and a cooldown can outlast it.
- *Three clients* are one more than can be open at the same time; every call of
  the writer has its own thread, abandoned or not, and two attempts tell a retry
  from the last one.
- *Two requests* are needed for one ping to wait for the lock of another.
- *No symmetry* is used: the tape could be permuted, but the runs are short.

Deadlock is checked in every run: a stopped engine takes `StaysStopped`, and
consumers keep reading, callers keep calling. Runs that check liveness use the
specification with fairness, which takes no state away, for their invariants too.

## 5. Fairness

Safety needs none. The `LiveSpec` of the synchronisation and of the pipelines
assumes:

- Weak fairness of each step the event loop can run: a task that is ready is
  run, and a sleep ends.
- Weak fairness of the return of a publication or an alert: the Redis client has
  a socket timeout (`storage/redis_event_bus.py:26-31`), the retries are bounded
  (`core/retry.py`), and `_safe_publish_*` swallow the failure.
- Weak fairness of the put timeout, of the drain timeout and of the timeout of
  the final flush: they are timers.
- Strong fairness of a fetch that returns a snapshot that is not older than the
  buffer, and of an insert that is stored. These are assumptions on Binance and
  ClickHouse: the code retries without end, so no more can be promised. `StopReturns`
  does not need them.

`HealthLiveSpec` of `EngineHealth` assumes that a closing handshake ends, because
the client gives it a `close_timeout` (`market_data/binance_client.py:90`), that
cancelled tasks unwind, and that the loop and `stop()` go on after them. It
assumes nothing of publications, fetches or flushes.

In `RedisEventBus` consumers keep reading and time passes; lost answers and
crashes are bounded by `MaxFailures`, so weak fairness of the reading task is
enough.

In `RestClient` time passes, an owner whose sleep is over goes on, and a request
ends, at the latest by the client's timeout (`market_data/binance_client.py:71`);
nothing is assumed about calls, refusals and cancellations.

In `MarketDataWriter` the event loop runs what can run, a thread's request ends,
at the latest by the timeouts of the ClickHouse client, and the timers of
`start()` and `stop()` fire. An insert need not ever succeed.

In `Lifespan` every method of a dependency returns or raises. For the engine
that is what `StopReturns` and `EngineGoesOn` show; the pings have timeouts and
bounded retries (`core/retry.py`).

Nothing is assumed about the arrival of events, the loss of connections or the
call of `stop()`, and a call of `connect()` or `recv()` may wait for ever.
`SyncCompletes` therefore allows for what ends a synchronisation from outside: a
gap or a full buffer, the loss of the connection, `stop()`.

## 6. What is proved

With `tlapm` (Z3, Zenon and LS4), for every value of the constants that satisfies
the ASSUMEs of the modules:

| Theorem | Says |
|---|---|
| `ApplyUpdateType` | `apply_update` returns a book and one of its results |
| `Invariance` | `Spec => []IndInv` of `BookSync` |
| `TypeCorrect`, `BooksStayFaithful`, `PublishedIsTop`, `NoBookOrphaned`, `NoSyncedBookResynced` | the invariants of the `BookSync` runs, and its types |
| `BooksNeverRollBack` | a synchronised book never goes back to an earlier id (`NoRollback`), also where REST replies are cut; where they are not, the runs check it as part of `KeepsFeed` |
| `NothingAfterStop` | the action property of `BookSync_two` |
| `FeedKept` | `BookSync` implements `DepthFeed`, if REST replies list every level (`DeepRest`) |
| `HealthImplementsSync` | `HealthSpec => Spec`: the theorems above hold of the engine with its health |
| `HealthInvariance` | the health's own inductive invariant |
| `HealthTypeCorrect`, `HealthyTillClosed`, `AlarmsTrue`, `TroubleEnds`, `NoAlarmLost` | the properties of the `EngineHealth` run, for any number of symbols |
| `RunningConnected` | the engine calls itself running only on an open connection, or while it clears up after one it has given up |
| `TypeCorrect`, `LossesAreCounted`, `StopLossIsBounded`, `NothingTwice` of `TradePipelineProofs` | the invariants of `TradePipeline_one`, for any number of symbols that share the writer |
| `TypeCorrect`, `NoneForgotten` of `RedisEventBusProofs` | the invariants of the `RedisEventBus` run, for any number of consumers, entries, lost answers and crashes, and whatever is poison |
| `TypeCorrect`, `NothingTwice`, `OnlyStoringEmpties` of `SnapshotPipelineProofs` | the safety properties of the `SnapshotPipeline` run, for any number of symbols |
| `TypeCorrect`, `BudgetKept`, `AlwaysPolite` of `RestClientProofs` | those of the `RestClient` run, for any number of callers and any window, spacing, weight and limits |
| `TypeCorrect`, `ClientsStayBounded`, `AlwaysAccounted` of `MarketDataWriterProofs` | those of the `MarketDataWriter` run, for any number of attempts and clients |
| `TypeCorrect`, `LetsGoInOrder` of `LifespanProofs` | those of the `Lifespan` run, for any number of requests and attempts |

The assumptions are: prices are integers; the depth, the buffer bound, the
capacity of a queue, the batch limit, the size of a read, the number of attempts,
and the window, spacing and weight of the REST client are positive, as are its
cap and its default of a cooldown; limits and what a refusal asks for are natural
numbers; `None` is neither an integer nor a symbol, a consumer, a client or the
end of a call; poison entries are entries of the stream; and the tape and the
REST lists have their types.

**The argument.** That a synchronised book is the exchange's is not inductive:
it depends on the events that wait in the buffer, and on those the book has not
been told of. `IndInv` adds three things.

1. *The buffers are honest* (`BuffersHonest`): each buffered event is the
   difference of the tape between the ids it spans.
2. *What the handler holds is right* (`PendingTopOfBook`): the snapshot computed
   under the lock, whatever happens until it is published.
3. *Which tasks exist when* (`TasksMatchConnection`, `StopIsQuiet`): no
   synchronisation task runs while the connection is closed or being opened, and
   once `stop()` has begun only new tasks at the head of their loop are left.
   This is why `_trigger_resync` may return when a task is alive: on an open
   connection that task will start over.

The central lemma (`ApplyFaithful` in `BookSyncProofs`) is about one event: if a
book is the tape at `lastId`, the event is honest, its last id is greater than
`lastId` and its first at most `lastId + 1`, then the book after it is the tape
at the event's last id, because every slot that changed between the two ids is
mentioned. The loop over the buffered events follows by a least-counterexample
argument over its indices: the library's induction theorems take an operator as
a parameter, which the installed provers cannot instantiate.

`IndInv` is proved in three groups (`BooksOK`, the control part, what the
handler holds), each by one lemma per action that touches it. `EngineHealth`
adds `AlarmsAreTrue` and `FetchTroubleEnds` to it; most of its actions are shown
to be neutral, that is, to set no reason of the two kinds and to synchronise no
book. A second invariant (`ConnInv`) is about the connection: `connected` counts
only on an open connection, during its closing handshake, or while the loop waits
for the tasks it has cancelled, and it waits only if some book is not
synchronised. That book is why a ping finds a reason during the wait, although
the loss itself is reported after it (`market_data/engine.py:240`). During the
handshake there need be no such book, so the stronger `Healthy => Open` fails: it
is enough that the last fetch returns while the connection closes (section 8).

`FeedKept` needs two facts more about `BookSync` (`FeedInv`, also
in `BookSyncProofs`): the snapshot on its way to being published is that of the
book as it still is, later than the one published before, and nothing published
is ahead of the stream. Each step of `BookSync` then shows a book, hides
some, publishes, ends, or leaves all as it is.

In `TradePipelineProofs` one invariant stands for both loss properties
(`LossInv`): the trades lost of a symbol are at most those counted and a slack
that is 0 until the tasks are cancelled, and grows by one trade and twice by a
batch on the way through `stop()`. Each step loses the trades of a set no larger
than the growth of the counters and the slack. That the batch is empty when the
next one is drained (`BatchRests`) is what makes drains lossless. `NothingTwice`
rests on queue, batch and hand being without repetition and disjoint (`Apart`).

In `RedisEventBusProofs` the invariant says in addition what a consumer holds
(`ReaderOK`: while it waits for an alert, the first of its messages is poison)
and that it has settled a message before it acknowledges it (`SettledFirst`).
The other way to forget would be a gap: XREADGROUP returns the first few of the
new entries, so that all entries up to the last one returned are returned too
(`FewProperties`), and XAUTOCLAIM drops only entries that are trimmed.

In `SnapshotPipelineProofs` the snapshots of a symbol in queue and batch are some
of those that were put, each once (`SymbolOK`). As in the trade pipeline the
batch is empty whenever the next one is drained (`BatchRests`), so a drain only
moves snapshots, and `put_latest` adds one although it may evict others
(`PutLatestProperties`): that is why only `stored` can grow when a symbol's
pipeline becomes empty.

In `RestClientProofs` the budget is kept because the limiter forgets nothing that
counts: its log is oldest first, and what is left of it once the expired events
are gone is the log of the requests really sent (`LogsOK`). The lemmas on
`Expired`, `Unexpired` and `Aged` say that the events to expire are the first
ones, and that looking for them before or after time has passed comes to the
same, so that it does not matter when `acquire()` last looked. `Polite` needs the
rest of a sleep to cover what the last answer lacks in age (`SpacedOK`): the
owner of the lock sleeps while others wait, and nobody else is answered
meanwhile.

In `MarketDataWriterProofs` the invariant says which calls there may be in each
phase of the engine (`CallsIn`, `LineOK`), and which threads: one that its call
awaits, or one that a timeout has left behind (`ThreadsOK`). From that follow
the two properties. `CopiesOK` bounds the copies of a batch by the attempts begun,
and an abandoned thread stores for its own call only. `ClientsOK` says, in each
phase and stage, that but for one client at most that of a late schema thread is
open; the one client is what `_client` is when the engine goes on, what the
thread of `close()` took, or none after it. A thread that has not yet created its
client when `start()` gives up is the only source of a second one, which is what
`late` remembers.

In `LifespanProofs` a request is in the line for `ClickHouseClient` exactly while
its ping tries it (`LineOK`), and a dependency is gone exactly if the application
owns it and has passed the call that lets go of it (`StateOK`): the order of the
phases is then the order of `LetGoInOrder`.

**Only model-checked** are the liveness properties, since fairness and ENABLED are
outside the prover's reach: `SyncCompletes` and `StopReturns` of the
synchronisation, `TradesSettle` and `StopReturns` of the trade pipeline,
`SnapshotsSettle`, `LossIsReported`, `MessagesSettle`, `CallersAreServed`,
`CallsEnd`, `EngineGoesOn` and `RequestsAnswered`. For these the bounds of
section 4 are all there is.

## 7. Abstractions

- *Atomicity.* The blocks under a symbol lock contain no await, so the locks are
  never contended and do not appear. An action never spans an await.
- *Events.* A depth event is the pair of ids and, for every slot, the quantity it
  sets or `None`. It mentions at least what changed; that Binance may also repeat
  unchanged levels makes no difference to the book.
- *Loss.* A connection keeps the order of events and may lose any; `recv` may
  raise at any time, which covers read errors, timeouts, `serverShutdown` and
  payloads that cannot be read.
- *Malformed events* (last id before the first) are in the model because
  `apply_update` has a branch for them.
- *REST.* A snapshot is the tape at any id, cut to `Listed`. If replies list
  every level (`DeepRest`) a synchronised book has no missing level; if not,
  it may miss levels until an event mentions them.
- *Time.* Delays, cooldowns and the publication interval are nondeterministic: a
  sleep may end at any time, a snapshot may or may not be due, a symbol that has
  had an event may or may not be stale.
- *Cancellation.* A cancelled task makes no progress; it stays `cancelling` until
  it has unwound. The insert thread of a cancelled writer goes on: whether its
  rows are stored is chosen at the cancellation.
- *Publishing* succeeds or fails in `BookSync` and `EngineHealth`.
- *Redis.* A group delivers to its consumers what Redis 7 documents: `XAUTOCLAIM`
  takes the lowest idle entries and drops those that are trimmed, `XREADGROUP`
  the next ones. Trimming is approximate: it keeps at least `MaxLen` entries. An
  entry is its id and whether its fields are an event (`Poison`) or not even text
  (`Binary`). Consumers are not in the repository yet; the model's handles and
  acknowledges one message after the other. That the alerts are entries of a
  stream themselves is left out.
- *Storing.* `stored` is a set: rows that a retry stores twice are one element.
- *The timeout of a put* may fire although the writer has made room at the same
  time. The branch for a queue that is full again after its head was dropped
  (`market_data/backpressure.py:102-109`) is never reached: no other task puts
  trades.
- *Displayed figures* (counts, latencies, error texts, the state of each symbol)
  are left out of the health.
- *The two halves of the engine.* A trade goes through `OtherReceived`,
  `TradePublished` and `QueueAlerted` in `BookSync` and `EngineHealth`, where any
  trade may find its queue full; the queue itself is in `TradePipeline`, where a
  depth event is no step. The wait of a trade put delays the depth events behind
  it, which in `BookSync` is a step that has not been taken yet. The writers' part
  of `stop()` is in the pipelines; `Stopped` stands for its end.
- *Time in `RestClient`* is discrete, and a sleep takes at least as long as it was
  asked to. All requests have the same weight, as the engine asks for one depth.
  The code reads the wall clock (`market_data/clock.py:7`); one that is set, back
  or forward, is left out: set forward, it lets weights expire early. `sent` is
  stamped when the request is handed to the HTTP client, which may take up to its
  connect timeout to send it. A refusal whose `Retry-After` is `nan` passes the
  parser and raises in `apply_cooldown`; it is `Answered`, an answer without a
  cooldown.
- *Threads.* The steps of a worker thread are the points where it looks at or
  assigns `_client` and where ClickHouse takes the rows. The client that
  `_get_client` opens to create the database is closed by the step that opens
  it. Closing a ClickHouse client is taken not to raise, and a closed one not to
  reach ClickHouse any more, although its HTTP pool could open a connection again:
  the rows of an abandoned thread would then come late, within the bound of
  `InsertsAccounted`. The lock is fair, as `asyncio.Lock` is, and a cancelled owner
  or waiter leaves it; `stop()` cancels all of the line at once, `start()` only its
  own call.
- *The lifespan.* The server calls its second half when no request is in
  progress. A `start()` that raises leaves the engine in use, as the application
  keeps it.
- *One life of the engine.* `start()` is called once, by the lifespan.

## 8. What is not modelled

- Normalisation of trades and prices, configuration, logging: functions of their
  input that keep no state.
- `_task_statuses`, the part of `ping()` that reads it: whether a task has died of
  an exception that nothing in the model raises.
- An engine that is disabled (`enabled` false): it has no tasks, and `ping()`
  answers True (`market_data/engine.py:158-159`).
- The queue lag after a stop, and what the final flush leaves behind
  (`market_data/engine.py:679`, `:683`): the models have these steps, and no
  document says what should be true of them. The same holds of
  `clickhouse_flush_failed`, which a success of one writer clears for both
  (`:532`).
- `src/scripts/`, the containers, and the packages of later phases, which are
  empty.

Observed while modelling, and excluded by no document:

- `_trigger_resync` runs after the alert of a gap. If the symbol's task, still
  alive at the gap, synchronises the book during that alert, it clears
  `orderbook_unsynced`; the book is then emptied by `_trigger_resync`, and until
  the next poll the engine reports no reason for a book that is not
  synchronised. The polls of `_refresh_health_fields` set it again, so
  `/health/ready` does not see the gap.
- During the closing handshake of a connection that the payload loop has given
  up, of up to 5 seconds, `ping()` may still answer True: no reason is set yet,
  `connected` is, and the books may be synchronised and fresh
  (`market_data/engine.py:274`). `HealthyUntilClosed` bounds the time by the
  handshake and `LossIsReported` says that it ends.
- A request of the REST client that gets no answer does not update
  `_last_rest_call_ms` (`market_data/binance_client.py:110-113`), so the next one
  may follow it at once; `Polite` speaks of the last answer.
- A weight above the limit, which the settings allow, is let through when the
  window is empty: one request per window. `WithinBudget` says so.
- For an insert the client is created on the event loop
  (`storage/market_data_writer.py:46-51`), which stands still meanwhile.
- If `start()` gives up on `ensure_schema` while its thread is creating a client,
  one connection more than the writer knows of may stay open; `ClientsBounded`
  counts it.

## 9. Disagreements between the code and what is said of it

- **Trades: the oldest is not always the one dropped** (`TradePipeline_order`).
  `put_trade` drops the head of a full queue with the reason `drop_oldest`
  (`market_data/backpressure.py:100`) by `_drop_oldest_trade`, and
  `src/tests/unit/test_market_data_backpressure.py:55` is named
  `test_trade_queue_drops_oldest_when_full`. After a failed flush
  `requeue_trades` has put the older batch behind trades that came in during the
  insert, so the head is newer than trades that stay.
- **Snapshots: a requeued batch evicts newer ones** (`SnapshotPipeline_order`).
  `requeue_latest_snapshots` puts a failed batch back with `put_latest`, which
  evicts the head of a full queue: snapshots that were put during the insert and
  are newer than those put back.
  `src/tests/unit/test_market_data_backpressure.py:13` is named
  `test_snapshot_queue_drops_oldest_snapshot_only`. These evictions are not
  counted in `dropped_snapshots` either.
- **A poison message that is not text blocks its batch**
  (`RedisEventBus_binary`). The alert of a poison message is built before the
  `try` around its publication (`storage/redis_event_bus.py:213-227`), and
  `_sanitize_fields` decodes the fields as strict UTF-8. If they are not, the
  error leaves `read()`: the message is neither reported nor acknowledged, the
  messages decoded before it are dropped from the hand of the consumer, and the
  same happens whenever the message is claimed again.
  `src/tests/unit/test_redis_event_bus.py:28` is named
  `test_poison_message_is_moved_to_system_alerts`.

A poison message whose alert cannot be published is acknowledged nevertheless
(`storage/redis_event_bus.py:239`); the log tells of the failure, and then says
that the message was moved. `NothingForgotten` counts such a message as told of
by the log.
