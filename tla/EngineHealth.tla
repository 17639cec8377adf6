---------------------------- MODULE EngineHealth ----------------------------
(***************************************************************************)
(* The health that MarketDataEngine reports, _degraded_reasons and status  *)
(* (src/src/market_data/engine.py), on top of BookSync: each action of the *)
(* websocket task, of the synchronisation tasks and of stop() together     *)
(* with the reasons it sets and clears, the polls of /health and /ready,   *)
(* and what the trade handler and the writers do to the same reasons.      *)
(*                                                                         *)
(* The reasons are shared: whoever succeeds clears what anybody has set.   *)
(***************************************************************************)
EXTENDS BookSync

CONSTANT Writers   \* the writer tasks that share the reasons: two in the engine

VARIABLES
    reasons,     \* _degraded_reasons
    status,      \* _health.status
    connected,   \* _health.connected
    heard,       \* the symbols with a last_event_received_ts
    failing      \* the writers that publish the alert of a failed flush

health == <<reasons, status, connected, heard, failing>>
hvars == <<vars, health>>

Statuses == {"starting", "running", "degraded", "stopping", "stopped"}

Unsynced(s) == <<"orderbook_unsynced", s>>
Stale(s) == <<"stale_market_data", s>>
Engine(reason) == <<reason, "engine">>

Disconnected == Engine("websocket_disconnected")
FetchRefused == {Engine("binance_rate_limited"), Engine("binance_ip_banned")}
FetchBroken == Engine("orderbook_snapshot_fetch_failed")
PublishFailed == Engine("redis_publish_failed")
AlertFailed == Engine("alert_publish_failed")
SchemaUnavailable == Engine("clickhouse_schema_unavailable")
FlushBroken == Engine("clickhouse_flush_failed")
ShutdownBroken == Engine("shutdown_flush_failed")

Reasons ==
    {Unsynced(s) : s \in Symbols} \cup {Stale(s) : s \in Symbols} \cup FetchRefused \cup
    {Disconnected, FetchBroken, PublishFailed, AlertFailed, SchemaUnavailable, FlushBroken,
     ShutdownBroken}

\* _refresh_engine_status: a stopping engine keeps its status, and so does
\* one that is neither degraded nor connected.
StatusWith(r, c) ==
    IF status \in {"stopping", "stopped"} THEN status
    ELSE IF r # {} THEN "degraded"
    ELSE IF c THEN "running" ELSE status

\* _set_degraded and _clear_degraded_reason, any number of them.
SetReasons(r) == reasons' = r /\ status' = StatusWith(r, connected) /\ UNCHANGED connected

\* _safe_publish_market_event and _safe_publish_alert, once the bus answered.
MarketEventDone ==
    \/ SetReasons(reasons \ {PublishFailed, AlertFailed})
    \/ SetReasons(reasons \cup {PublishFailed})
AlertDone ==
    \/ SetReasons(reasons \ {PublishFailed, AlertFailed})
    \/ SetReasons(reasons \cup {AlertFailed})

\* start(): the schema of ClickHouse is there, or it is not.
HealthInit ==
    /\ Init
    /\ reasons \in {{}, {SchemaUnavailable}}
    /\ status = IF reasons = {} THEN "starting" ELSE "degraded"
    /\ connected = FALSE
    /\ heard = {}
    /\ failing = {}

-----------------------------------------------------------------------------
(* The websocket task. *)

ConnectedHealth ==
    /\ Connected
    /\ connected' = TRUE
    /\ reasons' = reasons \ {Disconnected}
    /\ status' = StatusWith(reasons', TRUE)
    /\ UNCHANGED <<heard, failing>>

\* A slip of ReportDisconnect: the other reasons go with the connection.
ReportDisconnectOnly ==
    /\ reasons' = {Disconnected}
    /\ status' = StatusWith(reasons', connected)
    /\ connected' = FALSE
    /\ UNCHANGED <<heard, failing>>

\* A slip of ReportDisconnect: the engine goes on to count as connected.
ReportDisconnectStays ==
    /\ SetReasons(reasons \cup {Disconnected})
    /\ UNCHANGED <<heard, failing>>

\* What the loop reports once the synchronisation tasks are gone: the reason
\* is set while the engine still counts as connected.
ReportDisconnect ==
    /\ reasons' = reasons \cup {Disconnected}
    /\ status' = StatusWith(reasons', connected)
    /\ connected' = FALSE
    /\ UNCHANGED <<heard, failing>>

\* A slip of DisconnectHealth: a loss found with no task alive goes unreported.
DisconnectUnreported == Disconnect /\ UNCHANGED health

DisconnectHealth ==
    /\ Disconnect
    /\ IF ws'.pc = "reconnect_alert" THEN ReportDisconnect ELSE UNCHANGED health

WsTasksCancelledHealth == WsTasksCancelled /\ ReportDisconnect

DepthHealth(s) ==
    /\ DepthReceived(s) \/ MalformedReceived(s)
    /\ heard' = heard \cup {s}
    /\ IF ws'.pc = "gap_alert"
       THEN SetReasons(reasons \cup {Unsynced(s)})
       ELSE UNCHANGED <<reasons, status, connected>>
    /\ UNCHANGED failing

\* A trade is an event of its symbol, like a depth event.
OtherHealth ==
    /\ OtherReceived
    /\ IF ws'.pc = "trade" THEN \E s \in Symbols : heard' = heard \cup {s} ELSE UNCHANGED heard
    /\ UNCHANGED <<reasons, status, connected, failing>>

PublishedHealth ==
    /\ TradePublished \/ SnapshotPublished
    /\ MarketEventDone
    /\ UNCHANGED <<heard, failing>>

AlertedHealth ==
    /\ ReconnectAlerted \/ QueueAlerted \/ TriggerResync
    /\ AlertDone
    /\ UNCHANGED <<heard, failing>>

-----------------------------------------------------------------------------
(* The synchronisation tasks. *)

\* Slips of SnapshotFetchedHealth: the synchronised book does not clear its
\* own reason, or not that of the failed fetches.
SnapshotFetchedLeavesAlarm(s) ==
    /\ \E id \in Ids : SnapshotFetched(s, id)
    /\ SetReasons(reasons \ (FetchRefused \cup {FetchBroken}))
    /\ UNCHANGED <<heard, failing>>
SnapshotFetchedLeavesTrouble(s) ==
    /\ \E id \in Ids : SnapshotFetched(s, id)
    /\ SetReasons(reasons \ (FetchRefused \cup {Unsynced(s)}))
    /\ UNCHANGED <<heard, failing>>

\* A fetch that returns clears the refusals, even if it is too old; the book
\* it synchronises clears the failed fetches of all.
SnapshotFetchedHealth(s) ==
    /\ \E id \in Ids : SnapshotFetched(s, id)
    /\ LET open == reasons \ FetchRefused
       IN  \/ tasks'[s].pc \in {"top", "fetch"} /\ SetReasons(open)
           \/ tasks'[s].pc = "idle" /\ SetReasons(open \ {FetchBroken, Unsynced(s)})
           \/ tasks'[s].pc = "sync_alert" /\ SetReasons(open \cup {Unsynced(s)})
    /\ UNCHANGED <<heard, failing>>

\* A slip of FetchFailedHealth: a reason that nothing clears.
FetchFailedUnnamed(s) ==
    /\ FetchFailed(s)
    /\ SetReasons(reasons \cup {Engine("fetch_failed")})
    /\ UNCHANGED <<heard, failing>>

FetchFailedHealth(s) ==
    /\ FetchFailed(s)
    /\ \E r \in FetchRefused \cup {FetchBroken} : SetReasons(reasons \cup {r})
    /\ UNCHANGED <<heard, failing>>

SyncAlertedHealth(s) ==
    /\ FetchAlerted(s) \/ SyncAlerted(s)
    /\ AlertDone
    /\ UNCHANGED <<heard, failing>>

-----------------------------------------------------------------------------
(* stop(), the writers and the polls. *)

StopCalledHealth ==
    /\ StopCalled
    /\ status' = "stopping"
    /\ UNCHANGED <<reasons, connected, heard, failing>>

\* The writers are gone, and the final flush had nothing to store, stored
\* all, or failed after it stored the trades or before.
StoppedHealth ==
    /\ Stopped
    /\ \E flushed \in {reasons, reasons \ {SchemaUnavailable, FlushBroken}} :
         reasons' \in {flushed, flushed \cup {ShutdownBroken}}
    /\ connected' = FALSE
    /\ status' = "stopped"
    /\ failing' = {}
    /\ UNCHANGED heard

\* _writer_loop: a writer stores a batch, or fails to and publishes an alert.
WriterFlushed(w) ==
    /\ stop # "stopped" /\ w \notin failing
    /\ SetReasons(reasons \ {SchemaUnavailable, FlushBroken})
    /\ UNCHANGED <<vars, heard, failing>>

WriterFailed(w) ==
    /\ stop # "stopped" /\ w \notin failing
    /\ SetReasons(reasons \cup {FlushBroken})
    /\ failing' = failing \cup {w}
    /\ UNCHANGED <<vars, heard>>

WriterAlerted(w) ==
    /\ w \in failing
    /\ AlertDone
    /\ failing' = failing \ {w}
    /\ UNCHANGED <<vars, heard>>

\* _refresh_health_fields, for a call of /health or /ready; which of the
\* symbols that have had an event are stale is a matter of time.
HealthPoll ==
    /\ \E old \in SUBSET heard :
         LET lifted == {Stale(s) : s \in Symbols} \cup {Unsynced(s) : s \in {x \in Symbols : Synced(x)}}
             found == {Stale(s) : s \in old}
                        \cup {Unsynced(s) : s \in {x \in Symbols : connected /\ ~Synced(x)}}
         IN  SetReasons((reasons \ lifted) \cup found)
    /\ UNCHANGED <<vars, heard, failing>>

\* The steps that touch no health.
QuietStep ==
    /\ \/ WsLoopTop \/ RecvFailed \/ WsUnwound \/ StopTasksCancelled \/ StaysStopped
       \/ \E s \in Symbols : SyncTop(s) \/ TaskUnwound(s)
    /\ UNCHANGED health

HealthNext ==
    \/ ConnectedHealth \/ DisconnectHealth \/ WsTasksCancelledHealth
    \/ OtherHealth \/ PublishedHealth \/ AlertedHealth
    \/ \E s \in Symbols :
         DepthHealth(s) \/ SnapshotFetchedHealth(s) \/ FetchFailedHealth(s) \/ SyncAlertedHealth(s)
    \/ \E w \in Writers : WriterFlushed(w) \/ WriterFailed(w) \/ WriterAlerted(w)
    \/ StopCalledHealth \/ StoppedHealth \/ HealthPoll \/ QuietStep

HealthSpec == HealthInit /\ [][HealthNext]_hvars

\* What the websocket task and stop() have left to do once a connection is
\* given up: the closing handshake has a timeout, and cancelled tasks unwind.
ClearsUp ==
    \/ ws.pc = "closing" /\ DisconnectHealth
    \/ WsTasksCancelledHealth
    \/ WsUnwound /\ UNCHANGED health
StopGoesOn == StoppedHealth \/ (StopTasksCancelled /\ UNCHANGED health)

HealthFairness ==
    /\ WF_hvars(ClearsUp) /\ WF_hvars(StopGoesOn)
    /\ \A s \in Symbols : WF_hvars(TaskUnwound(s) /\ UNCHANGED health)

HealthLiveSpec == HealthSpec /\ HealthFairness
-----------------------------------------------------------------------------
HealthTypeOK ==
    /\ reasons \subseteq Reasons
    /\ status \in Statuses
    /\ connected \in BOOLEAN
    /\ heard \subseteq Symbols
    /\ failing \subseteq Writers

\* No false alarm: a symbol is not reported as unsynchronised while its book
\* is synchronised, whichever of the depth handler, the synchronisation task
\* and the polls set or cleared the reason last.
AlarmsAreTrue == \A s \in Symbols : Unsynced(s) \in reasons => ~Synced(s)

\* No lost alarm: once reported, a symbol stays reported until its book is
\* synchronised again, across resynchronisations and reconnections.
AlarmsStand ==
    [][\A s \in Symbols : Unsynced(s) \in reasons /\ Unsynced(s) \notin reasons' => Synced(s)']_hvars

\* A refused or failed fetch is not reported for ever: with every book
\* synchronised no such reason is left, although any symbol's task may clear
\* what the task of another has set.
FetchTroubleEnds ==
    (\A s \in Symbols : Synced(s)) => reasons \cap (FetchRefused \cup {FetchBroken}) = {}

\* The payload loop has given the connection up, and the loss is not
\* reported yet: its handshake goes on, or the tasks are waited for.
GivenUp == ws.pc \in {"closing", "cancel_wait"}

\* The engine calls itself running only with an open connection, or with one
\* whose loss it is still clearing up, and with nothing to report.
RunningIsConnected ==
    status = "running" => connected /\ reasons = {} /\ (Open \/ GivenUp)

\* What ping() returns, once it has refreshed the fields.
Healthy ==
    /\ status = "running" /\ connected /\ reasons = {}
    /\ ws.pc # "done"
    /\ \A s \in Symbols : Synced(s) /\ s \in heard

\* ping() answers TRUE only with the connection open or in its closing
\* handshake.  A lost connection is reported after the handshake and after
\* the synchronisation tasks have been waited for, and until then status and
\* connected are what they were: during the handshake ping() may still
\* answer TRUE, during the wait it is the books that make it answer FALSE.
HealthyUntilClosed == Healthy => Open \/ ws.pc = "closing"

\* A connection that was given up does not count as connected for ever,
\* whether the loop reports the loss or stop() comes in between.
LossIsReported == GivenUp ~> ~connected
=============================================================================
