------------------------- MODULE EngineHealthProofs -------------------------
(***************************************************************************)
(* Proofs about the reported health.  Every step of EngineHealth is a step *)
(* of BookSync or leaves its variables alone, so IndInv of BookSync holds; *)
(* with it, only four kinds of steps matter to the alarms: a gap, the end  *)
(* of a fetch, a failed fetch and a poll.  The others are neutral.         *)
(***************************************************************************)
EXTENDS EngineHealth, BookSyncProofs

Trouble == FetchRefused \cup {FetchBroken}

\* A step of the health is a step of the books and tasks, or none of theirs.
LEMMA HealthStep == [HealthNext]_hvars => [Next]_vars
BY DEF HealthNext, hvars, vars, Next, WebsocketTask, StopTask, SyncTask, ConnectedHealth,
   DisconnectHealth, WsTasksCancelledHealth, OtherHealth, PublishedHealth, AlertedHealth,
   DepthHealth, SnapshotFetchedHealth, FetchFailedHealth, SyncAlertedHealth, WriterFlushed,
   WriterFailed, WriterAlerted, StopCalledHealth, StoppedHealth, HealthPoll, QuietStep

\* Reporting health changes nothing of how the books are kept: every
\* behaviour of EngineHealth is one of BookSync, whose theorems carry over.
THEOREM HealthImplementsSync == HealthSpec => Spec
<1>1. HealthInit => Init
  BY DEF HealthInit
<1> QED BY <1>1, HealthStep, PTL DEF HealthSpec, Spec

\* A step after which the alarms of the symbols are as they were, no fetch
\* trouble is new and no book is newly synchronised.
Neutral ==
    /\ \A s \in Symbols : Synced(s)' => Synced(s)
    /\ \A s \in Symbols : Unsynced(s) \in reasons' <=> Unsynced(s) \in reasons
    /\ reasons' \cap Trouble \subseteq reasons

HealthInv == AlarmsAreTrue /\ FetchTroubleEnds

\* What each step has to show.
AlarmStands == \A s \in Symbols : Unsynced(s) \in reasons /\ Unsynced(s) \notin reasons' => Synced(s)'

Preserved == HealthInv' /\ AlarmStands

\* A neutral step preserves what is to be shown.
LEMMA NeutralPreserves == HealthInv /\ Neutral => Preserved
BY DEF HealthInv, Neutral, Preserved, AlarmStands, AlarmsAreTrue, FetchTroubleEnds, Trouble

\* The outcomes of a publication and of an alert touch neither the alarms
\* nor the fetch trouble.
LEMMA PublicationsAreNeutral ==
  ASSUME MarketEventDone \/ AlertDone, \A s \in Symbols : Synced(s)' => Synced(s)
  PROVE  Neutral
BY DEF MarketEventDone, AlertDone, SetReasons, Neutral, Trouble, Unsynced, FetchRefused,
   FetchBroken, PublishFailed, AlertFailed, Engine

\* No action of the websocket task synchronises a book that was not.
LEMMA WebsocketSynchronisesNone ==
  ASSUME IndInv, \/ Connected \/ RecvFailed \/ Disconnect \/ WsTasksCancelled
                 \/ OtherReceived \/ TradePublished \/ SnapshotPublished \/ QueueAlerted
                 \/ ReconnectAlerted \/ TriggerResync \/ WsLoopTop \/ WsUnwound
  PROVE  \A s \in Symbols : Synced(s)' => Synced(s)
<1>1. books \in [Symbols -> Book]
  BY DEF IndInv, TypeOK
<1>2. CASE UNCHANGED books
  BY <1>2 DEF Synced
<1>3. CASE WsLoopTop
  BY <1>3 DEF WsLoopTop, Synced, StartBuffering, Cleared
<1>4. CASE TriggerResync
  BY <1>1, <1>4 DEF TriggerResync, Synced, StartBuffering, Cleared
<1> QED BY <1>2, <1>3, <1>4 DEF Connected, RecvFailed, Disconnect, WsTasksCancelled,
         OtherReceived, TradePublished, SnapshotPublished, QueueAlerted, ReconnectAlerted, WsUnwound

\* The steps that touch reasons of the connection, the publications and the
\* writers only.
LEMMA NeutralSteps ==
  ASSUME IndInv,
         \/ ConnectedHealth \/ DisconnectHealth \/ WsTasksCancelledHealth
         \/ OtherHealth \/ PublishedHealth \/ AlertedHealth
         \/ \E w \in Writers : WriterFlushed(w) \/ WriterFailed(w) \/ WriterAlerted(w)
         \/ StopCalledHealth \/ StoppedHealth
  PROVE  Neutral
<1>1. CASE ConnectedHealth
  BY <1>1, WebsocketSynchronisesNone DEF ConnectedHealth, Neutral, Unsynced, Disconnected, Engine
<1>2. CASE DisconnectHealth
  BY <1>2, WebsocketSynchronisesNone DEF DisconnectHealth, ReportDisconnect, health, Neutral,
     Unsynced, Disconnected, Engine, Trouble, FetchRefused, FetchBroken
<1>3. CASE WsTasksCancelledHealth
  BY <1>3, WebsocketSynchronisesNone DEF WsTasksCancelledHealth, ReportDisconnect, Neutral,
     Unsynced, Disconnected, Engine, Trouble, FetchRefused, FetchBroken
<1>4. CASE OtherHealth
  BY <1>4, WebsocketSynchronisesNone DEF OtherHealth, Neutral
<1>5. CASE PublishedHealth \/ AlertedHealth
  BY <1>5, WebsocketSynchronisesNone, PublicationsAreNeutral DEF PublishedHealth, AlertedHealth
<1>6. ASSUME NEW w \in Writers, WriterFlushed(w) \/ WriterFailed(w) \/ WriterAlerted(w)
      PROVE  Neutral
  <2>1. \A s \in Symbols : Synced(s)' => Synced(s)
    BY <1>6 DEF WriterFlushed, WriterFailed, WriterAlerted, vars, Synced
  <2>2. CASE WriterAlerted(w)
    BY <2>1, <2>2, PublicationsAreNeutral DEF WriterAlerted
  <2>3. CASE WriterFlushed(w) \/ WriterFailed(w)
    BY <2>1, <2>3 DEF WriterFlushed, WriterFailed, SetReasons, Neutral, Unsynced, Engine, Trouble,
       FetchRefused, FetchBroken, SchemaUnavailable, FlushBroken
  <2> QED BY <1>6, <2>2, <2>3
<1>7. CASE StopCalledHealth
  BY <1>7 DEF StopCalledHealth, StopCalled, Synced, Neutral
<1>8. CASE StoppedHealth
  <2>1. \A s \in Symbols : Synced(s)' => Synced(s)
    BY <1>8 DEF StoppedHealth, Stopped, Synced
  <2> QED BY <1>8, <2>1 DEF StoppedHealth, Neutral, Unsynced, Engine, Trouble, FetchRefused,
         FetchBroken, SchemaUnavailable, FlushBroken, ShutdownBroken
<1> QED BY <1>1, <1>2, <1>3, <1>4, <1>5, <1>6, <1>7, <1>8

\* A depth event sets an alarm only with a book that it has thrown away.
LEMMA DepthPreserves ==
  ASSUME IndInv, HealthInv, NEW s \in Symbols, DepthHealth(s)
  PROVE  Preserved
<1>1. BooksOK(books) /\ HandedInv
  BY IndInvParts
<1>2. PICK u \in DepthUpdate : (Malformed(u) \/ HonestEvent(s, u)) /\ HandleDepth(s, u)
  <2>1. seen[s] \in Nat
    BY <1>1, MaxIdAssumption DEF HandedInv, Ids
  <2>2. CASE DepthReceived(s)
    <3>1. PICK first \in (seen[s] + 1)..MaxId, final \in (seen[s] + 1)..MaxId :
             first <= final /\ HandleDepth(s, DepthEvent(s, first, final))
      BY <2>2 DEF DepthReceived
    <3>2. first \in Nat \ {0} /\ final \in Ids
      BY <2>1, MaxIdAssumption DEF Ids
    <3> QED BY <3>1, <3>2, EventHonest
  <2>3. CASE MalformedReceived(s)
    <3>1. PICK final \in (seen[s] + 1)..MaxId :
             HandleDepth(s, [DepthEvent(s, final, final) EXCEPT !.first = final + 1])
      BY <2>3 DEF MalformedReceived
    <3>2. final >= 1 /\ final \in Ids
      BY <2>1, MaxIdAssumption DEF Ids
    <3> QED BY <3>1, <3>2, MalformedEvent
  <2> QED BY <2>2, <2>3 DEF DepthHealth
<1> DEFINE out == ApplyUpdate(books[s], u)
<1>3. /\ out.result \in Failures => out.book.sync # "synced"
      /\ out.result \notin Failures => (out.book.sync = "synced" <=> books[s].sync = "synced")
  BY <1>1, <1>2, DepthOutcome DEF BooksOK
<1>4. /\ books' = [books EXCEPT ![s] = out.book]
      /\ ws'.pc = "gap_alert" => out.result \in Failures
  BY <1>2 DEF HandleDepth, NextPayload, Ws, Failures
<1> HIDE DEF out
<1>5. \A x \in Symbols : Synced(x)' => Synced(x)
  BY <1>1, <1>3, <1>4 DEF Synced, BooksOK
<1>6. CASE ws'.pc = "gap_alert"
  <2>1. ~Synced(s)'
    BY <1>1, <1>3, <1>4, <1>6 DEF Synced, BooksOK
  <2>2. reasons' = reasons \cup {Unsynced(s)}
    BY <1>6 DEF DepthHealth, SetReasons
  <2>3. \A x \in Symbols : Unsynced(x) = Unsynced(s) => x = s
    BY DEF Unsynced
  <2> QED BY <1>5, <2>1, <2>2, <2>3 DEF Preserved, HealthInv, AlarmStands, AlarmsAreTrue, FetchTroubleEnds
<1>7. CASE ws'.pc # "gap_alert"
  <2>1. Neutral
    BY <1>5, <1>7 DEF DepthHealth, Neutral
  <2> QED BY <2>1, NeutralPreserves
<1> QED BY <1>6, <1>7

\* The end of a fetch: it is the task of s that synchronises the book of s,
\* and it clears the alarm and all fetch trouble in the same step.
LEMMA FetchedPreserves ==
  ASSUME IndInv, HealthInv, NEW s \in Symbols, SnapshotFetchedHealth(s)
  PROVE  Preserved
<1>1. BooksOK(books) /\ ControlInv
  BY IndInvParts
<1>2. PICK id \in Ids : SnapshotFetched(s, id)
  BY DEF SnapshotFetchedHealth
<1>3. tasks[s].pc = "fetch" /\ ~Synced(s) /\ ~Stopping /\ BookOK(s, books[s])
  BY <1>1, <1>2 DEF SnapshotFetched, ControlInv, NoResyncOfSyncedBook, Running, StopIsQuiet, BooksOK
<1>4. /\ tasks \in [Symbols -> [pc : TaskPcs, first : Nat \cup {None}]]
      /\ books \in [Symbols -> Book]
  BY <1>1 DEF ControlInv, BooksOK
<1>5. \A x \in Symbols : x # s => books'[x] = books[x]
  BY <1>2, <1>4 DEF SnapshotFetched, SyncLoop, Synchronise
<1>6. Synced(s)' <=> tasks'[s].pc = "idle"
  <2>1. CASE id < CurrentFirst(s)
    BY <1>2, <1>3, <1>4, <2>1 DEF SnapshotFetched, SyncLoop, Synced, Task, Book
  <2>2. CASE ~(id < CurrentFirst(s))
    <3> DEFINE out == InitializeFromSnapshot(books[s], RestSnapshot(s, id))
    <3>1. out.result = "applied" <=> out.book.sync = "synced"
      BY <1>3, InitializeFaithful DEF BookOK, Synced
    <3>2. /\ books' = [books EXCEPT ![s] = out.book]
          /\ tasks' = [tasks EXCEPT ![s] = Task(IF out.result = "applied" THEN "idle"
                                                ELSE "sync_alert", None)]
      BY <1>2, <2>2 DEF SnapshotFetched, Synchronise
    <3> HIDE DEF out
    <3> QED BY <1>4, <3>1, <3>2 DEF Synced, Task
  <2> QED BY <2>1, <2>2
<1>7. \A x \in Symbols : Unsynced(x) = Unsynced(s) => x = s
  BY DEF Unsynced
<1>8. \A x \in Symbols : Unsynced(x) \notin Trouble
  BY DEF Unsynced, Trouble, FetchRefused, FetchBroken, Engine
<1>9. CASE tasks'[s].pc \in {"top", "fetch"} /\ SetReasons(reasons \ FetchRefused)
  <2>1. Neutral
    BY <1>3, <1>5, <1>6, <1>8, <1>9 DEF SetReasons, Neutral, Synced, Trouble
  <2> QED BY <2>1, NeutralPreserves
<1>10. CASE tasks'[s].pc = "idle"
              /\ SetReasons((reasons \ FetchRefused) \ {FetchBroken, Unsynced(s)})
  <2>1. reasons' = reasons \ (Trouble \cup {Unsynced(s)})
    BY <1>10 DEF SetReasons, Trouble
  <2>2. AlarmsAreTrue'
    BY <1>5, <2>1 DEF HealthInv, AlarmsAreTrue, Synced
  <2>3. FetchTroubleEnds'
    BY <2>1 DEF FetchTroubleEnds, Trouble
  <2>4. ASSUME NEW x \in Symbols, Unsynced(x) \in reasons, Unsynced(x) \notin reasons'
        PROVE  Synced(x)'
    <3>1. x = s
      BY <1>7, <1>8, <2>1, <2>4
    <3> QED BY <1>6, <1>10, <3>1
  <2>5. AlarmStands
    BY <2>4 DEF AlarmStands
  <2> QED BY <2>2, <2>3, <2>5 DEF Preserved, HealthInv
<1>11. CASE tasks'[s].pc = "sync_alert" /\ SetReasons((reasons \ FetchRefused) \cup {Unsynced(s)})
  <2>1. reasons' = (reasons \ FetchRefused) \cup {Unsynced(s)} /\ ~Synced(s)'
    BY <1>6, <1>11 DEF SetReasons
  <2>2. AlarmsAreTrue'
    BY <1>5, <1>7, <2>1 DEF HealthInv, AlarmsAreTrue, Synced
  <2>3. FetchTroubleEnds'
    BY <2>1 DEF FetchTroubleEnds
  <2>4. \A x \in Symbols : Unsynced(x) \in reasons => Unsynced(x) \in reasons'
    BY <1>8, <2>1 DEF Trouble
  <2>5. AlarmStands
    BY <2>4 DEF AlarmStands
  <2> QED BY <2>2, <2>3, <2>5 DEF Preserved, HealthInv
<1> QED BY <1>9, <1>10, <1>11 DEF SnapshotFetchedHealth

\* A fetch fails only for a book that is not synchronised.
LEMMA FetchFailedHealthPreserves ==
  ASSUME IndInv, HealthInv, NEW s \in Symbols, FetchFailedHealth(s)
  PROVE  Preserved
<1>1. ~Synced(s) /\ UNCHANGED books
  BY DEF FetchFailedHealth, FetchFailed, IndInv, NoResyncOfSyncedBook, Running
<1>2. PICK r \in Trouble : reasons' = reasons \cup {r}
  BY DEF FetchFailedHealth, SetReasons, Trouble
<1>3. \A x \in Symbols : Unsynced(x) \notin Trouble
  BY DEF Unsynced, Trouble, FetchRefused, FetchBroken, Engine
<1> QED BY <1>1, <1>2, <1>3 DEF Preserved, HealthInv, AlarmStands, AlarmsAreTrue, FetchTroubleEnds, Synced

\* A poll sets the alarm of books that are not synchronised and lifts that
\* of books that are.
LEMMA PollPreserves == IndInv /\ HealthInv /\ HealthPoll => Preserved
<1> SUFFICES ASSUME HealthInv, HealthPoll PROVE Preserved
  OBVIOUS
<1>1. PICK old \in SUBSET heard :
         reasons' = (reasons \ ({Stale(s) : s \in Symbols} \cup
                                {Unsynced(s) : s \in {x \in Symbols : Synced(x)}}))
                      \cup {Stale(s) : s \in old}
                      \cup {Unsynced(s) : s \in {x \in Symbols : connected /\ ~Synced(x)}}
  BY DEF HealthPoll, SetReasons
<1>2. \A x \in Symbols : Synced(x)' <=> Synced(x)
  BY DEF HealthPoll, vars, Synced
<1>3. \A x \in Symbols : /\ \A y : Unsynced(x) # Stale(y)
                         /\ \A y \in Symbols : Unsynced(x) = Unsynced(y) => x = y
  BY DEF Unsynced, Stale
<1>4. \A x : Unsynced(x) \notin Trouble /\ Stale(x) \notin Trouble
  BY DEF Unsynced, Stale, Trouble, FetchRefused, FetchBroken, Engine
<1>5. \A x \in Symbols :
         Unsynced(x) \in reasons' <=> \/ Unsynced(x) \in reasons /\ ~Synced(x)
                                      \/ connected /\ ~Synced(x)
  BY <1>1, <1>3
<1>6. reasons' \cap Trouble \subseteq reasons
  BY <1>1, <1>4
<1> QED BY <1>2, <1>5, <1>6 DEF Preserved, HealthInv, AlarmStands, AlarmsAreTrue, FetchTroubleEnds, Trouble

\* The alert of a failed or unconnected fetch, and the steps of no report.
LEMMA SilentPreserves ==
  ASSUME IndInv, HealthInv, QuietStep \/ \E s \in Symbols : SyncAlertedHealth(s)
  PROVE  Preserved
<1>1. \A s \in Symbols : Synced(s)' => Synced(s)
  <2>1. books \in [Symbols -> Book]
    BY DEF IndInv, TypeOK
  <2>2. CASE WsLoopTop \/ RecvFailed \/ WsUnwound
    BY <2>2, WebsocketSynchronisesNone
  <2>3. ASSUME NEW s \in Symbols, SyncTop(s) \/ SyncAlerted(s)
        PROVE  \A x \in Symbols : Synced(x)' => Synced(x)
    <3>1. PICK b : /\ SyncLoop(s, b)
                   /\ b = books[s] \/ b = StartBuffering("buffering", "unknown")
      BY <2>3 DEF SyncTop, SyncAlerted
    <3>2. b \in Book /\ (b.sync = "synced" => Synced(s))
      BY <2>1, <3>1, BufferingBook DEF Synced, SyncStates, Integrities
    <3>3. /\ \A x \in Symbols : x # s => books'[x] = books[x]
          /\ books'[s].sync = "synced" => b.sync = "synced"
      BY <2>1, <3>1, <3>2 DEF SyncLoop, Book
    <3> QED BY <3>2, <3>3 DEF Synced
  <2>4. CASE UNCHANGED books
    BY <2>4 DEF Synced
  <2> QED BY <2>2, <2>3, <2>4 DEF QuietStep, SyncAlertedHealth, StopTasksCancelled, StaysStopped,
           TaskUnwound, FetchAlerted, vars
<1>2. CASE QuietStep
  BY <1>1, <1>2, NeutralPreserves DEF QuietStep, health, Neutral
<1>3. ASSUME NEW s \in Symbols, SyncAlertedHealth(s) PROVE Preserved
  BY <1>1, <1>3, PublicationsAreNeutral, NeutralPreserves DEF SyncAlertedHealth
<1> QED BY <1>2, <1>3

-----------------------------------------------------------------------------
\* Every step of the health preserves what is to be shown.
LEMMA HealthNextInv == IndInv /\ HealthInv /\ [HealthNext]_hvars => Preserved
<1> SUFFICES ASSUME IndInv, HealthInv, [HealthNext]_hvars PROVE Preserved
  OBVIOUS
<1>1. CASE \/ ConnectedHealth \/ DisconnectHealth \/ WsTasksCancelledHealth
           \/ OtherHealth \/ PublishedHealth \/ AlertedHealth
           \/ \E w \in Writers : WriterFlushed(w) \/ WriterFailed(w) \/ WriterAlerted(w)
           \/ StopCalledHealth \/ StoppedHealth
  BY <1>1, NeutralSteps, NeutralPreserves
<1>2. ASSUME NEW s \in Symbols, DepthHealth(s) PROVE Preserved
  BY <1>2, DepthPreserves
<1>3. ASSUME NEW s \in Symbols, SnapshotFetchedHealth(s) PROVE Preserved
  BY <1>3, FetchedPreserves
<1>4. ASSUME NEW s \in Symbols, FetchFailedHealth(s) PROVE Preserved
  BY <1>4, FetchFailedHealthPreserves
<1>5. CASE HealthPoll
  BY <1>5, PollPreserves
<1>6. CASE QuietStep \/ \E s \in Symbols : SyncAlertedHealth(s)
  BY <1>6, SilentPreserves
<1>7. CASE UNCHANGED hvars
  <2>1. Neutral
    BY <1>7 DEF hvars, vars, health, Neutral, Synced
  <2> QED BY <2>1, NeutralPreserves
<1> QED BY <1>1, <1>2, <1>3, <1>4, <1>5, <1>6, <1>7 DEF HealthNext

\* At the start nothing of the kind is reported.
LEMMA HealthInitInv == HealthInit => HealthInv
BY DEF HealthInit, HealthInv, AlarmsAreTrue, FetchTroubleEnds, Unsynced, FetchRefused, FetchBroken,
   SchemaUnavailable, Engine

\* Both hold in every state, for every number of symbols and every tape.
THEOREM HealthInvariance == HealthSpec => []HealthInv
<1>1. HealthInv /\ IndInv /\ [HealthNext]_hvars => HealthInv'
  BY HealthNextInv DEF Preserved
<1> QED BY <1>1, HealthInitInv, HealthImplementsSync, Invariance, PTL DEF HealthSpec

\* No false alarm: a synchronised book is not reported as unsynchronised.
THEOREM AlarmsTrue == HealthSpec => []AlarmsAreTrue
<1>1. HealthInv => AlarmsAreTrue
  BY DEF HealthInv
<1> QED BY <1>1, HealthInvariance, PTL

\* No refused or failed fetch is reported once every book is synchronised.
THEOREM TroubleEnds == HealthSpec => []FetchTroubleEnds
<1>1. HealthInv => FetchTroubleEnds
  BY DEF HealthInv
<1> QED BY <1>1, HealthInvariance, PTL

\* No lost alarm: it stands until the book is synchronised.
THEOREM NoAlarmLost == HealthSpec => AlarmsStand
<1>1. HealthInv /\ IndInv /\ [HealthNext]_hvars =>
        [\A s \in Symbols : Unsynced(s) \in reasons /\ Unsynced(s) \notin reasons' => Synced(s)']_hvars
  BY HealthNextInv DEF Preserved, AlarmStands
<1> QED BY <1>1, HealthInvariance, HealthImplementsSync, Invariance, PTL DEF HealthSpec, AlarmsStand

-----------------------------------------------------------------------------
(* What the status says of the connection.                                 *)

\* The status is that of stop(), or it is up to date with the reasons; the
\* engine counts as connected until the loop has cleared up, and while the
\* loop waits for a task there is a book that is not synchronised.
ConnInv ==
    /\ Stopping => status \in {"stopping", "stopped"}
    /\ status = "running" => connected /\ reasons = {}
    /\ connected /\ ~Stopping => Open \/ GivenUp
    /\ ws.pc = "cancel_wait" /\ ~Stopping => \E s \in Symbols : ~Synced(s)

LEMMA ConnInit == HealthInit => HealthTypeOK /\ ConnInv
<1> SUFFICES ASSUME HealthInit PROVE HealthTypeOK /\ ConnInv
  OBVIOUS
<1>1. reasons \subseteq Reasons
  <2>1. SchemaUnavailable \in Reasons
    BY DEF Reasons
  <2>2. reasons = {} \/ reasons = {SchemaUnavailable}
    BY DEF HealthInit
  <2> QED BY <2>1, <2>2
<1>2. status \in {"starting", "degraded"} /\ connected = FALSE /\ heard = {} /\ failing = {}
  BY DEF HealthInit
<1>3. ~Stopping /\ ws.pc = "top"
  BY DEF HealthInit, Init, Stopping, Ws
<1> QED BY <1>1, <1>2, <1>3 DEF HealthTypeOK, ConnInv, Statuses

\* The steps that set and clear reasons and leave the connection as it is.
LEMMA ReasonsKeepType ==
  ASSUME HealthTypeOK, NEW r \in SUBSET Reasons, SetReasons(r)
  PROVE  /\ reasons' \subseteq Reasons /\ status' \in Statuses /\ connected' \in BOOLEAN
         /\ status \in {"stopping", "stopped"} => status' = status
         /\ (status = "running" => connected) => (status' = "running" => connected' /\ reasons' = {})
BY DEF HealthTypeOK, SetReasons, StatusWith, Statuses

LEMMA DoneKeepsType ==
  ASSUME HealthTypeOK, MarketEventDone \/ AlertDone
  PROVE  \E r \in SUBSET Reasons : SetReasons(r)
BY DEF MarketEventDone, AlertDone, HealthTypeOK, Reasons

\* Every step either sets reasons and leaves the connection alone, or is one
\* of those that open it, lose it or stop.
LEMMA HealthSteps ==
  ASSUME HealthTypeOK, [HealthNext]_hvars
  PROVE  \/ ConnectedHealth \/ DisconnectHealth \/ WsTasksCancelledHealth
         \/ StopCalledHealth \/ StoppedHealth
         \/ /\ \/ \E r \in SUBSET Reasons : SetReasons(r)
               \/ UNCHANGED <<reasons, status, connected>>
            /\ heard' \subseteq Symbols /\ failing' \subseteq Writers
<1> USE DEF HealthTypeOK
<1>1. CASE OtherHealth \/ PublishedHealth \/ AlertedHealth
  BY <1>1, DoneKeepsType DEF OtherHealth, PublishedHealth, AlertedHealth
<1>2. ASSUME NEW s \in Symbols, DepthHealth(s)
      PROVE  /\ \/ \E r \in SUBSET Reasons : SetReasons(r)
                \/ UNCHANGED <<reasons, status, connected>>
             /\ heard' \subseteq Symbols /\ failing' \subseteq Writers
  BY <1>2 DEF DepthHealth, Reasons
<1>3. ASSUME NEW s \in Symbols, SnapshotFetchedHealth(s) \/ FetchFailedHealth(s)
      PROVE  /\ \E r \in SUBSET Reasons : SetReasons(r)
             /\ heard' \subseteq Symbols /\ failing' \subseteq Writers
  <2>1. Unsynced(s) \in Reasons /\ FetchRefused \cup {FetchBroken} \subseteq Reasons
    BY DEF Reasons
  <2> QED BY <1>3, <2>1 DEF SnapshotFetchedHealth, FetchFailedHealth
<1>4. ASSUME NEW s \in Symbols, SyncAlertedHealth(s)
      PROVE  /\ \E r \in SUBSET Reasons : SetReasons(r)
             /\ heard' \subseteq Symbols /\ failing' \subseteq Writers
  BY <1>4, DoneKeepsType DEF SyncAlertedHealth
<1>5. ASSUME NEW w \in Writers, WriterFlushed(w) \/ WriterFailed(w) \/ WriterAlerted(w)
      PROVE  /\ \E r \in SUBSET Reasons : SetReasons(r)
             /\ heard' \subseteq Symbols /\ failing' \subseteq Writers
  <2>1. FlushBroken \in Reasons
    BY DEF Reasons
  <2> QED BY <1>5, <2>1, DoneKeepsType DEF WriterFlushed, WriterFailed, WriterAlerted
<1>6. CASE HealthPoll
  <2>1. PICK r : SetReasons(r) /\ r \subseteq reasons \cup {Stale(s) : s \in heard}
                                                    \cup {Unsynced(s) : s \in Symbols}
    BY <1>6 DEF HealthPoll
  <2>2. r \subseteq Reasons
    BY <2>1 DEF Reasons
  <2> QED BY <1>6, <2>1, <2>2 DEF HealthPoll
<1>7. CASE QuietStep \/ UNCHANGED hvars
  BY <1>7 DEF QuietStep, hvars, health
<1> QED BY <1>1, <1>2, <1>3, <1>4, <1>5, <1>6, <1>7 DEF HealthNext

\* A step that opens the connection, loses it or stops keeps the types.
LEMMA ConnectionKeepsType ==
  ASSUME HealthTypeOK, \/ ConnectedHealth \/ DisconnectHealth \/ WsTasksCancelledHealth
                       \/ StopCalledHealth \/ StoppedHealth
  PROVE  HealthTypeOK'
<1> USE DEF HealthTypeOK
<1>1. {Disconnected, SchemaUnavailable, FlushBroken, ShutdownBroken} \subseteq Reasons
  BY DEF Reasons
<1>2. CASE ConnectedHealth
  BY <1>1, <1>2 DEF ConnectedHealth, StatusWith, Statuses
<1>3. CASE DisconnectHealth \/ WsTasksCancelledHealth
  BY <1>1, <1>3 DEF DisconnectHealth, WsTasksCancelledHealth, ReportDisconnect, health, StatusWith, Statuses
<1>4. CASE StopCalledHealth
  BY <1>4 DEF StopCalledHealth, Statuses
<1>5. CASE StoppedHealth
  BY <1>1, <1>5 DEF StoppedHealth, Statuses
<1> QED BY <1>2, <1>3, <1>4, <1>5

\* The invariant through such a step.
LEMMA ConnectionKeepsConn ==
  ASSUME IndInv, HealthTypeOK, ConnInv,
         \/ ConnectedHealth \/ DisconnectHealth \/ WsTasksCancelledHealth
         \/ StopCalledHealth \/ StoppedHealth
  PROVE  ConnInv'
<1>1. CASE ConnectedHealth
  <2>1. ws'.pc = "recv" \/ Stopping
    BY <1>1 DEF ConnectedHealth, Connected, NextPayload, Ws
  <2>2. Stopping' <=> Stopping
    BY <1>1 DEF ConnectedHealth, Connected, Stopping
  <2>3. connected' /\ status' = StatusWith(reasons', TRUE)
    BY <1>1 DEF ConnectedHealth
  <2> QED BY <2>1, <2>2, <2>3 DEF ConnInv, StatusWith, Open, GivenUp
<1>2. CASE DisconnectHealth
  <2>1. (Stopping' <=> Stopping) /\ ws'.pc \in {"cancel_wait", "reconnect_alert"}
    BY <1>2 DEF DisconnectHealth, Disconnect, Stopping, Ws
  <2>2. CASE ws'.pc = "reconnect_alert"
    BY <1>2, <2>1, <2>2 DEF DisconnectHealth, ReportDisconnect, ConnInv, StatusWith
  <2>3. CASE ws'.pc = "cancel_wait"
    <3>1. \E s \in Symbols : Alive(s)
      BY <1>2, <2>3 DEF DisconnectHealth, Disconnect, Ws
    <3>2. ~Stopping => \E s \in Symbols : Running(s)
      BY <1>2, <3>1 DEF IndInv, TasksMatchConnection, Alive, Running, DisconnectHealth, Disconnect
    <3>3. ~Stopping => \E s \in Symbols : ~Synced(s)
      BY <3>2 DEF IndInv, NoResyncOfSyncedBook
    <3>4. UNCHANGED <<books, reasons, status, connected>>
      BY <1>2, <2>3 DEF DisconnectHealth, Disconnect, health
    <3> QED BY <2>1, <2>3, <3>3, <3>4 DEF ConnInv, Synced, GivenUp
  <2> QED BY <2>1, <2>2, <2>3
<1>3. CASE WsTasksCancelledHealth
  <2>1. (Stopping' <=> Stopping) /\ ws'.pc = "reconnect_alert"
    BY <1>3 DEF WsTasksCancelledHealth, WsTasksCancelled, Stopping, Ws
  <2> QED BY <1>3, <2>1 DEF WsTasksCancelledHealth, ReportDisconnect, ConnInv, StatusWith
<1>4. CASE StopCalledHealth \/ StoppedHealth
  <2>1. Stopping' /\ status' \in {"stopping", "stopped"}
    BY <1>4 DEF StopCalledHealth, StopCalled, StoppedHealth, Stopped, Stopping
  <2> QED BY <2>1 DEF ConnInv
<1> QED BY <1>1, <1>2, <1>3, <1>4

\* The loop has not yet seen that the connection is lost.
Kept == Open \/ ws.pc = "closing"

\* Any other step of BookSync neither stops the engine nor brings its
\* connection further than to the closing handshake, nor does it begin to
\* wait for tasks or synchronise a book while the loop waits.
LEMMA OtherStepsKeepConnection ==
  ASSUME IndInv, [HealthNext]_hvars,
         ~(ConnectedHealth \/ DisconnectHealth \/ WsTasksCancelledHealth),
         ~(StopCalledHealth \/ StoppedHealth)
  PROVE  /\ Stopping' <=> Stopping
         /\ Kept /\ ~Stopping => Kept'
         /\ ws.pc = "cancel_wait" /\ ~Stopping => ws'.pc = "cancel_wait" /\ \A s \in Symbols : Synced(s)' => Synced(s)
         /\ ws'.pc = "cancel_wait" => ws.pc = "cancel_wait"
<1> DEFINE Goal == /\ Stopping' <=> Stopping
                   /\ Kept /\ ~Stopping => Kept'
                   /\ ws.pc = "cancel_wait" /\ ~Stopping => ws'.pc = "cancel_wait" /\ \A s \in Symbols : Synced(s)' => Synced(s)
                   /\ ws'.pc = "cancel_wait" => ws.pc = "cancel_wait"
<1>1. CASE OtherHealth \/ PublishedHealth \/ AlertedHealth
  BY <1>1 DEF OtherHealth, OtherReceived, PublishedHealth, TradePublished, SnapshotPublished, AlertedHealth,
     ReconnectAlerted, QueueAlerted, TriggerResync, NextPayload, Ws, Stopping, Kept, Open
<1>2. ASSUME NEW s \in Symbols, DepthHealth(s) PROVE Goal
  <2>1. PICK u : HandleDepth(s, u) /\ ws.pc = "recv" /\ UNCHANGED stop
    BY <1>2 DEF DepthHealth, DepthReceived, MalformedReceived
  <2> QED BY <2>1 DEF HandleDepth, NextPayload, Ws, Stopping, Kept, Open
<1>3. ASSUME NEW s \in Symbols, \/ SnapshotFetchedHealth(s) \/ FetchFailedHealth(s)
                               \/ SyncAlertedHealth(s) \/ SyncTop(s)
      PROVE  Goal
  <2>1. UNCHANGED <<ws, stop>> /\ Running(s)
    BY <1>3 DEF SnapshotFetchedHealth, FetchFailedHealth, SyncAlertedHealth, SnapshotFetched,
       FetchFailed, FetchAlerted, SyncAlerted, SyncTop, Running
  <2>2. ws.pc # "cancel_wait"
    BY <2>1 DEF IndInv, TasksMatchConnection
  <2> QED BY <2>1, <2>2 DEF Stopping, Kept, Open
<1>4. ASSUME UNCHANGED <<ws, stop, books>> PROVE Goal
  BY <1>4 DEF Stopping, Kept, Open, Synced
<1>5. CASE \/ \E w \in Writers : WriterFlushed(w) \/ WriterFailed(w) \/ WriterAlerted(w)
           \/ HealthPoll \/ UNCHANGED hvars
  BY <1>4, <1>5 DEF WriterFlushed, WriterFailed, WriterAlerted, HealthPoll, hvars, vars
<1>6. CASE WsLoopTop \/ RecvFailed \/ WsUnwound
  BY <1>6 DEF WsLoopTop, RecvFailed, WsUnwound, Ws, Stopping, Kept, Open
<1>7. CASE StopTasksCancelled
  BY <1>7 DEF StopTasksCancelled, CancelWs, Ws, Stopping
<1>8. CASE StaysStopped \/ \E s \in Symbols : TaskUnwound(s)
  BY <1>4, <1>8 DEF StaysStopped, TaskUnwound, vars
<1>9. CASE QuietStep
  BY <1>3, <1>6, <1>7, <1>8, <1>9 DEF QuietStep
<1> QED BY <1>1, <1>2, <1>3, <1>5, <1>9 DEF HealthNext

LEMMA ConnNext ==
  ASSUME IndInv, HealthTypeOK, ConnInv, [HealthNext]_hvars
  PROVE  HealthTypeOK' /\ ConnInv'
<1>1. CASE \/ ConnectedHealth \/ DisconnectHealth \/ WsTasksCancelledHealth
           \/ StopCalledHealth \/ StoppedHealth
  BY <1>1, ConnectionKeepsType, ConnectionKeepsConn
<1>2. CASE ~(\/ ConnectedHealth \/ DisconnectHealth \/ WsTasksCancelledHealth
             \/ StopCalledHealth \/ StoppedHealth)
  <2>1. \/ \E r \in SUBSET Reasons : SetReasons(r)
        \/ UNCHANGED <<reasons, status, connected>>
    BY <1>2, HealthSteps
  <2>2. heard' \subseteq Symbols /\ failing' \subseteq Writers
    BY <1>2, HealthSteps
  <2>3. /\ reasons' \subseteq Reasons /\ status' \in Statuses /\ connected' \in BOOLEAN
        /\ status \in {"stopping", "stopped"} => status' = status
        /\ status' = "running" => connected' /\ reasons' = {}
        /\ connected' = connected
    <3>1. status = "running" => connected /\ reasons = {}
      BY DEF ConnInv
    <3>2. CASE UNCHANGED <<reasons, status, connected>>
      BY <3>1, <3>2 DEF HealthTypeOK
    <3>3. ASSUME NEW r \in SUBSET Reasons, SetReasons(r)
          PROVE  /\ reasons' \subseteq Reasons /\ status' \in Statuses /\ connected' \in BOOLEAN
                 /\ status \in {"stopping", "stopped"} => status' = status
                 /\ status' = "running" => connected' /\ reasons' = {}
                 /\ connected' = connected
      BY <3>1, <3>3, ReasonsKeepType DEF SetReasons
    <3> QED BY <2>1, <3>2, <3>3
  <2>4. /\ Stopping' <=> Stopping
        /\ Kept /\ ~Stopping => Kept'
        /\ ws.pc = "cancel_wait" /\ ~Stopping =>
             ws'.pc = "cancel_wait" /\ \A s \in Symbols : Synced(s)' => Synced(s)
        /\ ws'.pc = "cancel_wait" => ws.pc = "cancel_wait"
    BY <1>2, OtherStepsKeepConnection
  <2>5. HealthTypeOK'
    BY <2>2, <2>3 DEF HealthTypeOK
  <2>6. ConnInv'
    BY <2>3, <2>4 DEF ConnInv, GivenUp, Kept
  <2> QED BY <2>5, <2>6
<1> QED BY <1>1, <1>2

LEMMA ConnInvariance == HealthSpec => [](IndInv /\ HealthTypeOK /\ ConnInv)
<1>1. IndInv /\ HealthTypeOK /\ ConnInv /\ [HealthNext]_hvars => HealthTypeOK' /\ ConnInv'
  BY ConnNext
<1> QED BY <1>1, ConnInit, HealthImplementsSync, Invariance, PTL DEF HealthSpec

\* Every variable of the health keeps its type.
THEOREM HealthTypeCorrect == HealthSpec => []HealthTypeOK
BY ConnInvariance, PTL

\* The engine reports that it runs only with a connection, or while it
\* clears up after one.
THEOREM RunningConnected == HealthSpec => []RunningIsConnected
<1>1. IndInv /\ HealthTypeOK /\ ConnInv => RunningIsConnected
  BY DEF ConnInv, RunningIsConnected
<1> QED BY <1>1, ConnInvariance, PTL

\* ping() answers TRUE only while the connection is open or in its closing
\* handshake, for every number of symbols: a loss that the loop has seen and
\* not reported leaves a book without synchronisation, for whose task the
\* loop still waits.
THEOREM HealthyTillClosed == HealthSpec => []HealthyUntilClosed
<1>1. IndInv /\ HealthTypeOK /\ ConnInv => HealthyUntilClosed
  BY DEF ConnInv, HealthyUntilClosed, Healthy, GivenUp
<1> QED BY <1>1, ConnInvariance, PTL
=============================================================================
