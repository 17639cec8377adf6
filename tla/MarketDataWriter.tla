--------------------------- MODULE MarketDataWriter ---------------------------
(***************************************************************************)
(* ClickHouseMarketDataWriter (src/src/storage/market_data_writer.py) as   *)
(* MarketDataEngine uses it: the schema in start() under a timeout, the    *)
(* inserts of the two writer tasks, the final flush under timeouts, and    *)
(* close().                                                                *)
(*                                                                         *)
(* A call of the writer takes its lock, hands the request to a worker      *)
(* thread and awaits it, again if it fails.  A timeout or a cancellation   *)
(* ends the call and frees the lock, but not its thread: it goes on,       *)
(* abandoned.  The client is created where it is first needed: by the      *)
(* thread of the schema, and for an insert on the event loop itself, which *)
(* stands still meanwhile while the threads do not.                        *)
(***************************************************************************)
EXTENDS Integers, Sequences, FiniteSets

CONSTANTS
    MaxAttempts,  \* max_attempts of the retry settings
    Clients,      \* the connections there may be to ClickHouse, a bound on the model
    None

ASSUME WriterAssumption == MaxAttempts \in Nat \ {0} /\ None \notin Clients

VARIABLES
    phase,     \* how far the engine is
    queue,     \* _lock: the call that owns it and, behind it, those who wait
    stage,     \* where the owner of the lock is
    attempt,   \* its attempt, counted by retry_async
    thread,    \* the worker thread of each call
    client,    \* _client
    open,      \* the clients that have not been closed
    copies,    \* how often ClickHouse took the rows of each call that is not over
    ended,     \* the call that ended last, and how
    late       \* start() has given up on a thread that may still create a client

vars == <<phase, queue, stage, attempt, thread, client, open, copies, ended, late>>

\* The calls of the trade writer, the snapshot writer, the final flush,
\* start() and stop().
Inserts == {"trades", "snapshots", "final"}
Calls == Inserts \cup {"schema", "close"}
Phases == {"starting", "running", "draining", "final_trades", "final_snapshots", "close", "stopped"}
Stages == {"free", "entering", "connect", "return", "await", "backoff"}
ThreadPcs == {"none", "queued", "check", "connect", "return", "run", "ok", "failed"}
Outcomes == {"returned", "raised"}

ASSUME NoneAssumption == None \notin [call : Calls, how : Outcomes]

Waits(c) == \E i \in 1..Len(queue) : queue[i] = c
Owner == Head(queue)

\* The event loop runs other tasks, unless the owner creates a client on it.
LoopFree == stage \notin {"connect", "return"}

Thread(pc, uses) == [pc |-> pc, uses |-> uses]
NoThread == Thread("none", None)
Ended(c, how) == [call |-> c, how |-> how]

\* start() has called ensure_schema, and its thread is on its way.
Init ==
    /\ phase = "starting"
    /\ queue = <<"schema">> /\ stage = "await" /\ attempt = 1
    /\ thread = [c \in Calls |-> IF c = "schema" THEN Thread("queued", None) ELSE NoThread]
    /\ client = None /\ open = {}
    /\ copies = [c \in Inserts |-> 0]
    /\ ended = None
    /\ late = FALSE

-----------------------------------------------------------------------------
(* The lock, and retry_async under it. *)

\* A slip of Leave: the next in line is not woken.
LeaveAlone(how) ==
    /\ ended' = Ended(Owner, how)
    /\ copies' = [c \in Inserts |-> IF c = Owner THEN 0 ELSE copies[c]]
    /\ queue' = Tail(queue)
    /\ stage' = "free"

\* The owner leaves the lock to the next in line.
Leave(how) ==
    /\ ended' = Ended(Owner, how)
    /\ copies' = [c \in Inserts |-> IF c = Owner THEN 0 ELSE copies[c]]
    /\ queue' = Tail(queue)
    /\ stage' = IF Tail(queue) = <<>> THEN "free" ELSE "entering"

\* A slip of Begin: an insert does not look for the client there is.
BeginAnew(c) ==
    IF c \in Inserts
    THEN stage' = "connect" /\ UNCHANGED thread
    ELSE stage' = "await" /\ thread' = [thread EXCEPT ![c] = Thread("queued", client)]

\* An attempt of call c, up to the first await or the creation of a client.
Begin(c) ==
    IF c \in Inserts
    THEN /\ stage' = IF client = None THEN "connect" ELSE "return"
         /\ UNCHANGED thread
    ELSE /\ stage' = "await"
         /\ thread' = [thread EXCEPT ![c] = Thread("queued", client)]

\* A call of the engine.  close() is only called when no other call is left,
\* and returns at once if there is no client.
Call(c) ==
    /\ ~Waits(c)
    /\ IF c = "close" /\ client = None
       THEN ended' = Ended(c, "returned") /\ UNCHANGED <<queue, stage, attempt, thread>>
       ELSE /\ queue' = Append(queue, c)
            /\ IF queue = <<>> THEN Begin(c) /\ attempt' = 1 ELSE UNCHANGED <<stage, attempt, thread>>
            /\ UNCHANGED ended
    /\ UNCHANGED <<client, open, copies, late>>

Entered ==
    /\ stage = "entering"
    /\ Begin(Owner)
    /\ attempt' = 1
    /\ UNCHANGED <<phase, queue, client, open, copies, ended, late>>

\* Slips of Raised: the attempts are not counted, or there is one too many.
RaisedAgain ==
    /\ stage' = "backoff"
    /\ UNCHANGED <<queue, attempt, copies, ended>>
RaisedOnceMore ==
    IF attempt <= MaxAttempts
    THEN stage' = "backoff" /\ attempt' = attempt + 1 /\ UNCHANGED <<queue, copies, ended>>
    ELSE Leave("raised") /\ UNCHANGED attempt

\* The attempt has raised: there is another one after a sleep, or none is
\* left and the call raises.
Raised ==
    IF attempt < MaxAttempts
    THEN stage' = "backoff" /\ attempt' = attempt + 1 /\ UNCHANGED <<queue, copies, ended>>
    ELSE Leave("raised") /\ UNCHANGED attempt

BackoffOver ==
    /\ stage = "backoff"
    /\ Begin(Owner)
    /\ UNCHANGED <<phase, queue, attempt, client, open, copies, ended, late>>

\* The answer of the thread reaches the event loop.
Answered ==
    /\ stage = "await" /\ thread[Owner].pc \in {"ok", "failed"}
    /\ thread' = [thread EXCEPT ![Owner] = NoThread]
    /\ IF thread[Owner].pc = "ok"
       THEN /\ Leave("returned")
            /\ client' = IF Owner = "close" THEN None ELSE client
            /\ UNCHANGED attempt
       ELSE Raised /\ UNCHANGED client
    /\ UNCHANGED <<phase, open, late>>

-----------------------------------------------------------------------------
(* _get_client, on the event loop and in the thread of the schema.  What   *)
(* it opens to create the database it closes itself, whether or not that   *)
(* works.                                                                  *)

\* A client that neither is open nor in anybody's hands.
Fresh == Clients \ (open \cup {client} \cup {thread[c].uses : c \in Calls})

\* No look at _client after the connection: the last one to assign it wins.
Create == \E new \in Fresh : client' = new /\ open' = open \cup {new}

Connected ==
    /\ stage = "connect"
    /\ Create
    /\ stage' = "return"
    /\ UNCHANGED <<phase, queue, attempt, thread, copies, ended, late>>

NotConnected ==
    /\ stage = "connect"
    /\ Raised
    /\ UNCHANGED <<phase, thread, client, open, late>>

\* The insert is handed to a thread, with the client there is now.
Submitted ==
    /\ stage = "return"
    /\ stage' = "await"
    /\ thread' = [thread EXCEPT ![Owner] = Thread("queued", client)]
    /\ UNCHANGED <<phase, queue, attempt, client, open, copies, ended, late>>

-----------------------------------------------------------------------------
(* The worker threads. *)

\* Nobody awaits the thread of call c any more.
Abandoned(c) == thread[c].pc # "none" /\ ~(stage = "await" /\ Owner = c)

Ends(c, how) == thread' = [thread EXCEPT ![c] = IF Abandoned(c) THEN NoThread ELSE Thread(how, None)]
Moves(c, pc) == thread' = [thread EXCEPT ![c].pc = pc]

ThreadStarts(c) ==
    /\ thread[c].pc = "queued"
    /\ Moves(c, IF c = "schema" THEN "check" ELSE "run")
    /\ UNCHANGED <<client, open, copies>>

SchemaChecks ==
    /\ thread["schema"].pc = "check"
    /\ Moves("schema", IF client = None THEN "connect" ELSE "return")
    /\ UNCHANGED <<client, open, copies>>

SchemaConnected ==
    /\ thread["schema"].pc = "connect"
    /\ Create
    /\ Moves("schema", "return")
    /\ UNCHANGED copies

SchemaNotConnected ==
    /\ thread["schema"].pc = "connect"
    /\ Ends("schema", "failed")
    /\ UNCHANGED <<client, open, copies>>

\* close() may have set _client to None since the check.
SchemaReturns ==
    /\ thread["schema"].pc = "return"
    /\ IF client = None
       THEN Ends("schema", "failed")
       ELSE thread' = [thread EXCEPT !["schema"] = Thread("run", client)]
    /\ UNCHANGED <<client, open, copies>>

\* The statements of the schema are executed, or one of them fails.
SchemaRuns ==
    /\ thread["schema"].pc = "run"
    /\ \/ thread["schema"].uses \in open /\ Ends("schema", "ok")
       \/ Ends("schema", "failed")
    /\ UNCHANGED <<client, open, copies>>

\* ClickHouse takes the rows or not, and the answer may be lost; a client
\* that has been closed does not reach it.
InsertRuns(c) ==
    /\ thread[c].pc = "run"
    /\ \/ /\ thread[c].uses \in open
          /\ copies' = [copies EXCEPT ![c] = @ + 1]
          /\ Ends(c, "ok") \/ Ends(c, "failed")
       \/ Ends(c, "failed") /\ UNCHANGED copies
    /\ UNCHANGED <<client, open>>

CloseRuns ==
    /\ thread["close"].pc = "run"
    /\ open' = open \ {thread["close"].uses}
    /\ Ends("close", "ok")
    /\ UNCHANGED <<client, copies>>

ThreadStep(c) ==
    /\ \/ ThreadStarts(c)
       \/ c = "schema" /\ (SchemaChecks \/ SchemaConnected \/ SchemaNotConnected \/ SchemaReturns
                            \/ SchemaRuns)
       \/ c \in Inserts /\ InsertRuns(c)
       \/ c = "close" /\ CloseRuns
    /\ UNCHANGED <<phase, queue, stage, attempt, ended, late>>

-----------------------------------------------------------------------------
(* The engine. *)

\* Calls are cancelled: those that wait leave the line, the owner frees the
\* lock.  A thread that has not started yet never will; one that has ended
\* is not listened to.
Cancel ==
    /\ queue' = <<>> /\ stage' = "free"
    /\ copies' = [c \in Inserts |-> IF Waits(c) THEN 0 ELSE copies[c]]
    /\ late' = (late \/ thread["schema"].pc \in {"check", "connect"})
    /\ thread' = [c \in Calls |->
                     IF Waits(c) /\ thread[c].pc \in {"queued", "ok", "failed"} THEN NoThread ELSE thread[c]]
    /\ UNCHANGED <<attempt, client, open>>

\* start() goes on once ensure_schema has returned, raised or timed out.
Started ==
    /\ phase = "starting" /\ LoopFree
    /\ queue = <<>>
    /\ phase' = "running"
    /\ UNCHANGED <<queue, stage, attempt, thread, client, open, copies, ended, late>>

SchemaTimedOut ==
    /\ phase = "starting" /\ LoopFree
    /\ queue # <<>>
    /\ Cancel
    /\ phase' = "running"
    /\ UNCHANGED ended

\* A writer task flushes a batch.
Flush(c) ==
    /\ phase = "running" /\ LoopFree
    /\ Call(c)
    /\ UNCHANGED phase

StopCalled ==
    /\ phase = "running" /\ LoopFree
    /\ phase' = "draining"
    /\ UNCHANGED <<queue, stage, attempt, thread, client, open, copies, ended, late>>

WritersDone ==
    /\ phase = "draining" /\ LoopFree
    /\ queue = <<>>
    /\ phase' = "final_trades" /\ ended' = None
    /\ UNCHANGED <<queue, stage, attempt, thread, client, open, copies, late>>

DrainTimedOut ==
    /\ phase = "draining" /\ LoopFree
    /\ queue # <<>>
    /\ Cancel
    /\ phase' = "final_trades" /\ ended' = None

\* _flush_final inserts what the queues hold, and close() follows.
FinalCall ==
    /\ phase \in {"final_trades", "final_snapshots", "close"} /\ LoopFree
    /\ queue = <<>> /\ ended = None
    /\ Call(IF phase = "close" THEN "close" ELSE "final")
    /\ UNCHANGED phase

\* A slip of AfterFinal: a flush that raises is tried again.
AfterFinalAgain(returned) ==
    CASE phase = "final_trades" /\ returned -> "final_snapshots"
      [] phase = "final_snapshots" /\ returned -> "close"
      [] phase = "close" -> "stopped"
      [] OTHER -> phase

\* The snapshots are flushed unless the flush of the trades raised.
AfterFinal(returned) ==
    CASE phase = "final_trades" /\ returned -> "final_snapshots"
      [] phase = "close" -> "stopped"
      [] OTHER -> "close"

\* There is nothing to flush.
FinalSkipped ==
    /\ phase \in {"final_trades", "final_snapshots"} /\ LoopFree
    /\ queue = <<>> /\ ended = None
    /\ phase' = AfterFinal(TRUE)
    /\ UNCHANGED <<queue, stage, attempt, thread, client, open, copies, ended, late>>

FinalEnded ==
    /\ phase \in {"final_trades", "final_snapshots", "close"} /\ LoopFree
    /\ queue = <<>> /\ ended # None
    /\ phase' = AfterFinal(ended.how = "returned") /\ ended' = None
    /\ UNCHANGED <<queue, stage, attempt, thread, client, open, copies, late>>

\* A flush that times out raises through _flush_final.
FinalTimedOut ==
    /\ phase \in {"final_trades", "final_snapshots"} /\ LoopFree
    /\ queue # <<>>
    /\ Cancel
    /\ phase' = "close" /\ ended' = None

StaysStopped == phase = "stopped" /\ UNCHANGED vars

-----------------------------------------------------------------------------
OwnerStep == Entered \/ BackoffOver \/ Answered \/ Connected \/ NotConnected \/ Submitted

EngineStep ==
    \/ Started \/ SchemaTimedOut \/ StopCalled \/ WritersDone \/ DrainTimedOut
    \/ FinalCall \/ FinalSkipped \/ FinalEnded \/ FinalTimedOut \/ StaysStopped
    \/ \E c \in {"trades", "snapshots"} : Flush(c)

Next == OwnerStep \/ EngineStep \/ \E c \in Calls : ThreadStep(c)

\* The event loop runs what can run, a thread's request ends by the client's
\* own timeouts at the latest, and the timers of the engine fire.
Fairness ==
    /\ WF_vars(OwnerStep)
    /\ \A c \in Calls : WF_vars(ThreadStep(c))
    /\ WF_vars(Started \/ SchemaTimedOut) /\ WF_vars(WritersDone \/ DrainTimedOut)
    /\ WF_vars(FinalCall \/ FinalSkipped) /\ WF_vars(FinalEnded) /\ WF_vars(FinalTimedOut)

Spec == Init /\ [][Next]_vars /\ Fairness
-----------------------------------------------------------------------------
\* Every variable holds values of its type, the lock has an owner exactly
\* while a call is in one of its stages, and the owner awaits a thread.
TypeOK ==
    /\ phase \in Phases
    /\ queue \in Seq(Calls) /\ stage \in Stages /\ (stage = "free" <=> queue = <<>>)
    /\ attempt \in 1..MaxAttempts
    /\ thread \in [Calls -> [pc : ThreadPcs, uses : Clients \cup {None}]]
    /\ stage = "await" => thread[Owner].pc # "none"
    /\ client \in Clients \cup {None} /\ open \subseteq Clients
    /\ copies \in [Inserts -> Nat]
    /\ ended \in [call : Calls, how : Outcomes] \cup {None} /\ late \in BOOLEAN

\* One client is open while the engine runs and none once it has stopped,
\* although the event loop and a thread may create one at the same time, and
\* a thread after close().  There can be one more only after start() has
\* given up on a schema before its thread had its client.
ClientsBounded ==
    Cardinality(open) <= (IF phase = "stopped" THEN 0 ELSE 1) + (IF late THEN 1 ELSE 0)

\* An insert that returns has stored its rows, and none has stored them more
\* often than it may try to, although answers are lost and a thread that
\* another call has abandoned is still storing its own.
InsertsAccounted ==
    [][\A c \in Inserts :
         Waits(c) /\ ~Waits(c)' =>
            /\ copies[c] <= MaxAttempts
            /\ ended' = Ended(c, "returned") => copies[c] >= 1]_vars

\* The lock is not lost: every call of the writer ends, whoever was
\* cancelled before it, and whatever an abandoned thread is doing.
CallsEnd == \A c \in Calls : Waits(c) ~> ~Waits(c)

\* The engine gets through start() and stop().
EngineGoesOn ==
    /\ phase = "starting" ~> phase = "running"
    /\ phase = "draining" ~> phase = "stopped"
=============================================================================
