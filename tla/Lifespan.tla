------------------------------- MODULE Lifespan -------------------------------
(***************************************************************************)
(* The application of src/src/api/main.py: its lifespan, which starts the  *)
(* event bus and the engine, serves, and lets go of what it has created,   *)
(* and the readiness requests, which ping the event bus, ClickHouse and    *)
(* the engine at the same time.                                            *)
(*                                                                         *)
(* The server calls the second half of the lifespan when no request is in  *)
(* progress.  What a dependency does is BookSync's, MarketDataWriter's and *)
(* RedisEventBus's matter: here each of its methods returns or raises.     *)
(***************************************************************************)
EXTENDS Integers, Sequences, FiniteSets

CONSTANTS
    Requests,     \* concurrent calls of /health/ready
    MaxAttempts   \* max_attempts of the retry settings

ASSUME LifespanAssumption == MaxAttempts \in Nat \ {0}

VARIABLES
    enabled,   \* market_data.enabled, never changed
    given,     \* the dependencies handed to create_app, never changed
    phase,     \* where the lifespan is
    state,     \* what has become of each dependency
    ping,      \* the ping of each request to each dependency
    line,      \* the lock of ClickHouseClient: the requests whose ping holds it or waits
    answer     \* the last answer to a readiness request

vars == <<enabled, given, phase, state, ping, line, answer>>

Deps == {"redis", "clickhouse", "market_data"}
Phases == {"streams", "engine", "serving", "stop_market_data", "stop_redis", "stop_clickhouse", "down"}

\* The engine is built unless it is disabled; one that is handed in is used
\* even then.
Present(d) == d # "market_data" \/ enabled \/ d \in given
Owned(d) == Present(d) /\ d \notin given

\* A dependency is new, in use, or has been told to stop, and it may have
\* refused to.
States == {"absent", "new", "used", "closed", "broken"}

Ping(pc, attempt) == [pc |-> pc, attempt |-> attempt]
Idle == [d \in Deps |-> Ping("none", 1)]
InProgress(r) == ping[r] # Idle
Trying(r, d) == ping[r][d].pc = "trying"

Init ==
    /\ enabled \in BOOLEAN /\ given \in SUBSET Deps
    /\ phase = "streams"
    /\ state = [d \in Deps |-> IF d = "market_data" THEN "absent" ELSE "used"]
    /\ ping = [r \in Requests |-> Idle]
    /\ line = <<>>
    /\ answer = "none"

-----------------------------------------------------------------------------
(* lifespan, up to its yield. *)

\* ensure_streams returns or raises; the engine is built either way.
StreamsEnsured ==
    /\ phase = "streams"
    /\ IF Present("market_data")
       THEN phase' = "engine" /\ state' = [state EXCEPT !["market_data"] = "new"]
       ELSE phase' = "serving" /\ UNCHANGED state
    /\ UNCHANGED <<enabled, given, ping, line, answer>>

\* start() returns, or raises, and then it may have left tasks that run: the
\* application keeps the engine either way.
EngineStarted ==
    /\ phase = "engine"
    /\ state' = [state EXCEPT !["market_data"] = "used"]
    /\ phase' = "serving"
    /\ UNCHANGED <<enabled, given, ping, line, answer>>

-----------------------------------------------------------------------------
(* lifespan, after its yield. *)

\* A slip of AfterStop: an error leaves the lifespan.
AfterStopRaises(d) ==
    IF state'[d] = "broken" THEN "down"
    ELSE CASE d = "market_data" -> "stop_redis"
           [] d = "redis" -> "stop_clickhouse"
           [] d = "clickhouse" -> "down"

AfterStop(d) ==
    CASE d = "market_data" -> "stop_redis"
      [] d = "redis" -> "stop_clickhouse"
      [] d = "clickhouse" -> "down"

ShutdownBegins ==
    /\ phase = "serving"
    /\ \A r \in Requests : ~InProgress(r)
    /\ phase' = "stop_market_data"
    /\ UNCHANGED <<enabled, given, state, ping, line, answer>>

\* stop() or close() of what the application has created returns or raises,
\* and the next one follows; what was handed in is left alone.
Stop(d) ==
    /\ phase = CASE d = "market_data" -> "stop_market_data"
                 [] d = "redis" -> "stop_redis"
                 [] d = "clickhouse" -> "stop_clickhouse"
    /\ IF Owned(d)
       THEN \E s \in {"closed", "broken"} : state' = [state EXCEPT ![d] = s]
       ELSE UNCHANGED state
    /\ phase' = AfterStop(d)
    /\ UNCHANGED <<enabled, given, ping, line, answer>>

StaysDown == phase = "down" /\ UNCHANGED vars

-----------------------------------------------------------------------------
(* /health/ready. *)

\* The pings of a request start together; that of ClickHouse queues.
RequestArrives(r) ==
    /\ phase = "serving" /\ ~InProgress(r)
    /\ ping' = [ping EXCEPT ![r] = [d \in Deps |->
                    Ping(IF Present(d) THEN "trying" ELSE "ok", 1)]]
    /\ line' = Append(line, r)
    /\ UNCHANGED <<enabled, given, phase, state, answer>>

\* A slip of PingOver: the lock stays where it is.
PingOverInside(r, d, pc) ==
    /\ ping' = [ping EXCEPT ![r][d] = Ping(pc, 1)]
    /\ UNCHANGED line

\* The ping is over, and the lock goes to the next in line.
PingOver(r, d, pc) ==
    /\ ping' = [ping EXCEPT ![r][d] = Ping(pc, 1)]
    /\ line' = IF d = "clickhouse" THEN Tail(line) ELSE line

\* A slip of PingStep: retry_async does not count the attempts.
PingStepUncounted(r, d) ==
    /\ Trying(r, d) /\ (d = "clickhouse" => Head(line) = r)
    /\ \/ PingOver(r, d, "ok") \/ PingOver(r, d, "bad")
       \/ /\ d # "market_data"
          /\ ping' = [ping EXCEPT ![r][d].attempt = IF @ = MaxAttempts THEN 1 ELSE @ + 1]
          /\ UNCHANGED line
    /\ UNCHANGED <<enabled, given, phase, state, answer>>

\* An attempt answers yes or no, or raises, and then retry_async tries again
\* or gives up; the engine's ping does not retry.
PingStep(r, d) ==
    /\ Trying(r, d) /\ (d = "clickhouse" => Head(line) = r)
    /\ \/ PingOver(r, d, "ok") \/ PingOver(r, d, "bad")
       \/ /\ ping[r][d].attempt < MaxAttempts /\ d # "market_data"
          /\ ping' = [ping EXCEPT ![r][d].attempt = @ + 1]
          /\ UNCHANGED line
    /\ UNCHANGED <<enabled, given, phase, state, answer>>

\* 200, or 503.
Answered(r) ==
    /\ InProgress(r) /\ \A d \in Deps : ~Trying(r, d)
    /\ answer' = IF \A d \in Deps : ping[r][d].pc = "ok" THEN "ok" ELSE "unhealthy"
    /\ ping' = [ping EXCEPT ![r] = Idle]
    /\ UNCHANGED <<enabled, given, phase, state, line>>

-----------------------------------------------------------------------------
Next ==
    \/ StreamsEnsured \/ EngineStarted \/ ShutdownBegins \/ StaysDown
    \/ \E d \in Deps : Stop(d)
    \/ \E r \in Requests : RequestArrives(r) \/ Answered(r) \/ \E d \in Deps : PingStep(r, d)

\* Every method returns or raises in the end: the calls of Redis and
\* ClickHouse have timeouts, and BookSync and MarketDataWriter show that
\* start() and stop() return.
Fairness ==
    /\ WF_vars(StreamsEnsured) /\ WF_vars(EngineStarted)
    /\ \A d \in Deps : WF_vars(Stop(d))
    /\ \A r \in Requests : WF_vars(Answered(r)) /\ \A d \in Deps : WF_vars(PingStep(r, d))

Spec == Init /\ [][Next]_vars /\ Fairness
-----------------------------------------------------------------------------
\* Every variable holds values of its type, and the requests that wait for
\* ClickHouse are those whose ping is not answered.
TypeOK ==
    /\ enabled \in BOOLEAN /\ given \subseteq Deps
    /\ phase \in Phases /\ state \in [Deps -> States]
    /\ ping \in [Requests -> [Deps -> [pc : {"none", "trying", "ok", "bad"}, attempt : 1..MaxAttempts]]]
    /\ \A r \in Requests :
         Cardinality({i \in 1..Len(line) : line[i] = r}) = IF Trying(r, "clickhouse") THEN 1 ELSE 0
    /\ answer \in {"none", "ok", "unhealthy"}

\* Whatever start() and stop() raise: the bus stays open until the engine
\* that publishes on it has been stopped, what is handed in stays open, and
\* when the application is down, all it has created has been told to stop.
LetGoInOrder ==
    /\ state["redis"] \in {"closed", "broken"} /\ Owned("market_data") =>
         state["market_data"] \in {"closed", "broken"}
    /\ \A d \in given : state[d] \notin {"closed", "broken"}
    /\ phase = "down" => \A d \in Deps : Owned(d) => state[d] \in {"closed", "broken"}

\* Every readiness request is answered, although the pings of ClickHouse
\* wait for each other, and the application comes up and goes down.
RequestsAnswered ==
    /\ \A r \in Requests : InProgress(r) ~> ~InProgress(r)
    /\ phase = "streams" ~> phase = "serving"
    /\ phase = "stop_market_data" ~> phase = "down"
=============================================================================
