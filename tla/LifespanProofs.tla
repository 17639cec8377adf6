---------------------------- MODULE LifespanProofs ----------------------------
(***************************************************************************)
(* The application lets go of what it has created in the right order, and  *)
(* nobody waits twice or for nothing at the lock of ClickHouseClient, for  *)
(* every set of requests and number of attempts.                           *)
(***************************************************************************)
EXTENDS Lifespan, FiniteSetTheorems, SequenceTheorems, TLAPS

-----------------------------------------------------------------------------
(* The inductive invariant. *)

Pings == [pc : {"none", "trying", "ok", "bad"}, attempt : 1..MaxAttempts]

ValuesOK ==
  /\ enabled \in BOOLEAN /\ given \subseteq Deps
  /\ phase \in Phases /\ state \in [Deps -> States]
  /\ ping \in [Requests -> [Deps -> Pings]]
  /\ answer \in {"none", "ok", "unhealthy"}

InLine(r) == \E i \in 1..Len(line) : line[i] = r

LineOK ==
  /\ line \in Seq(Requests) /\ \A i, j \in 1..Len(line) : line[i] = line[j] => i = j
  /\ \A r \in Requests : InLine(r) <=> Trying(r, "clickhouse")

Gone(d) == state[d] \in {"closed", "broken"}

\* The lifespan is past the stop() or close() of a dependency.
Passed(d) ==
  \/ phase = "down"
  \/ phase = "stop_clickhouse" /\ d # "clickhouse"
  \/ phase = "stop_redis" /\ d = "market_data"

StateOK == \A d \in Deps : Gone(d) <=> Owned(d) /\ Passed(d)

Inv == ValuesOK /\ LineOK /\ StateOK

-----------------------------------------------------------------------------
(* The line in front of ClickHouse. *)

LEMMA JoinLine ==
  ASSUME Inv, NEW r \in Requests, ~InLine(r), line' = Append(line, r)
  PROVE  /\ line' \in Seq(Requests) /\ \A i, j \in 1..Len(line') : line'[i] = line'[j] => i = j
         /\ \A x : InLine(x)' <=> InLine(x) \/ x = r
<1>1. /\ line' \in Seq(Requests) /\ Len(line') = Len(line) + 1 /\ Len(line) \in Nat
      /\ \A i \in 1..Len(line) : line'[i] = line[i]
      /\ line'[Len(line) + 1] = r
  BY AppendProperties, LenProperties DEF Inv, LineOK
<1>2. \A i \in 1..Len(line') : i \in 1..Len(line) \/ i = Len(line) + 1
  BY <1>1
<1>3. \A i \in 1..Len(line) : i \in 1..Len(line') /\ line[i] # r
  BY <1>1 DEF InLine
<1>4. \A i, j \in 1..Len(line) : line[i] = line[j] => i = j
  BY DEF Inv, LineOK
<1>5. ASSUME NEW i \in 1..Len(line'), NEW j \in 1..Len(line'), line'[i] = line'[j] PROVE i = j
  BY <1>1, <1>2, <1>3, <1>4, <1>5
<1>6. Len(line) + 1 \in 1..Len(line')
  BY <1>1
<1>7. \A x : InLine(x)' <=> InLine(x) \/ x = r
  BY <1>1, <1>2, <1>3, <1>6 DEF InLine
<1> QED BY <1>1, <1>5, <1>7

LEMMA LeaveLine ==
  ASSUME Inv, NEW r \in Requests, InLine(r), Head(line) = r, line' = Tail(line)
  PROVE  /\ line' \in Seq(Requests) /\ \A i, j \in 1..Len(line') : line'[i] = line'[j] => i = j
         /\ \A x : InLine(x)' <=> InLine(x) /\ x # r
<1>1. line \in Seq(Requests) /\ Len(line) \in Nat
  BY LenProperties DEF Inv, LineOK
<1>2. line # <<>>
  BY <1>1, EmptySeq DEF InLine
<1>3. /\ line' \in Seq(Requests) /\ Len(line') = Len(line) - 1
      /\ \A i \in 1..Len(line') : line'[i] = line[i + 1]
      /\ r = line[1] /\ 1 \in 1..Len(line)
  BY <1>1, <1>2, HeadTailProperties, EmptySeq
<1>4. \A i, j \in 1..Len(line) : line[i] = line[j] => i = j
  BY DEF Inv, LineOK
<1>5. \A i \in 1..Len(line') : i + 1 \in 1..Len(line) /\ i + 1 # 1
  BY <1>1, <1>3
<1>6. \A i, j \in 1..Len(line') : line'[i] = line'[j] => i = j
  BY <1>3, <1>4, <1>5
<1>7. ASSUME NEW x PROVE InLine(x)' <=> InLine(x) /\ x # r
  <2>1. InLine(x)' => InLine(x) /\ x # r
    BY <1>3, <1>4, <1>5 DEF InLine
  <2>2. ASSUME NEW i \in 1..Len(line), line[i] = x, x # r PROVE InLine(x)'
    <3>1. i # 1 /\ i - 1 \in 1..Len(line') /\ (i - 1) + 1 = i
      BY <1>1, <1>3, <2>2
    <3> QED BY <1>3, <2>2, <3>1 DEF InLine
  <2> QED BY <2>1, <2>2 DEF InLine
<1> QED BY <1>3, <1>6, <1>7

-----------------------------------------------------------------------------
(* The lifespan. *)

LEMMA LifespanStep ==
  ASSUME Inv, UNCHANGED <<enabled, given, ping, line, answer>>,
         phase' \in Phases, state' \in [Deps -> States], StateOK'
  PROVE  Inv'
BY DEF Inv, ValuesOK, LineOK, InLine, Trying

LEMMA StreamsStep == Inv /\ (StreamsEnsured \/ EngineStarted \/ ShutdownBegins) => Inv'
<1> SUFFICES ASSUME Inv, StreamsEnsured \/ EngineStarted \/ ShutdownBegins PROVE Inv'
  OBVIOUS
<1>1. /\ UNCHANGED <<enabled, given, ping, line, answer>>
      /\ phase \in {"streams", "engine", "serving"} /\ phase' \in {"engine", "serving", "stop_market_data"}
      /\ state' = state \/ \E v \in {"new", "used"} : state' = [state EXCEPT !["market_data"] = v]
  BY DEF StreamsEnsured, EngineStarted, ShutdownBegins
<1>2. state \in [Deps -> States] /\ \A d \in Deps : ~Gone(d)
  BY <1>1 DEF Inv, ValuesOK, StateOK, Passed
<1>3. state' \in [Deps -> States] /\ \A d \in Deps : state'[d] \in {state[d], "new", "used"}
  BY <1>1, <1>2 DEF States
<1>4. \A d \in Deps : ~Gone(d)'
  BY <1>2, <1>3 DEF Gone
<1>5. StateOK'
  BY <1>1, <1>4 DEF StateOK, Passed
<1> QED BY <1>1, <1>3, <1>5, LifespanStep DEF Phases

LEMMA StopStep == ASSUME Inv, NEW d \in Deps, Stop(d) PROVE Inv'
<1>1. /\ UNCHANGED <<enabled, given, ping, line, answer>>
      /\ phase' = AfterStop(d)
      /\ \/ d = "market_data" /\ phase = "stop_market_data" /\ phase' = "stop_redis"
         \/ d = "redis" /\ phase = "stop_redis" /\ phase' = "stop_clickhouse"
         \/ d = "clickhouse" /\ phase = "stop_clickhouse" /\ phase' = "down"
  BY DEF Stop, AfterStop, Deps
<1>2. \/ Owned(d) /\ \E s \in {"closed", "broken"} : state' = [state EXCEPT ![d] = s]
      \/ ~Owned(d) /\ state' = state
  BY DEF Stop
<1>3. state \in [Deps -> States] /\ \A x \in Deps : Gone(x) <=> Owned(x) /\ Passed(x)
  BY DEF Inv, ValuesOK, StateOK
<1>4. state' \in [Deps -> States]
  BY <1>2, <1>3 DEF States
<1>5. \A x \in Deps : x # d => state'[x] = state[x]
  BY <1>2, <1>3
<1>6. Owned(d) => state'[d] \in {"closed", "broken"}
  BY <1>2, <1>3
<1>7. ~Owned(d) => state'[d] = state[d]
  BY <1>2
<1>8. \A x \in Deps : (Owned(x)' <=> Owned(x)) /\ (Passed(x)' <=> Passed(x) \/ x = d)
  BY <1>1 DEF Owned, Present, Passed, Deps
<1>9. StateOK'
  BY <1>3, <1>5, <1>6, <1>7, <1>8 DEF StateOK, Gone
<1> QED BY <1>1, <1>4, <1>9, LifespanStep DEF Phases

-----------------------------------------------------------------------------
(* The requests. *)

LEMMA RequestStep ==
  ASSUME Inv, UNCHANGED <<enabled, given, phase, state>>, answer' \in {"none", "ok", "unhealthy"},
         ping' \in [Requests -> [Deps -> Pings]], LineOK'
  PROVE  Inv'
BY DEF Inv, ValuesOK, StateOK, Gone, Owned, Present, Passed

LEMMA ArrivesStep == ASSUME Inv, NEW r \in Requests, RequestArrives(r) PROVE Inv'
<1> DEFINE p == [d \in Deps |-> Ping(IF Present(d) THEN "trying" ELSE "ok", 1)]
<1>1. /\ ping[r] = Idle /\ ping' = [ping EXCEPT ![r] = p] /\ line' = Append(line, r)
      /\ UNCHANGED <<enabled, given, phase, state, answer>> /\ "clickhouse" \in Deps
  BY DEF RequestArrives, InProgress, Deps
<1>2. p \in [Deps -> Pings] /\ p["clickhouse"].pc = "trying"
  <2>1. \A c \in {"trying", "ok"} : Ping(c, 1) \in Pings /\ Ping(c, 1).pc = c
    BY LifespanAssumption DEF Ping, Pings
  <2>2. Present("clickhouse")
    BY DEF Present
  <2> QED BY <1>1, <2>1, <2>2
<1> HIDE DEF p
<1>3. ping \in [Requests -> [Deps -> Pings]]
  BY DEF Inv, ValuesOK
<1>4. ping' \in [Requests -> [Deps -> Pings]] /\ ping'[r] = p /\ \A x \in Requests : x # r => ping'[x] = ping[x]
  BY <1>1, <1>2, <1>3
<1>5. ~InLine(r)
  <2>1. ~Trying(r, "clickhouse")
    BY <1>1 DEF Trying, Idle, Ping
  <2> QED BY <2>1 DEF Inv, LineOK
<1>6. /\ line' \in Seq(Requests) /\ \A i, j \in 1..Len(line') : line'[i] = line'[j] => i = j
      /\ \A x : InLine(x)' <=> InLine(x) \/ x = r
  BY <1>1, <1>5, JoinLine
<1>7. LineOK'
  BY <1>2, <1>4, <1>6 DEF Inv, LineOK, Trying
<1> QED BY <1>1, <1>4, <1>7, RequestStep DEF Inv, ValuesOK

LEMMA AnsweredStep == ASSUME Inv, NEW r \in Requests, Answered(r) PROVE Inv'
<1>1. /\ ~Trying(r, "clickhouse") /\ ping' = [ping EXCEPT ![r] = Idle]
      /\ UNCHANGED <<enabled, given, phase, state, line>> /\ answer' \in {"none", "ok", "unhealthy"}
  BY DEF Answered, Deps
<1>2. Idle \in [Deps -> Pings] /\ Idle["clickhouse"].pc = "none"
  <2>1. Ping("none", 1) \in Pings /\ Ping("none", 1).pc = "none"
    BY LifespanAssumption DEF Ping, Pings
  <2> QED BY <2>1 DEF Idle, Deps
<1>3. /\ ping' \in [Requests -> [Deps -> Pings]] /\ ping'[r] = Idle
      /\ \A x \in Requests : x # r => ping'[x] = ping[x]
  BY <1>1, <1>2 DEF Inv, ValuesOK
<1>4. LineOK'
  BY <1>1, <1>2, <1>3 DEF Inv, LineOK, InLine, Trying
<1> QED BY <1>1, <1>3, <1>4, RequestStep

LEMMA PingsStep == ASSUME Inv, NEW r \in Requests, NEW d \in Deps, PingStep(r, d) PROVE Inv'
<1>1. /\ Trying(r, d) /\ (d = "clickhouse" => Head(line) = r) /\ "clickhouse" \in Deps
      /\ UNCHANGED <<enabled, given, phase, state, answer>>
      /\ ping \in [Requests -> [Deps -> Pings]] /\ ping[r] \in [Deps -> Pings] /\ ping[r][d] \in Pings
  BY DEF PingStep, Inv, ValuesOK, Deps
<1>2. ASSUME NEW p \in Pings, ping' = [ping EXCEPT ![r][d] = p]
      PROVE  /\ ping' \in [Requests -> [Deps -> Pings]] /\ ping'[r][d] = p
             /\ \A x \in Requests, e \in Deps : x # r \/ e # d => ping'[x][e] = ping[x][e]
  <2>1. ping' = [ping EXCEPT ![r] = [ping[r] EXCEPT ![d] = p]] /\ [ping[r] EXCEPT ![d] = p] \in [Deps -> Pings]
    BY <1>1, <1>2
  <2> QED BY <1>1, <2>1
<1>3. ASSUME NEW pc \in {"ok", "bad"}, PingOver(r, d, pc) PROVE Inv'
  <2>1. Ping(pc, 1) \in Pings /\ Ping(pc, 1).pc = pc
    BY LifespanAssumption DEF Ping, Pings
  <2>2. /\ ping' \in [Requests -> [Deps -> Pings]] /\ ping'[r][d].pc = pc
        /\ \A x \in Requests, e \in Deps : x # r \/ e # d => ping'[x][e] = ping[x][e]
    BY <1>2, <1>3, <2>1 DEF PingOver
  <2>3. CASE d = "clickhouse"
    <3>1. InLine(r) /\ line' = Tail(line)
      BY <1>1, <1>3, <2>3 DEF Inv, LineOK, PingOver
    <3>2. /\ line' \in Seq(Requests) /\ \A i, j \in 1..Len(line') : line'[i] = line'[j] => i = j
          /\ \A x : InLine(x)' <=> InLine(x) /\ x # r
      BY <1>1, <2>3, <3>1, LeaveLine
    <3>3. LineOK'
      BY <2>2, <2>3, <3>2 DEF Inv, LineOK, Trying
    <3> QED BY <1>1, <2>2, <3>3, RequestStep DEF Inv, ValuesOK
  <2>4. CASE d # "clickhouse"
    <3>1. line' = line
      BY <1>3, <2>4 DEF PingOver
    <3>2. LineOK'
      BY <1>1, <2>2, <2>4, <3>1 DEF Inv, LineOK, InLine, Trying
    <3> QED BY <1>1, <2>2, <3>2, RequestStep DEF Inv, ValuesOK
  <2> QED BY <2>3, <2>4
<1>4. CASE ping[r][d].attempt < MaxAttempts /\ ping' = [ping EXCEPT ![r][d].attempt = @ + 1] /\ UNCHANGED line
  <2> DEFINE p == [ping[r][d] EXCEPT !.attempt = ping[r][d].attempt + 1]
  <2>1. p \in Pings /\ p.pc = ping[r][d].pc
    BY <1>1, <1>4, LifespanAssumption DEF Pings
  <2>2. ping' = [ping EXCEPT ![r][d] = p]
    BY <1>1, <1>4
  <2> HIDE DEF p
  <2>3. /\ ping' \in [Requests -> [Deps -> Pings]] /\ ping'[r][d] = p
        /\ \A x \in Requests, e \in Deps : x # r \/ e # d => ping'[x][e] = ping[x][e]
    BY <1>2, <2>1, <2>2
  <2>4. \A x \in Requests : Trying(x, "clickhouse")' = Trying(x, "clickhouse")
    BY <1>1, <2>1, <2>3 DEF Trying
  <2>5. LineOK'
    BY <1>4, <2>4 DEF Inv, LineOK, InLine
  <2> QED BY <1>1, <2>3, <2>5, RequestStep DEF Inv, ValuesOK
<1> QED BY <1>3, <1>4 DEF PingStep

-----------------------------------------------------------------------------
LEMMA InvInit == Init => Inv
<1> SUFFICES ASSUME Init PROVE Inv
  OBVIOUS
<1>1. /\ enabled \in BOOLEAN /\ given \subseteq Deps /\ phase = "streams" /\ line = <<>> /\ answer = "none"
      /\ state = [d \in Deps |-> IF d = "market_data" THEN "absent" ELSE "used"]
      /\ ping = [r \in Requests |-> Idle]
  BY DEF Init
<1>2. Idle \in [Deps -> Pings] /\ Idle["clickhouse"].pc = "none"
  <2>1. Ping("none", 1) \in Pings /\ Ping("none", 1).pc = "none"
    BY LifespanAssumption DEF Ping, Pings
  <2> QED BY <2>1 DEF Idle, Deps
<1>3. ValuesOK
  BY <1>1, <1>2 DEF ValuesOK, Phases, States
<1>4. LineOK
  BY <1>1, <1>2 DEF LineOK, InLine, Trying
<1>5. StateOK
  BY <1>1 DEF StateOK, Gone, Passed
<1> QED BY <1>3, <1>4, <1>5 DEF Inv

LEMMA InvNext == Inv /\ [Next]_vars => Inv'
<1> SUFFICES ASSUME Inv, [Next]_vars PROVE Inv'
  OBVIOUS
<1>1. CASE UNCHANGED vars
  BY <1>1 DEF vars, Inv, ValuesOK, LineOK, InLine, Trying, StateOK, Gone, Owned, Present, Passed
<1>2. CASE StreamsEnsured \/ EngineStarted \/ ShutdownBegins
  BY <1>2, StreamsStep
<1>3. ASSUME NEW d \in Deps, Stop(d) PROVE Inv'
  BY <1>3, StopStep
<1>4. ASSUME NEW r \in Requests, RequestArrives(r) \/ Answered(r) PROVE Inv'
  BY <1>4, ArrivesStep, AnsweredStep
<1>5. ASSUME NEW r \in Requests, NEW d \in Deps, PingStep(r, d) PROVE Inv'
  BY <1>5, PingsStep
<1> QED BY <1>1, <1>2, <1>3, <1>4, <1>5 DEF Next, StaysDown

LEMMA Invariance == Spec => []Inv
BY InvInit, InvNext, PTL DEF Spec

-----------------------------------------------------------------------------
(* The theorems. *)

\* The types hold, and the lock of ClickHouseClient is held or waited for
\* once by every request whose ping is not answered, and by no other.
THEOREM TypeCorrect == Spec => []TypeOK
<1>1. Inv => TypeOK
  <2> SUFFICES ASSUME Inv PROVE TypeOK
    OBVIOUS
  <2>1. ASSUME NEW r \in Requests
        PROVE  Cardinality({i \in 1..Len(line) : line[i] = r}) = IF Trying(r, "clickhouse") THEN 1 ELSE 0
    <3> DEFINE S == {i \in 1..Len(line) : line[i] = r}
    <3>1. InLine(r) <=> Trying(r, "clickhouse")
      BY DEF Inv, LineOK
    <3>2. CASE InLine(r)
      <4>1. PICK i \in 1..Len(line) : line[i] = r
        BY <3>2 DEF InLine
      <4>2. S = {i}
        BY <4>1 DEF Inv, LineOK
      <4>3. Cardinality({i}) = 1
        BY FS_Singleton
      <4> QED BY <3>1, <3>2, <4>2, <4>3
    <3>3. CASE ~InLine(r)
      <4>1. S = {}
        BY <3>3 DEF InLine
      <4>2. Cardinality({}) = 0
        BY FS_EmptySet
      <4> QED BY <3>1, <3>3, <4>1, <4>2
    <3> QED BY <3>2, <3>3
  <2> QED BY <2>1 DEF Inv, ValuesOK, TypeOK, Pings
<1> QED BY <1>1, Invariance, PTL

\* Whatever start(), stop() and close() raise, the application lets go of
\* the engine, of the bus and of ClickHouse in this order, of all it has
\* created and of nothing it was handed.
THEOREM LetsGoInOrder == Spec => []LetGoInOrder
<1>1. Inv => LetGoInOrder
  <2> SUFFICES ASSUME Inv PROVE LetGoInOrder
    OBVIOUS
  <2>1. \A d \in Deps : Gone(d) <=> Owned(d) /\ Passed(d)
    BY DEF Inv, StateOK
  <2>2. "redis" \in Deps /\ "market_data" \in Deps /\ given \subseteq Deps
    BY DEF Inv, ValuesOK, Deps
  <2>3. Passed("redis") => Passed("market_data")
    BY DEF Passed
  <2>4. \A d \in given : ~Owned(d)
    BY DEF Owned
  <2>5. phase = "down" => \A d \in Deps : Passed(d)
    BY DEF Passed
  <2> QED BY <2>1, <2>2, <2>3, <2>4, <2>5 DEF LetGoInOrder, Gone
<1> QED BY <1>1, Invariance, PTL
=============================================================================
