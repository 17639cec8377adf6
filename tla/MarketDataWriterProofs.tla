----------------------- MODULE MarketDataWriterProofs -----------------------
(***************************************************************************)
(* What the calls, threads and clients of the ClickHouse writer come to,   *)
(* for every number of attempts and connections: no client is forgotten    *)
(* open but the one of a late schema thread, and the copies of a batch     *)
(* that ClickHouse takes are bounded by the attempts.                      *)
(***************************************************************************)
EXTENDS MarketDataWriter, FiniteSetTheorems, SequenceTheorems, TLAPS

-----------------------------------------------------------------------------
(* The invariant. *)

ValuesOK ==
  /\ phase \in Phases /\ attempt \in 1..MaxAttempts
  /\ thread \in [Calls -> [pc : ThreadPcs, uses : Clients \cup {None}]]
  /\ client \in Clients \cup {None} /\ open \subseteq Clients
  /\ copies \in [Inserts -> Nat]
  /\ ended \in [call : Calls, how : Outcomes] \cup {None} /\ late \in BOOLEAN

\* The calls there may be in each phase.
CallsIn(p) ==
  CASE p = "starting" -> {"schema"}
    [] p \in {"running", "draining"} -> {"trades", "snapshots"}
    [] p \in {"final_trades", "final_snapshots"} -> {"final"}
    [] p = "close" -> {"close"}
    [] OTHER -> {}

LineOK ==
  /\ queue \in Seq(CallsIn(phase)) /\ \A i, j \in 1..Len(queue) : queue[i] = queue[j] => i = j
  /\ stage \in Stages /\ (stage = "free" <=> queue = <<>>)
  /\ stage \in {"connect", "return"} => Owner \in Inserts

Awaited(c) == queue # <<>> /\ Owner = c /\ stage = "await"

\* The threads that a timeout may have left behind.
LeftBehind(c) ==
  /\ ~Waits(c)
  /\ \/ c = "schema" /\ phase # "starting" /\ thread[c].pc \in {"check", "connect", "return", "run"}
     \/ /\ c \in {"trades", "snapshots"} /\ thread[c].pc = "run"
        /\ phase \in {"final_trades", "final_snapshots", "close", "stopped"}
     \/ c = "final" /\ thread[c].pc = "run" /\ phase \in {"close", "stopped"}

ThreadsOK ==
  /\ stage = "await" => thread[Owner].pc # "none"
  /\ \A c \in Calls : thread[c].pc # "none" => Awaited(c) \/ LeftBehind(c)
  /\ \A c \in Inserts : thread[c].pc \in {"none", "queued", "run", "ok", "failed"}
  /\ thread["close"].pc \in {"none", "queued", "run", "ok"}

\* How often ClickHouse may have taken the rows of a call in line, and that
\* a call which may still come starts from nothing.
Attempts(c) ==
  IF Owner # c \/ stage = "entering" THEN 0
  ELSE IF stage = "await" /\ thread[c].pc \in {"ok", "failed"} THEN attempt ELSE attempt - 1

CopiesOK ==
  \A c \in Inserts :
    /\ Waits(c) => copies[c] <= Attempts(c)
    /\ thread[c].pc = "ok" => copies[c] >= 1
    /\ thread[c].pc = "none" /\ ~Waits(c) => copies[c] = 0 \/ phase \in {"close", "stopped"}
         \/ (c # "final" /\ phase \in {"final_trades", "final_snapshots"})

\* The thread of a schema that nobody waits for may still create a client.
SchemaPending == thread["schema"].pc \in {"check", "connect"}

\* But for client x, at most the one that such a thread creates is open.
OnlyOpen(x) ==
  /\ ~late \/ SchemaPending => open \subseteq {x}
  /\ SchemaPending => late
  /\ \A a, b \in open \ {x} : a = b

ClientsOK ==
  /\ phase = "starting" =>
       ~late /\ open \subseteq {client} /\ (thread["schema"].pc = "connect" => client = None)
  /\ phase # "starting" => OnlyOpen(client)
  /\ stage = "connect" => OnlyOpen(None)
  /\ thread["close"].pc \in {"queued", "run"} => OnlyOpen(thread["close"].uses)
  /\ thread["close"].pc = "ok" => OnlyOpen(None)
  /\ phase = "stopped" \/ (phase = "close" /\ ended # None) => OnlyOpen(None)

Inv == ValuesOK /\ LineOK /\ ThreadsOK /\ CopiesOK /\ ClientsOK

-----------------------------------------------------------------------------
(* The line in front of the lock. *)

LEMMA LineFacts ==
  ASSUME ValuesOK, LineOK
  PROVE  /\ CallsIn(phase) \subseteq Calls
         /\ \A c : Waits(c) => c \in CallsIn(phase)
         /\ queue # <<>> => Owner \in CallsIn(phase) /\ Waits(Owner)
         /\ queue = <<>> => \A c : ~Waits(c)
         /\ stage = "await" => queue # <<>>
<1>1. CallsIn(phase) \subseteq Calls
  BY DEF CallsIn, Calls, Inserts
<1>2. queue \in Seq(CallsIn(phase)) /\ Len(queue) \in Nat
      /\ \A i \in 1..Len(queue) : queue[i] \in CallsIn(phase)
  BY LenProperties, ElementOfSeq DEF LineOK
<1>3. queue # <<>> => 1 \in 1..Len(queue) /\ Head(queue) = queue[1]
  BY <1>2, EmptySeq
<1>4. queue = <<>> => Len(queue) = 0
  BY EmptySeq
<1>5. stage = "await" => queue # <<>>
  BY DEF LineOK
<1> QED BY <1>1, <1>2, <1>3, <1>4, <1>5 DEF Waits, Owner

LEMMA LeaveLine ==
  ASSUME ValuesOK, LineOK, queue # <<>>, queue' = Tail(queue), phase' = phase,
         stage' = IF Tail(queue) = <<>> THEN "free" ELSE "entering"
  PROVE  LineOK' /\ \A c : Waits(c)' <=> Waits(c) /\ c # Owner
<1>1. /\ queue' \in Seq(CallsIn(phase)) /\ Len(queue') = Len(queue) - 1 /\ Len(queue) \in Nat
      /\ \A i \in 1..Len(queue') : queue'[i] = queue[i + 1]
      /\ Owner = queue[1] /\ 1 \in 1..Len(queue)
  BY HeadTailProperties, LenProperties, EmptySeq DEF LineOK, Owner
<1>2. \A i, j \in 1..Len(queue) : queue[i] = queue[j] => i = j
  BY DEF LineOK
<1>3. \A i \in 1..Len(queue') : i + 1 \in 1..Len(queue) /\ i + 1 # 1
  BY <1>1
<1>4. \A i, j \in 1..Len(queue') : queue'[i] = queue'[j] => i = j
  BY <1>1, <1>2, <1>3
<1>5. LineOK'
  BY <1>1, <1>4 DEF LineOK, Stages
<1>6. ASSUME NEW c PROVE Waits(c)' <=> Waits(c) /\ c # Owner
  <2>1. Waits(c)' => Waits(c) /\ c # Owner
    BY <1>1, <1>2, <1>3 DEF Waits
  <2>2. ASSUME NEW i \in 1..Len(queue), queue[i] = c, c # Owner PROVE Waits(c)'
    <3>1. i # 1 /\ i - 1 \in 1..Len(queue') /\ (i - 1) + 1 = i
      BY <1>1, <2>2
    <3> QED BY <1>1, <2>2, <3>1 DEF Waits
  <2> QED BY <2>1, <2>2 DEF Waits
<1> QED BY <1>5, <1>6

LEMMA JoinLine ==
  ASSUME ValuesOK, LineOK, NEW c \in CallsIn(phase), ~Waits(c), queue' = Append(queue, c)
  PROVE  /\ queue' \in Seq(CallsIn(phase)) /\ queue' # <<>>
         /\ \A i, j \in 1..Len(queue') : queue'[i] = queue'[j] => i = j
         /\ Head(queue') = IF queue = <<>> THEN c ELSE Owner
         /\ \A d : Waits(d)' <=> Waits(d) \/ d = c
<1>1. /\ queue' \in Seq(CallsIn(phase)) /\ queue' # <<>>
      /\ Len(queue') = Len(queue) + 1 /\ Len(queue) \in Nat
      /\ \A i \in 1..Len(queue) : queue'[i] = queue[i]
      /\ queue'[Len(queue) + 1] = c
  BY AppendProperties, LenProperties DEF LineOK
<1>2. \A i \in 1..Len(queue') : i \in 1..Len(queue) \/ i = Len(queue) + 1
  BY <1>1
<1>3. \A i \in 1..Len(queue) : i \in 1..Len(queue') /\ queue[i] # c
  BY <1>1 DEF Waits
<1>4. \A i, j \in 1..Len(queue) : queue[i] = queue[j] => i = j
  BY DEF LineOK
<1>5. \A i, j \in 1..Len(queue') : queue'[i] = queue'[j] => i = j
  <2> SUFFICES ASSUME NEW i \in 1..Len(queue'), NEW j \in 1..Len(queue'), queue'[i] = queue'[j]
               PROVE  i = j
    OBVIOUS
  <2> QED BY <1>1, <1>2, <1>3, <1>4
<1>6. Head(queue') = IF queue = <<>> THEN c ELSE Owner
  BY HeadTailAppend DEF LineOK, Owner
<1>7. \A d : Waits(d)' <=> Waits(d) \/ d = c
  <2>1. Len(queue) + 1 \in 1..Len(queue')
    BY <1>1
  <2> QED BY <1>1, <1>2, <1>3, <2>1 DEF Waits
<1> QED BY <1>1, <1>5, <1>6, <1>7

\* Which threads there are in a phase.
LEMMA ThreadFacts ==
  ASSUME Inv
  PROVE  /\ \A c \in Calls : Waits(c) /\ ~Awaited(c) => thread[c].pc = "none"
         /\ phase # "starting" => thread["schema"].pc \notin {"queued", "ok", "failed"}
         /\ phase = "starting" /\ stage # "await" => thread["schema"].pc = "none"
         /\ thread["close"].pc # "none" => phase = "close" /\ Awaited("close")
         /\ \A c \in Calls : Awaited(c) => Waits(c) /\ c \in CallsIn(phase)
         /\ \A c \in Calls : thread[c].pc # "none" /\ phase \in {"starting", "running", "draining"} =>
              c = "schema" \/ Awaited(c)
<1>1. \A c \in Calls : thread[c].pc # "none" => Awaited(c) \/ LeftBehind(c)
  BY DEF Inv, ThreadsOK
<1>2. \A c \in Calls : Awaited(c) => Waits(c) /\ c \in CallsIn(phase)
  BY LineFacts DEF Inv, Awaited
<1>3. "schema" \in Calls /\ "close" \in Calls
  BY DEF Calls
<1>4. \A c \in Calls : Waits(c) /\ ~Awaited(c) => thread[c].pc = "none"
  BY <1>1 DEF LeftBehind
<1>5. phase # "starting" => "schema" \notin CallsIn(phase)
  BY DEF CallsIn
<1>6. "close" \in CallsIn(phase) => phase = "close"
  BY DEF CallsIn
<1>7. phase # "starting" => thread["schema"].pc \notin {"queued", "ok", "failed"}
  BY <1>1, <1>2, <1>3, <1>5 DEF LeftBehind
<1>8. phase = "starting" /\ stage # "await" => thread["schema"].pc = "none"
  BY <1>1, <1>3 DEF LeftBehind, Awaited
<1>9. thread["close"].pc # "none" => phase = "close" /\ Awaited("close")
  BY <1>1, <1>2, <1>3, <1>6 DEF LeftBehind
<1>10. \A c \in Calls : thread[c].pc # "none" /\ phase \in {"starting", "running", "draining"} =>
              c = "schema" \/ Awaited(c)
  BY <1>1 DEF LeftBehind
<1> QED BY <1>2, <1>4, <1>7, <1>8, <1>9, <1>10

-----------------------------------------------------------------------------
(* An attempt begins. *)

LEMMA BeginStep ==
  ASSUME Inv, NEW c \in CallsIn(phase), Begin(c), stage # "await", thread[c].pc = "none",
         queue' \in Seq(CallsIn(phase)), queue' # <<>>, Head(queue') = c,
         \A i, j \in 1..Len(queue') : queue'[i] = queue'[j] => i = j,
         \A d : Waits(d)' <=> Waits(d) \/ d = c,
         \A d \in Inserts : Waits(d) /\ d # c => copies[d] = 0,
         attempt' \in 1..MaxAttempts, c \in Inserts => copies[c] <= attempt' - 1,
         UNCHANGED <<phase, client, open, copies, ended, late>>
  PROVE  Inv'
<1>0. c \in Calls /\ CallsIn(phase) \subseteq Calls /\ Inserts \subseteq Calls
  BY LineFacts DEF Inv, Calls
<1>1. \/ c \in Inserts /\ stage' = (IF client = None THEN "connect" ELSE "return") /\ thread' = thread
      \/ c \notin Inserts /\ stage' = "await" /\ thread' = [thread EXCEPT ![c] = Thread("queued", client)]
  BY DEF Begin
<1>2. /\ thread' \in [Calls -> [pc : ThreadPcs, uses : Clients \cup {None}]]
      /\ \A d \in Calls : d # c => thread'[d] = thread[d]
      /\ c \in Inserts => thread' = thread /\ stage' \in {"connect", "return"}
      /\ c \notin Inserts => stage' = "await" /\ thread'[c].pc = "queued" /\ thread'[c].uses = client
  <2>1. Thread("queued", client) \in [pc : ThreadPcs, uses : Clients \cup {None}]
        /\ Thread("queued", client).pc = "queued" /\ Thread("queued", client).uses = client
    BY DEF Thread, ThreadPcs, Inv, ValuesOK
  <2> QED BY <1>0, <1>1, <2>1 DEF Inv, ValuesOK
<1>3. ValuesOK'
  BY <1>2 DEF Inv, ValuesOK
<1>4. LineOK'
  BY <1>2 DEF LineOK, Stages, Owner
<1>5. \A d \in Calls : thread[d].pc # "none" => LeftBehind(d)
  BY DEF Inv, ThreadsOK, Awaited
<1>6. ThreadsOK'
  <2>1. Owner' = c
    BY DEF Owner
  <2>2. ASSUME NEW d \in Calls, d # c, thread'[d].pc # "none" PROVE LeftBehind(d)'
    <3>1. thread'[d] = thread[d] /\ LeftBehind(d)
      BY <1>2, <1>5, <2>2
    <3> QED BY <2>2, <3>1 DEF LeftBehind
  <2>3. thread'[c].pc # "none" => Awaited(c)'
    BY <1>2, <2>1 DEF Awaited
  <2>4. stage' = "await" => thread'[c].pc # "none"
    BY <1>2
  <2>5. \A d \in Inserts : thread'[d].pc \in {"none", "queued", "run", "ok", "failed"}
    BY <1>0, <1>2 DEF Inv, ThreadsOK
  <2>6. thread'["close"].pc \in {"none", "queued", "run", "ok"}
    BY <1>0, <1>2 DEF Inv, ThreadsOK, Calls
  <2> QED BY <2>1, <2>2, <2>3, <2>4, <2>5, <2>6 DEF ThreadsOK
<1>7. CopiesOK'
  <2> SUFFICES ASSUME NEW d \in Inserts
               PROVE  /\ Waits(d)' => copies[d] <= Attempts(d)'
                      /\ thread'[d].pc = "ok" => copies[d] >= 1
                      /\ thread'[d].pc = "none" /\ ~Waits(d)' => copies[d] = 0 \/ phase \in {"close", "stopped"}
                           \/ (d # "final" /\ phase \in {"final_trades", "final_snapshots"})
    BY DEF CopiesOK
  <2>1. thread'[d] = thread[d]
    BY <1>0, <1>2
  <2>2. Waits(d)' => copies[d] <= Attempts(d)'
    <3>1. CASE d = c
      <4>1. Attempts(d)' = attempt' - 1
        BY <1>2, <3>1 DEF Attempts, Owner
      <4> QED BY <3>1, <4>1
    <3>2. CASE d # c
      <4>1. Attempts(d)' = 0
        BY <3>2 DEF Attempts, Owner
      <4> QED BY <3>2, <4>1
    <3> QED BY <3>1, <3>2
  <2> QED BY <2>1, <2>2 DEF Inv, CopiesOK
<1>8. ClientsOK'
  <2>1. /\ thread["close"].pc = "none" \/ phase = "close"
        /\ phase = "starting" => c = "schema"
        /\ phase # "starting" => c # "schema"
        /\ "schema" \in Calls /\ "close" \in Calls
        /\ c \in Inserts => phase \notin {"starting", "close", "stopped"}
        /\ c = "close" => phase = "close"
        /\ phase = "close" => c = "close"
        /\ phase # "stopped"
    BY ThreadFacts DEF CallsIn, Calls, Inserts
  <2>2. phase' = "starting" =>
          /\ ~late' /\ open' \subseteq {client'}
          /\ thread'["schema"].pc = "connect" => client' = None
    <3> SUFFICES ASSUME phase = "starting"
                 PROVE  ~late /\ open \subseteq {client} /\ thread'["schema"].pc # "connect"
      OBVIOUS
    <3>1. c \notin Inserts /\ c = "schema"
      BY <2>1
    <3> QED BY <1>2, <3>1 DEF Inv, ClientsOK
  <2>3. \A x : phase # "starting" /\ OnlyOpen(x) => OnlyOpen(x)'
    BY <1>2, <2>1 DEF OnlyOpen, SchemaPending
  <2>4. phase # "starting" => OnlyOpen(client)
    BY DEF Inv, ClientsOK
  <2>5. stage' = "connect" => phase # "starting" /\ client = None
    BY <1>1, <2>1
  <2>6. phase = "close" => thread'["close"].pc = "queued" /\ thread'["close"].uses = client
    BY <1>2, <2>1 DEF Inserts
  <2>8. phase # "starting" => OnlyOpen(client)'
    BY <1>2, <2>1, <2>4 DEF OnlyOpen, SchemaPending
  <2>9. stage' = "connect" => OnlyOpen(None)'
    BY <2>3, <2>4, <2>5
  <2>10. thread'["close"].pc # "none" => phase = "close"
    BY <1>2, <2>1
  <2>11. phase = "close" => OnlyOpen(thread["close"].uses)'
    BY <2>6, <2>8 DEF OnlyOpen, SchemaPending
  <2>12. phase = "close" /\ ended # None => OnlyOpen(None)'
    BY <2>3 DEF Inv, ClientsOK
  <2>13. phase' = phase /\ ended' = ended
    OBVIOUS
  <2> QED BY <2>1, <2>2, <2>6, <2>8, <2>9, <2>10, <2>11, <2>12, <2>13 DEF ClientsOK
<1> QED BY <1>3, <1>4, <1>6, <1>7, <1>8 DEF Inv

LEMMA LineStep ==
  ASSUME Inv, Entered \/ BackoffOver
  PROVE  Inv'
<1>1. /\ queue # <<>> /\ stage # "await" /\ Begin(Owner)
      /\ UNCHANGED <<phase, queue, client, open, copies, ended, late>>
  BY DEF Entered, BackoffOver, Inv, LineOK
<1>2. Owner \in CallsIn(phase) /\ Owner \in Calls /\ Waits(Owner)
  BY <1>1, LineFacts DEF Inv
<1>3. thread[Owner].pc = "none"
  BY <1>1, <1>2, ThreadFacts DEF Awaited
<1>4. \A d \in Inserts : Waits(d) /\ d # Owner => copies[d] = 0
  BY DEF Inv, CopiesOK, Attempts, ValuesOK
<1>5. attempt' \in 1..MaxAttempts /\ (Owner \in Inserts => copies[Owner] <= attempt' - 1)
  <2>1. Owner \in Inserts =>
          /\ copies[Owner] <= (IF stage = "entering" THEN 0 ELSE attempt - 1)
          /\ copies[Owner] \in Nat
    BY <1>1, <1>2 DEF Inv, CopiesOK, Attempts, ValuesOK
  <2>2. attempt \in 1..MaxAttempts /\ MaxAttempts \in Nat \ {0}
    BY WriterAssumption DEF Inv, ValuesOK
  <2> QED BY <2>1, <2>2 DEF Entered, BackoffOver
<1>6. /\ queue' \in Seq(CallsIn(phase)) /\ queue' # <<>> /\ Head(queue') = Owner
      /\ \A i, j \in 1..Len(queue') : queue'[i] = queue'[j] => i = j
      /\ \A d : Waits(d)' <=> Waits(d) \/ d = Owner
  BY <1>1, <1>2 DEF Inv, LineOK, Owner, Waits
<1> DEFINE o == Owner
<1>7. /\ o \in CallsIn(phase) /\ Begin(o) /\ thread[o].pc = "none" /\ Head(queue') = o
      /\ \A d : Waits(d)' <=> Waits(d) \/ d = o
      /\ \A d \in Inserts : Waits(d) /\ d # o => copies[d] = 0
      /\ o \in Inserts => copies[o] <= attempt' - 1
  BY <1>1, <1>2, <1>3, <1>4, <1>5, <1>6
<1> HIDE DEF o
<1> QED BY <1>1, <1>5, <1>6, <1>7, BeginStep

-----------------------------------------------------------------------------
(* A call joins the line. *)

\* Nobody is left behind by a call that may still come.
LEMMA FreshCall ==
  ASSUME Inv, NEW c \in CallsIn(phase), ~Waits(c), phase # "starting"
  PROVE  /\ thread[c].pc = "none" /\ c \in Calls
         /\ c \in Inserts => copies[c] = 0
<1>1. c \in Calls /\ c # "schema"
  BY LineFacts DEF Inv, CallsIn
<1>2. ~Awaited(c)
  BY <1>1, ThreadFacts
<1>3. ~LeftBehind(c)
  BY <1>1 DEF LeftBehind, CallsIn
<1>4. thread[c].pc = "none"
  BY <1>1, <1>2, <1>3 DEF Inv, ThreadsOK
<1>5. c \in Inserts => copies[c] = 0
  BY <1>4 DEF Inv, CopiesOK, CallsIn, Inserts
<1> QED BY <1>1, <1>4, <1>5

LEMMA CallStep ==
  ASSUME Inv, NEW c \in CallsIn(phase), phase # "starting", Call(c), UNCHANGED phase
  PROVE  Inv' /\ \A d : Waits(d) => Waits(d)'
<1>1. ~Waits(c) /\ UNCHANGED <<client, open, copies, late>>
  BY DEF Call
<1>2. thread[c].pc = "none" /\ c \in Calls /\ (c \in Inserts => copies[c] = 0)
  BY <1>1, FreshCall
<1>3. CASE c = "close" /\ client = None
  <2>1. ended' = Ended(c, "returned") /\ UNCHANGED <<queue, stage, attempt, thread>>
    BY <1>3 DEF Call
  <2>2. ended' \in [call : Calls, how : Outcomes]
    BY <1>2, <2>1 DEF Ended, Outcomes
  <2>3. ValuesOK' /\ LineOK' /\ ThreadsOK' /\ CopiesOK'
    BY <1>1, <2>1, <2>2 DEF Inv, ValuesOK, LineOK, ThreadsOK, CopiesOK, LeftBehind, Awaited,
                            Owner, Waits, Attempts
  <2>4. ClientsOK'
    <3>1. OnlyOpen(None)
      BY <1>3 DEF Inv, ClientsOK
    <3> QED BY <1>1, <2>1, <3>1 DEF Inv, ClientsOK, OnlyOpen, SchemaPending
  <2> QED BY <2>1, <2>3, <2>4 DEF Inv, Waits
<1>4. CASE ~(c = "close" /\ client = None)
  <2>1. /\ queue' = Append(queue, c) /\ ended' = ended
        /\ IF queue = <<>> THEN Begin(c) /\ attempt' = 1 ELSE UNCHANGED <<stage, attempt, thread>>
    BY <1>4 DEF Call
  <2>2. /\ queue' \in Seq(CallsIn(phase)) /\ queue' # <<>>
        /\ \A i, j \in 1..Len(queue') : queue'[i] = queue'[j] => i = j
        /\ Head(queue') = IF queue = <<>> THEN c ELSE Owner
        /\ \A d : Waits(d)' <=> Waits(d) \/ d = c
    BY <1>1, <2>1, JoinLine DEF Inv
  <2>3. CASE queue = <<>>
    <3>1. Begin(c) /\ attempt' = 1 /\ Head(queue') = c /\ stage # "await"
      BY <2>1, <2>2, <2>3 DEF Inv, LineOK
    <3>2. \A d : ~Waits(d)
      BY <2>3, LineFacts DEF Inv
    <3>3. 1 \in 1..MaxAttempts /\ (c \in Inserts => copies[c] <= 1 - 1)
      BY <1>2, WriterAssumption
    <3>4. attempt' \in 1..MaxAttempts /\ (c \in Inserts => copies[c] <= attempt' - 1)
      BY <3>1, <3>3
    <3>5. \A d \in Inserts : Waits(d) /\ d # c => copies[d] = 0
      BY <3>2
    <3> QED BY <1>1, <1>2, <2>1, <2>2, <3>1, <3>4, <3>5, BeginStep
  <2>4. CASE queue # <<>>
    <3>1. UNCHANGED <<stage, attempt, thread>> /\ Owner' = Owner /\ c # Owner
      <4>1. Waits(Owner)
        BY <2>4, LineFacts DEF Inv
      <4> QED BY <1>1, <2>1, <2>2, <2>4, <4>1 DEF Owner
    <3>2. ValuesOK'
      BY <1>1, <2>1, <3>1 DEF Inv, ValuesOK
    <3>3. LineOK'
      BY <2>2, <2>4, <3>1 DEF Inv, LineOK
    <3>4. ThreadsOK'
      <4>1. \A d \in Calls : Awaited(d) => Awaited(d)'
        BY <2>2, <3>1 DEF Awaited
      <4>2. \A d \in Calls : thread[d].pc # "none" /\ LeftBehind(d) => LeftBehind(d)'
        BY <1>2, <2>2, <3>1 DEF LeftBehind
      <4> QED BY <3>1, <4>1, <4>2 DEF Inv, ThreadsOK
    <3>5. CopiesOK'
      <4>1. \A d \in Inserts : Attempts(d)' = Attempts(d)
        BY <3>1 DEF Attempts
      <4>2. c \in Inserts => Attempts(c) = 0
        BY <3>1 DEF Attempts
      <4> QED BY <1>1, <1>2, <2>2, <3>1, <4>1, <4>2 DEF Inv, CopiesOK
    <3>6. ClientsOK'
      BY <1>1, <2>1, <3>1 DEF Inv, ClientsOK, OnlyOpen, SchemaPending
    <3> QED BY <2>2, <3>2, <3>3, <3>4, <3>5, <3>6 DEF Inv
  <2> QED BY <2>2, <2>3, <2>4
<1> QED BY <1>3, <1>4

-----------------------------------------------------------------------------
(* The owner of the lock. *)

\* An insert that has returned has stored its rows, and none has stored
\* them more often than it has tried.
Accounted ==
  \A c \in Inserts :
    Waits(c) /\ ~Waits(c)' =>
      /\ copies[c] <= MaxAttempts
      /\ ended' = Ended(c, "returned") => copies[c] >= 1

LEMMA WithinAttempts ==
  ASSUME Inv, NEW c \in Inserts, Waits(c)
  PROVE  copies[c] \in Nat /\ copies[c] <= MaxAttempts /\ copies[c] <= Attempts(c)
<1>1. copies[c] \in Nat /\ copies[c] <= Attempts(c)
  BY DEF Inv, ValuesOK, CopiesOK
<1>2. attempt \in 1..MaxAttempts /\ MaxAttempts \in Nat
  BY WriterAssumption DEF Inv, ValuesOK
<1>3. Attempts(c) <= MaxAttempts /\ Attempts(c) \in Nat
  BY <1>2 DEF Attempts
<1> QED BY <1>1, <1>2, <1>3

\* The call of the owner is over, and its thread too.
LEMMA LeaveStep ==
  ASSUME Inv, queue # <<>>, NEW how \in Outcomes, Leave(how),
         NEW o, o = Owner,
         thread' \in [Calls -> [pc : ThreadPcs, uses : Clients \cup {None}]],
         thread'[o].pc = "none", \A d \in Calls : d # o => thread'[d] = thread[d],
         client' \in Clients \cup {None},
         IF o = "close" THEN client' = None /\ OnlyOpen(None) ELSE client' = client,
         o \in Inserts /\ how = "returned" => copies[o] >= 1,
         UNCHANGED <<phase, attempt, open, late>>
  PROVE  Inv' /\ Accounted
<1>1. /\ ended' = Ended(o, how) /\ queue' = Tail(queue)
      /\ copies' = [c \in Inserts |-> IF c = o THEN 0 ELSE copies[c]]
      /\ stage' = IF Tail(queue) = <<>> THEN "free" ELSE "entering"
  BY DEF Leave
<1>2. o \in CallsIn(phase) /\ o \in Calls /\ Waits(o)
  BY LineFacts DEF Inv
<1>3. LineOK' /\ (\A c : Waits(c)' <=> Waits(c) /\ c # o) /\ stage' \in {"free", "entering"}
  BY <1>1, LeaveLine DEF Inv
<1>4. ended' \in [call : Calls, how : Outcomes] /\ ended' # None
  BY <1>1, <1>2, NoneAssumption DEF Ended
<1>5. ValuesOK'
  BY <1>1, <1>4 DEF Inv, ValuesOK
<1>6. ThreadsOK'
  <2>1. ASSUME NEW d \in Calls, thread'[d].pc # "none" PROVE LeftBehind(d)'
    <3>1. d # o /\ thread'[d] = thread[d]
      BY <2>1
    <3>2. LeftBehind(d)
      BY <2>1, <3>1 DEF Inv, ThreadsOK, Awaited
    <3> QED BY <1>3, <3>1, <3>2 DEF LeftBehind
  <2>2. \A d \in Inserts : thread'[d].pc \in {"none", "queued", "run", "ok", "failed"}
    BY DEF Inv, ThreadsOK, Calls
  <2>3. thread'["close"].pc \in {"none", "queued", "run", "ok"}
    BY DEF Inv, ThreadsOK, Calls
  <2> QED BY <1>3, <2>1, <2>2, <2>3 DEF ThreadsOK
<1>7. CopiesOK'
  <2> SUFFICES ASSUME NEW d \in Inserts
               PROVE  /\ Waits(d)' => copies'[d] <= Attempts(d)'
                      /\ thread'[d].pc = "ok" => copies'[d] >= 1
                      /\ thread'[d].pc = "none" /\ ~Waits(d)' =>
                           copies'[d] = 0 \/ phase \in {"close", "stopped"}
                             \/ (d # "final" /\ phase \in {"final_trades", "final_snapshots"})
    BY DEF CopiesOK
  <2>1. copies'[d] = IF d = o THEN 0 ELSE copies[d]
    BY <1>1
  <2>2. CASE d = o
    BY <1>3, <2>1, <2>2 DEF Inv, ValuesOK
  <2>3. CASE d # o
    <3>1. thread'[d] = thread[d] /\ copies'[d] = copies[d] /\ d \in Calls /\ copies[d] \in Nat
      BY <2>1, <2>3 DEF Calls, Inv, ValuesOK
    <3>2. Waits(d) => copies[d] <= 0
      BY <2>3 DEF Inv, CopiesOK, Attempts
    <3>3. Waits(d)' => copies'[d] <= Attempts(d)'
      <4>1. Attempts(d)' \in {0, attempt - 1} \/ stage' = "await"
        BY DEF Attempts
      <4>2. attempt - 1 >= 0
        BY WriterAssumption DEF Inv, ValuesOK
      <4>3. 0 <= Attempts(d)'
        BY <1>3, <4>1, <4>2
      <4> QED BY <1>3, <3>1, <3>2, <4>1, <4>2, <4>3
    <3> QED BY <1>3, <2>3, <3>1, <3>3 DEF Inv, CopiesOK
  <2> QED BY <2>2, <2>3
<1>8. ClientsOK'
  <2>1. /\ thread["close"].pc = "none" \/ phase = "close"
        /\ phase = "starting" => o = "schema"
        /\ phase # "starting" => o # "schema"
        /\ o = "close" <=> phase = "close"
        /\ phase # "stopped" /\ "schema" \in Calls /\ "close" \in Calls
    BY <1>2, ThreadFacts DEF CallsIn, Calls
  <2>2. phase = "starting" =>
          /\ ~late' /\ open' \subseteq {client'}
          /\ thread'["schema"].pc = "none"
    BY <2>1 DEF Inv, ClientsOK
  <2>3. \A x : phase # "starting" /\ OnlyOpen(x) => OnlyOpen(x)'
    BY <2>1 DEF OnlyOpen, SchemaPending
  <2>4. phase # "starting" => OnlyOpen(client)'
    <3>1. CASE o = "close"
      BY <2>1, <2>3, <3>1 DEF OnlyOpen, SchemaPending
    <3>2. CASE o # "close"
      BY <2>1, <3>2 DEF Inv, ClientsOK, OnlyOpen, SchemaPending
    <3> QED BY <3>1, <3>2
  <2>5. thread'["close"].pc = "none"
    BY <2>1
  <2>6. phase = "close" => OnlyOpen(None)'
    BY <2>1, <2>3
  <2> QED BY <1>3, <2>1, <2>2, <2>4, <2>5, <2>6 DEF ClientsOK
<1>9. Accounted
  <2> SUFFICES ASSUME NEW c \in Inserts, Waits(c), ~Waits(c)'
               PROVE  /\ copies[c] <= MaxAttempts
                      /\ ended' = Ended(c, "returned") => copies[c] >= 1
    BY DEF Accounted
  <2>1. c = o
    BY <1>3
  <2>2. ended' = Ended(c, "returned") => how = "returned"
    BY <1>1, <2>1 DEF Ended
  <2> QED BY <2>1, <2>2, WithinAttempts
<1> QED BY <1>3, <1>5, <1>6, <1>7, <1>8, <1>9 DEF Inv

\* An attempt has failed.
LEMMA RaisedStep ==
  ASSUME Inv, queue # <<>>, stage \in {"connect", "await"}, Raised,
         NEW o, o = Owner, o # "close",
         thread' \in [Calls -> [pc : ThreadPcs, uses : Clients \cup {None}]],
         thread'[o].pc = "none", \A d \in Calls : d # o => thread'[d] = thread[d],
         UNCHANGED <<phase, client, open, late>>
  PROVE  Inv' /\ Accounted
<1>1. o \in CallsIn(phase) /\ o \in Calls /\ Waits(o)
  BY LineFacts DEF Inv
<1>2. CASE attempt < MaxAttempts
  <2>1. stage' = "backoff" /\ attempt' = attempt + 1 /\ UNCHANGED <<queue, copies, ended>>
    BY <1>2 DEF Raised
  <2>2. ValuesOK'
    BY <1>2, <2>1, WriterAssumption DEF Inv, ValuesOK
  <2>3. LineOK'
    BY <2>1 DEF Inv, LineOK, Stages
  <2>4. ThreadsOK'
    <3>1. ASSUME NEW d \in Calls, thread'[d].pc # "none" PROVE LeftBehind(d)'
      <4>1. d # o /\ thread'[d] = thread[d]
        BY <3>1
      <4>2. LeftBehind(d)
        BY <3>1, <4>1 DEF Inv, ThreadsOK, Awaited
      <4> QED BY <2>1, <4>1, <4>2 DEF LeftBehind, Waits
    <3>2. \A d \in Inserts : thread'[d].pc \in {"none", "queued", "run", "ok", "failed"}
      BY DEF Inv, ThreadsOK, Calls
    <3>3. thread'["close"].pc \in {"none", "queued", "run", "ok"}
      BY DEF Inv, ThreadsOK, Calls
    <3> QED BY <2>1, <3>1, <3>2, <3>3 DEF ThreadsOK
  <2>5. CopiesOK'
    <3> SUFFICES ASSUME NEW d \in Inserts
                 PROVE  /\ Waits(d) => copies[d] <= Attempts(d)'
                        /\ thread'[d].pc = "ok" => copies[d] >= 1
                        /\ thread'[d].pc = "none" /\ ~Waits(d) => copies[d] = 0 \/ phase \in {"close", "stopped"}
                             \/ (d # "final" /\ phase \in {"final_trades", "final_snapshots"})
      BY <2>1 DEF CopiesOK, Waits
    <3>1. CASE d = o
      <4>1. Attempts(d)' = attempt /\ attempt \in Nat /\ copies[d] \in Nat
        BY <2>1, <3>1, WriterAssumption DEF Attempts, Owner, Inv, ValuesOK
      <4>2. copies[d] <= Attempts(d) /\ Attempts(d) <= attempt /\ Attempts(d) \in Int
        BY <1>1, <3>1, <4>1, WithinAttempts DEF Attempts, Inv, ValuesOK
      <4>3. copies[d] <= attempt
        BY <4>1, <4>2
      <4> QED BY <1>1, <3>1, <4>1, <4>3
    <3>2. CASE d # o
      <4>1. thread'[d] = thread[d] /\ Attempts(d)' = 0 /\ Attempts(d) = 0
        BY <2>1, <3>2 DEF Attempts, Owner, Calls
      <4> QED BY <4>1 DEF Inv, CopiesOK
    <3> QED BY <3>1, <3>2
  <2>6. ClientsOK'
    <3>1. /\ thread["close"].pc = "none" \/ phase = "close"
          /\ phase = "starting" => o = "schema"
          /\ phase # "starting" => o # "schema"
          /\ phase # "close" /\ phase # "stopped" /\ "schema" \in Calls /\ "close" \in Calls
      BY <1>1, ThreadFacts DEF CallsIn, Calls
    <3>2. phase = "starting" => ~late /\ open \subseteq {client} /\ thread'["schema"].pc = "none"
      BY <3>1 DEF Inv, ClientsOK
    <3>3. phase # "starting" => OnlyOpen(client)'
      BY <3>1 DEF Inv, ClientsOK, OnlyOpen, SchemaPending
    <3>4. thread'["close"].pc = "none"
      BY <3>1
    <3> QED BY <2>1, <3>1, <3>2, <3>3, <3>4 DEF ClientsOK
  <2>7. Accounted
    BY <2>1 DEF Accounted, Waits
  <2> QED BY <2>2, <2>3, <2>4, <2>5, <2>6, <2>7 DEF Inv
<1>3. CASE ~(attempt < MaxAttempts)
  <2>1. Leave("raised") /\ attempt' = attempt
    BY <1>3 DEF Raised
  <2>2. "raised" \in Outcomes /\ "raised" # "returned"
    BY DEF Outcomes
  <2>3. client' \in Clients \cup {None}
        /\ IF o = "close" THEN client' = None /\ OnlyOpen(None) ELSE client' = client
    BY DEF Inv, ValuesOK
  <2> QED BY <2>1, <2>2, <2>3, LeaveStep
<1> QED BY <1>2, <1>3

\* What a thread that is over leaves.
LEMMA NoThreadFacts ==
  ASSUME ValuesOK, NEW c \in Calls, thread' = [thread EXCEPT ![c] = NoThread]
  PROVE  /\ thread' \in [Calls -> [pc : ThreadPcs, uses : Clients \cup {None}]]
         /\ thread'[c].pc = "none" /\ \A d \in Calls : d # c => thread'[d] = thread[d]
<1>1. NoThread \in [pc : ThreadPcs, uses : Clients \cup {None}] /\ NoThread.pc = "none"
  BY DEF NoThread, Thread, ThreadPcs
<1> QED BY <1>1 DEF ValuesOK

LEMMA AnsweredStep == Inv /\ Answered => Inv' /\ Accounted
<1> SUFFICES ASSUME Inv, Answered PROVE Inv' /\ Accounted
  OBVIOUS
<1>1. /\ stage = "await" /\ queue # <<>> /\ Owner \in Calls
      /\ thread[Owner].pc \in {"ok", "failed"} /\ UNCHANGED <<phase, open, late>>
      /\ thread' = [thread EXCEPT ![Owner] = NoThread]
  BY LineFacts DEF Inv, Answered
<1> DEFINE o == Owner
<1>2. /\ thread' \in [Calls -> [pc : ThreadPcs, uses : Clients \cup {None}]]
      /\ thread'[o].pc = "none" /\ \A d \in Calls : d # o => thread'[d] = thread[d]
      /\ o = Owner /\ o \in Calls
  BY <1>1, NoThreadFacts DEF Inv
<1>3. CASE thread[Owner].pc = "ok"
  <2>1. Leave("returned") /\ attempt' = attempt /\ "returned" \in Outcomes
        /\ client' = IF o = "close" THEN None ELSE client
    BY <1>3 DEF Answered, Outcomes
  <2>2. client' \in Clients \cup {None}
        /\ IF o = "close" THEN client' = None /\ OnlyOpen(None) ELSE client' = client
    BY <1>3, <2>1 DEF Inv, ValuesOK, ClientsOK
  <2>3. o \in Inserts => copies[o] >= 1
    BY <1>3 DEF Inv, CopiesOK
  <2> HIDE DEF o
  <2> QED BY <1>1, <1>2, <2>1, <2>2, <2>3, LeaveStep
<1>4. CASE thread[Owner].pc # "ok"
  <2>1. Raised /\ client' = client
    BY <1>4 DEF Answered
  <2>2. o # "close"
    BY <1>1, <1>4 DEF Inv, ThreadsOK
  <2> HIDE DEF o
  <2> QED BY <1>1, <1>2, <2>1, <2>2, RaisedStep
<1> QED BY <1>3, <1>4

LEMMA NotConnectedStep == Inv /\ NotConnected => Inv' /\ Accounted
<1> SUFFICES ASSUME Inv, NotConnected PROVE Inv' /\ Accounted
  OBVIOUS
<1>1. /\ stage = "connect" /\ queue # <<>> /\ Raised
      /\ UNCHANGED <<phase, thread, client, open, late>>
  BY DEF Inv, LineOK, NotConnected
<1> DEFINE o == Owner
<1>2. o \in Calls /\ Waits(o) /\ o \in Inserts /\ o = Owner
  BY <1>1, LineFacts DEF Inv, LineOK
<1>3. thread'[o].pc = "none" /\ o # "close"
  BY <1>1, <1>2, ThreadFacts DEF Awaited, Inserts
<1>4. thread' \in [Calls -> [pc : ThreadPcs, uses : Clients \cup {None}]]
      /\ \A d \in Calls : d # o => thread'[d] = thread[d]
  BY <1>1 DEF Inv, ValuesOK
<1> HIDE DEF o
<1> QED BY <1>1, <1>2, <1>3, <1>4, RaisedStep

\* A client is created where none was open but that of a pending schema.
LEMMA ConnectedStep == Inv /\ Connected => Inv'
<1> SUFFICES ASSUME Inv, Connected PROVE Inv'
  OBVIOUS
<1>1. PICK new \in Fresh : client' = new /\ open' = open \cup {new}
  BY DEF Connected, Create
<1>2. /\ stage = "connect" /\ stage' = "return"
      /\ UNCHANGED <<phase, queue, attempt, thread, copies, ended, late>>
  BY DEF Connected
<1>3. new \in Clients /\ new \notin open
  BY DEF Fresh
<1>4. ValuesOK'
  BY <1>1, <1>2, <1>3 DEF Inv, ValuesOK
<1>5. LineOK'
  BY <1>2 DEF Inv, LineOK, Stages, Owner
<1>6. ThreadsOK'
  BY <1>2 DEF Inv, ThreadsOK, Awaited, LeftBehind, Owner, Waits
<1>7. \A c : Attempts(c)' = Attempts(c)
  BY <1>2 DEF Attempts, Owner
<1>8. CopiesOK'
  BY <1>2, <1>7 DEF Inv, CopiesOK, Waits
<1>9. ClientsOK'
  <2>1. queue # <<>> /\ Owner \in CallsIn(phase) /\ Owner \in Inserts
    BY <1>2, LineFacts DEF Inv, LineOK
  <2>2. phase \notin {"starting", "close", "stopped"}
    BY <2>1 DEF CallsIn, Inserts
  <2>3. OnlyOpen(None) /\ None \notin Clients /\ open \subseteq Clients
    BY <1>2, WriterAssumption DEF Inv, ClientsOK, ValuesOK
  <2>4. OnlyOpen(new)'
    BY <1>1, <1>2, <2>3 DEF OnlyOpen, SchemaPending
  <2>5. thread["close"].pc = "none"
    BY <2>2, ThreadFacts
  <2> QED BY <1>1, <1>2, <2>2, <2>4, <2>5 DEF ClientsOK
<1> QED BY <1>4, <1>5, <1>6, <1>8, <1>9 DEF Inv

LEMMA SubmittedStep == Inv /\ Submitted => Inv'
<1> SUFFICES ASSUME Inv, Submitted PROVE Inv'
  OBVIOUS
<1>1. /\ stage = "return" /\ stage' = "await" /\ queue # <<>>
      /\ thread' = [thread EXCEPT ![Owner] = Thread("queued", client)]
      /\ UNCHANGED <<phase, queue, attempt, client, open, copies, ended, late>>
  BY DEF Inv, LineOK, Submitted
<1>2. Owner \in Calls /\ Waits(Owner) /\ Owner \in CallsIn(phase) /\ Owner \in Inserts
  BY <1>1, LineFacts DEF Inv, LineOK
<1>3. phase \notin {"starting", "close", "stopped"} /\ Owner \notin {"schema", "close"}
  BY <1>2 DEF CallsIn, Inserts
<1>4. Thread("queued", client) \in [pc : ThreadPcs, uses : Clients \cup {None}]
      /\ Thread("queued", client).pc = "queued"
  BY DEF Thread, ThreadPcs, Inv, ValuesOK
<1>5. /\ thread' \in [Calls -> [pc : ThreadPcs, uses : Clients \cup {None}]]
      /\ thread'[Owner].pc = "queued" /\ \A d \in Calls : d # Owner => thread'[d] = thread[d]
      /\ "schema" \in Calls /\ "close" \in Calls /\ Inserts \subseteq Calls
  BY <1>1, <1>2, <1>4 DEF Inv, ValuesOK, Calls
<1>6. ValuesOK'
  BY <1>1, <1>5 DEF Inv, ValuesOK
<1>7. LineOK'
  BY <1>1 DEF Inv, LineOK, Stages, Owner
<1>8. ThreadsOK'
  <2>1. ASSUME NEW d \in Calls, thread'[d].pc # "none" PROVE Awaited(d)' \/ LeftBehind(d)'
    <3>1. CASE d = Owner
      BY <1>1, <3>1 DEF Awaited, Owner
    <3>2. CASE d # Owner
      <4>1. LeftBehind(d)
        BY <1>1, <1>5, <2>1, <3>2 DEF Inv, ThreadsOK, Awaited
      <4> QED BY <1>1, <1>5, <3>2, <4>1 DEF LeftBehind, Waits
    <3> QED BY <3>1, <3>2
  <2>2. stage' = "await" => thread'[Owner'].pc # "none"
    BY <1>1, <1>5 DEF Owner
  <2>3. \A d \in Inserts : thread'[d].pc \in {"none", "queued", "run", "ok", "failed"}
    BY <1>5 DEF Inv, ThreadsOK
  <2>4. thread'["close"].pc \in {"none", "queued", "run", "ok"}
    BY <1>3, <1>5 DEF Inv, ThreadsOK
  <2> QED BY <2>1, <2>2, <2>3, <2>4 DEF ThreadsOK
<1>9. CopiesOK'
  <2> SUFFICES ASSUME NEW d \in Inserts
               PROVE  /\ Waits(d) => copies[d] <= Attempts(d)'
                      /\ thread'[d].pc = "ok" => copies[d] >= 1
                      /\ thread'[d].pc = "none" /\ ~Waits(d) => copies[d] = 0 \/ phase \in {"close", "stopped"}
                           \/ (d # "final" /\ phase \in {"final_trades", "final_snapshots"})
    BY <1>1 DEF CopiesOK, Waits
  <2>1. Attempts(d)' = Attempts(d)
    BY <1>1, <1>5 DEF Attempts, Owner
  <2> QED BY <1>2, <1>5, <2>1 DEF Inv, CopiesOK
<1>10. ClientsOK'
  <2>1. OnlyOpen(client) /\ thread["close"].pc = "none"
    BY <1>3, ThreadFacts DEF Inv, ClientsOK
  <2>2. OnlyOpen(client)'
    BY <1>1, <1>3, <1>5, <2>1 DEF OnlyOpen, SchemaPending
  <2> QED BY <1>1, <1>3, <1>5, <2>1, <2>2 DEF ClientsOK
<1> QED BY <1>6, <1>7, <1>8, <1>9, <1>10 DEF Inv

LEMMA OwnerSteps == Inv /\ OwnerStep => Inv' /\ Accounted
<1> SUFFICES ASSUME Inv, OwnerStep PROVE Inv' /\ Accounted
  OBVIOUS
<1>1. CASE Entered \/ BackoffOver
  BY <1>1, LineStep DEF Entered, BackoffOver, Accounted, Waits
<1>2. CASE Answered
  BY <1>2, AnsweredStep
<1>3. CASE Connected
  BY <1>3, ConnectedStep DEF Connected, Accounted, Waits
<1>4. CASE NotConnected
  BY <1>4, NotConnectedStep
<1>5. CASE Submitted
  BY <1>5, SubmittedStep DEF Submitted, Accounted, Waits
<1> QED BY <1>1, <1>2, <1>3, <1>4, <1>5 DEF OwnerStep

-----------------------------------------------------------------------------
(* The worker threads. *)

\* Only the thread of call c has moved.
MovedOnly(c) ==
  /\ thread' \in [Calls -> [pc : ThreadPcs, uses : Clients \cup {None}]]
  /\ \A d \in Calls : d # c => thread'[d] = thread[d]
  /\ thread[c].pc # "none"
  /\ Awaited(c) => thread'[c].pc # "none"
  /\ ~Awaited(c) /\ thread'[c].pc # "none" => c # "close" /\ thread'[c].pc \in {"check", "connect", "return", "run"}
  /\ c \in Inserts => thread'[c].pc \in {"none", "run", "ok", "failed"}
  /\ c = "close" => thread'[c].pc \in {"run", "ok"}
  /\ UNCHANGED <<phase, queue, stage, attempt, ended, late>>

LEMMA MoveStep ==
  ASSUME Inv, NEW c \in Calls, MovedOnly(c),
         copies' \in [Inserts -> Nat], \A d \in Inserts : d # c => copies'[d] = copies[d],
         c \in Inserts /\ Awaited(c) => copies'[c] <= Attempts(c)',
         c \in Inserts /\ thread'[c].pc = "ok" => copies'[c] >= 1,
         client' \in Clients \cup {None}, open' \subseteq Clients, ClientsOK'
  PROVE  Inv'
<1>1. ValuesOK'
  BY DEF MovedOnly, Inv, ValuesOK
<1>2. LineOK'
  BY DEF MovedOnly, Inv, LineOK, Owner
<1>3. Awaited(c) \/ LeftBehind(c)
  BY DEF MovedOnly, Inv, ThreadsOK
<1>4. \A d \in Calls : Awaited(d)' = Awaited(d) /\ Waits(d)' = Waits(d)
  BY DEF MovedOnly, Awaited, Owner, Waits
<1>5. ThreadsOK'
  <2>1. ASSUME NEW d \in Calls, thread'[d].pc # "none" PROVE Awaited(d)' \/ LeftBehind(d)'
    <3>1. CASE d = c
      <4>1. CASE Awaited(c)
        BY <1>4, <3>1, <4>1
      <4>2. CASE ~Awaited(c)
        <5>1. LeftBehind(c) /\ c # "close" /\ thread'[c].pc \in {"check", "connect", "return", "run"}
          BY <1>3, <2>1, <3>1, <4>2 DEF MovedOnly
        <5>2. c \in Inserts => thread'[c].pc = "run"
          BY <5>1 DEF MovedOnly
        <5> QED BY <1>4, <3>1, <5>1, <5>2 DEF LeftBehind, MovedOnly, Inserts
      <4> QED BY <4>1, <4>2
    <3>2. CASE d # c
      <4>1. thread'[d] = thread[d] /\ (Awaited(d) \/ LeftBehind(d))
        BY <2>1, <3>2 DEF MovedOnly, Inv, ThreadsOK
      <4> QED BY <1>4, <4>1 DEF LeftBehind, MovedOnly
    <3> QED BY <3>1, <3>2
  <2>2. stage' = "await" => thread'[Owner'].pc # "none"
    <3>1. stage = "await" => Owner \in Calls /\ thread[Owner].pc # "none" /\ queue # <<>>
      BY LineFacts DEF Inv, ThreadsOK
    <3>2. stage' = stage /\ Owner' = Owner
      BY DEF MovedOnly, Owner
    <3>3. stage = "await" /\ Owner = c => thread'[c].pc # "none"
      BY <3>1 DEF MovedOnly, Awaited
    <3> QED BY <3>1, <3>2, <3>3 DEF MovedOnly
  <2>3. \A d \in Inserts : thread'[d].pc \in {"none", "queued", "run", "ok", "failed"}
    BY DEF Inv, ThreadsOK, MovedOnly, Calls
  <2>4. thread'["close"].pc \in {"none", "queued", "run", "ok"}
    BY DEF Inv, ThreadsOK, MovedOnly, Calls
  <2> QED BY <2>1, <2>2, <2>3, <2>4 DEF ThreadsOK
<1>6. CopiesOK'
  <2> SUFFICES ASSUME NEW d \in Inserts
               PROVE  /\ Waits(d) => copies'[d] <= Attempts(d)'
                      /\ thread'[d].pc = "ok" => copies'[d] >= 1
                      /\ thread'[d].pc = "none" /\ ~Waits(d) =>
                           copies'[d] = 0 \/ phase \in {"close", "stopped"}
                             \/ (d # "final" /\ phase \in {"final_trades", "final_snapshots"})
    BY <1>4 DEF CopiesOK, MovedOnly, Calls
  <2>1. CASE d = c
    <3>1. Waits(c) => Awaited(c)
      BY ThreadFacts DEF MovedOnly
    <3>2. ~Waits(c) => phase \in {"close", "stopped"}
                         \/ (c # "final" /\ phase \in {"final_trades", "final_snapshots"})
      <4>1. ~Waits(c) => LeftBehind(c)
        BY <1>3, ThreadFacts
      <4> QED BY <2>1, <4>1 DEF LeftBehind, Inserts
    <3> QED BY <2>1, <3>1, <3>2
  <2>2. CASE d # c
    <3>1. thread'[d] = thread[d] /\ copies'[d] = copies[d]
      BY <2>2 DEF MovedOnly, Calls
    <3>2. Attempts(d)' = Attempts(d)
      BY <3>1 DEF Attempts, MovedOnly, Owner
    <3> QED BY <3>1, <3>2 DEF Inv, CopiesOK
  <2> QED BY <2>1, <2>2
<1> QED BY <1>1, <1>2, <1>5, <1>6 DEF Inv

\* The clients are none of the step's business.
LEMMA QuietClients ==
  ASSUME Inv, NEW c \in Calls, MovedOnly(c), UNCHANGED <<client, open>>,
         thread'["schema"].pc = "connect" => thread["schema"].pc = "connect" \/ client = None,
         phase # "starting" => (SchemaPending' => SchemaPending),
         c = "close" => thread'[c].pc = "run" /\ thread'[c].uses = thread[c].uses
                         /\ thread[c].pc \in {"queued", "run"}
  PROVE  ClientsOK'
<1>1. phase' = phase /\ stage' = stage /\ ended' = ended /\ late' = late /\ "close" \in Calls
  BY DEF MovedOnly, Calls
<1>2. \A x : phase # "starting" /\ OnlyOpen(x) => OnlyOpen(x)'
  BY <1>1 DEF OnlyOpen
<1>3. stage = "connect" => phase # "starting"
  <2>1. stage = "connect" => Owner \in Inserts /\ Owner \in CallsIn(phase)
    BY LineFacts DEF Inv, LineOK
  <2> QED BY <2>1 DEF CallsIn, Inserts
<1>4. thread["close"].pc # "none" => phase = "close"
  BY ThreadFacts
<1>5. /\ thread'["close"].pc # "none" => thread["close"].pc # "none"
      /\ thread'["close"].pc \in {"queued", "run"} =>
           thread["close"].pc \in {"queued", "run"} /\ thread'["close"].uses = thread["close"].uses
      /\ thread'["close"].pc = "ok" => thread["close"].pc = "ok"
  BY <1>1 DEF MovedOnly
<1> QED BY <1>1, <1>2, <1>3, <1>4, <1>5 DEF Inv, ClientsOK

\* A request has ended, with an answer for the call that awaits it.
LEMMA EndsFacts ==
  ASSUME Inv, NEW c \in Calls, thread[c].pc # "none", NEW how \in {"ok", "failed"}, Ends(c, how),
         c = "close" => how = "ok",
         UNCHANGED <<phase, queue, stage, attempt, ended, late>>
  PROVE  /\ MovedOnly(c)
         /\ thread'[c].pc = IF Awaited(c) THEN how ELSE "none"
<1>1. Abandoned(c) <=> ~Awaited(c)
  BY LineFacts DEF Abandoned, Awaited, Inv
<1>2. /\ thread' = [thread EXCEPT ![c] = IF Awaited(c) THEN Thread(how, None) ELSE NoThread]
      /\ Thread(how, None) \in [pc : ThreadPcs, uses : Clients \cup {None}]
      /\ NoThread \in [pc : ThreadPcs, uses : Clients \cup {None}]
      /\ Thread(how, None).pc = how /\ NoThread.pc = "none"
  BY <1>1 DEF Ends, NoThread, Thread, ThreadPcs
<1>3. /\ thread' \in [Calls -> [pc : ThreadPcs, uses : Clients \cup {None}]]
      /\ \A d \in Calls : d # c => thread'[d] = thread[d]
      /\ thread'[c].pc = IF Awaited(c) THEN how ELSE "none"
  BY <1>2 DEF Inv, ValuesOK
<1>4. c = "close" => Awaited(c)
  BY ThreadFacts
<1> QED BY <1>3, <1>4 DEF MovedOnly

\* The thread goes on, and so does what it uses.
LEMMA MovesFacts ==
  ASSUME Inv, NEW c \in Calls, thread[c].pc # "none", NEW pc \in {"check", "connect", "return", "run"},
         Moves(c, pc), c # "schema" => pc = "run",
         UNCHANGED <<phase, queue, stage, attempt, ended, late>>
  PROVE  MovedOnly(c) /\ thread'[c].pc = pc /\ thread'[c].uses = thread[c].uses
<1>1. /\ thread' = [thread EXCEPT ![c].pc = pc] /\ pc \in ThreadPcs
      /\ thread \in [Calls -> [pc : ThreadPcs, uses : Clients \cup {None}]]
  BY DEF Moves, ThreadPcs, Inv, ValuesOK
<1>2. /\ thread' \in [Calls -> [pc : ThreadPcs, uses : Clients \cup {None}]]
      /\ \A d \in Calls : d # c => thread'[d] = thread[d]
      /\ thread'[c].pc = pc /\ thread'[c].uses = thread[c].uses
  BY <1>1
<1>3. c = "close" => Awaited(c)
  BY ThreadFacts
<1>4. c \in Inserts => c # "schema"
  BY DEF Inserts
<1> QED BY <1>2, <1>3, <1>4 DEF MovedOnly

\* A step that leaves the clients and the copies alone.
LEMMA QuietStep ==
  ASSUME Inv, NEW c \in Calls, MovedOnly(c), UNCHANGED <<client, open, copies>>,
         c \in Inserts => thread[c].pc = "queued" /\ thread'[c].pc = "run",
         thread'["schema"].pc = "connect" => thread["schema"].pc = "connect" \/ client = None,
         phase # "starting" => (SchemaPending' => SchemaPending),
         c = "close" => thread'[c].pc = "run" /\ thread'[c].uses = thread[c].uses
                         /\ thread[c].pc \in {"queued", "run"}
  PROVE  Inv'
<1>1. ClientsOK'
  BY QuietClients
<1>2. copies' \in [Inserts -> Nat] /\ client' \in Clients \cup {None} /\ open' \subseteq Clients
  BY DEF Inv, ValuesOK
<1>3. c \in Inserts /\ Awaited(c) => copies'[c] <= Attempts(c)'
  <2> SUFFICES ASSUME c \in Inserts, Awaited(c) PROVE copies[c] <= Attempts(c)'
    OBVIOUS
  <2>1. attempt \in Nat /\ copies[c] \in Nat /\ copies[c] <= Attempts(c)
    BY ThreadFacts, WithinAttempts, WriterAssumption DEF Inv, ValuesOK
  <2>2. Attempts(c) \in {attempt, attempt - 1} /\ Attempts(c)' \in {attempt, attempt - 1}
    BY DEF Attempts, Awaited, MovedOnly, Owner
  <2>3. Attempts(c) = attempt - 1
    BY DEF Attempts, Awaited
  <2> QED BY <2>1, <2>2, <2>3
<1> QED BY <1>1, <1>2, <1>3, MoveStep

LEMMA StartsStep ==
  ASSUME Inv, NEW c \in Calls, ThreadStarts(c), UNCHANGED <<phase, queue, stage, attempt, ended, late>>
  PROVE  Inv'
<1>1. /\ thread[c].pc = "queued" /\ UNCHANGED <<client, open, copies>>
      /\ Moves(c, IF c = "schema" THEN "check" ELSE "run")
  BY DEF ThreadStarts
<1>2. /\ MovedOnly(c) /\ thread'[c].pc = (IF c = "schema" THEN "check" ELSE "run")
      /\ thread'[c].uses = thread[c].uses
  BY <1>1, MovesFacts
<1>3. c = "schema" => phase = "starting"
  BY <1>1, ThreadFacts
<1>4. c # "schema" => thread'["schema"] = thread["schema"]
  BY <1>2 DEF MovedOnly, Calls
<1> QED BY <1>1, <1>2, <1>3, <1>4, QuietStep DEF SchemaPending, Inserts

\* The steps of the schema's thread but for the creation of a client.
LEMMA SchemaStep ==
  ASSUME Inv, SchemaChecks \/ SchemaNotConnected \/ SchemaReturns \/ SchemaRuns,
         UNCHANGED <<phase, queue, stage, attempt, ended, late>>
  PROVE  Inv'
<1>1. "schema" \in Calls /\ "schema" \notin Inserts /\ UNCHANGED <<client, open, copies>>
  BY DEF Calls, Inserts, SchemaChecks, SchemaNotConnected, SchemaReturns, SchemaRuns
<1>2. CASE SchemaChecks
  <2> DEFINE pc == IF client = None THEN "connect" ELSE "return"
  <2>1. thread["schema"].pc = "check" /\ Moves("schema", pc) /\ pc \in {"check", "connect", "return", "run"}
    BY <1>2 DEF SchemaChecks
  <2>2. pc = "connect" => client = None
    OBVIOUS
  <2> HIDE DEF pc
  <2>3. MovedOnly("schema") /\ thread'["schema"].pc = pc
    BY <1>1, <2>1, MovesFacts
  <2> QED BY <1>1, <2>1, <2>2, <2>3, QuietStep DEF SchemaPending
<1>3. ASSUME NEW how \in {"ok", "failed"}, Ends("schema", how), thread["schema"].pc # "none" PROVE Inv'
  <2>1. MovedOnly("schema") /\ thread'["schema"].pc \notin {"check", "connect"}
    BY <1>1, <1>3, EndsFacts
  <2> QED BY <1>1, <2>1, QuietStep DEF SchemaPending
<1>4. CASE SchemaNotConnected
  BY <1>3, <1>4 DEF SchemaNotConnected
<1>5. CASE SchemaReturns
  <2>1. CASE client = None
    BY <1>3, <1>5, <2>1 DEF SchemaReturns
  <2>2. CASE client # None
    <3>1. thread["schema"].pc = "return" /\ thread' = [thread EXCEPT !["schema"] = Thread("run", client)]
      BY <1>5, <2>2 DEF SchemaReturns
    <3>2. Thread("run", client) \in [pc : ThreadPcs, uses : Clients \cup {None}]
          /\ Thread("run", client).pc = "run"
      BY DEF Thread, ThreadPcs, Inv, ValuesOK
    <3>3. thread' \in [Calls -> [pc : ThreadPcs, uses : Clients \cup {None}]]
          /\ thread'["schema"].pc = "run" /\ \A d \in Calls : d # "schema" => thread'[d] = thread[d]
      BY <1>1, <3>1, <3>2 DEF Inv, ValuesOK
    <3>4. MovedOnly("schema")
      BY <1>1, <3>1, <3>3 DEF MovedOnly
    <3> QED BY <1>1, <3>3, <3>4, QuietStep DEF SchemaPending
  <2> QED BY <2>1, <2>2
<1>6. CASE SchemaRuns
  BY <1>3, <1>6 DEF SchemaRuns
<1> QED BY <1>2, <1>4, <1>5, <1>6

\* The schema's thread creates the one client, unless it is late.
LEMMA SchemaConnectedStep ==
  ASSUME Inv, SchemaConnected, UNCHANGED <<phase, queue, stage, attempt, ended, late>>
  PROVE  Inv'
<1>1. /\ thread["schema"].pc = "connect" /\ Moves("schema", "return") /\ copies' = copies
      /\ "schema" \in Calls /\ "close" \in Calls /\ "schema" \notin Inserts
  BY DEF SchemaConnected, Calls, Inserts
<1>2. PICK new \in Fresh : client' = new /\ open' = open \cup {new}
  BY DEF SchemaConnected, Create
<1>3. new \in Clients /\ new \notin open /\ None \notin Clients /\ open \subseteq Clients
  BY WriterAssumption DEF Fresh, Inv, ValuesOK
<1>4. MovedOnly("schema") /\ thread'["schema"].pc = "return"
  BY <1>1, MovesFacts
<1>5. thread'["close"] = thread["close"] /\ ~SchemaPending'
  BY <1>1, <1>4 DEF MovedOnly, SchemaPending
<1>6. ClientsOK'
  <2>1. CASE phase = "starting"
    <3>1. open = {} /\ ~late
      BY <1>1, <1>3, <2>1 DEF Inv, ClientsOK
    <3>2. stage # "connect"
      <4>1. stage = "connect" => Owner \in Inserts /\ Owner \in CallsIn(phase)
        BY LineFacts DEF Inv, LineOK
      <4> QED BY <2>1, <4>1 DEF CallsIn, Inserts
    <3>3. thread["close"].pc = "none"
      BY <2>1, ThreadFacts
    <3> QED BY <1>2, <1>4, <1>5, <2>1, <3>1, <3>2, <3>3 DEF ClientsOK, MovedOnly
  <2>2. CASE phase # "starting"
    <3>1. SchemaPending /\ late
      BY <1>1, <2>2 DEF SchemaPending, Inv, ClientsOK, OnlyOpen
    <3>2. \A x : OnlyOpen(x) => OnlyOpen(x)' /\ OnlyOpen(new)'
      <4> SUFFICES ASSUME NEW x, OnlyOpen(x) PROVE OnlyOpen(x)' /\ OnlyOpen(new)'
        OBVIOUS
      <4>1. open \subseteq {x} /\ open' = open \cup {new} /\ late'
        BY <1>2, <3>1 DEF OnlyOpen
      <4> QED BY <1>5, <4>1 DEF OnlyOpen
    <3>3. OnlyOpen(client)'
      BY <1>2, <2>2, <3>2 DEF Inv, ClientsOK, OnlyOpen, SchemaPending
    <3> QED BY <1>5, <2>2, <3>2, <3>3 DEF Inv, ClientsOK
  <2> QED BY <2>1, <2>2
<1>7. copies' \in [Inserts -> Nat] /\ client' \in Clients \cup {None} /\ open' \subseteq Clients
  BY <1>1, <1>2, <1>3 DEF Inv, ValuesOK
<1> QED BY <1>1, <1>4, <1>6, <1>7, MoveStep

LEMMA InsertStep ==
  ASSUME Inv, NEW c \in Inserts, InsertRuns(c), UNCHANGED <<phase, queue, stage, attempt, ended, late>>
  PROVE  Inv'
<1>1. thread[c].pc = "run" /\ UNCHANGED <<client, open>> /\ c \in Calls /\ c # "schema" /\ c # "close"
      /\ "schema" \in Calls
  BY DEF InsertRuns, Calls, Inserts
<1>2. PICK how \in {"ok", "failed"} :
        /\ Ends(c, how)
        /\ copies' = [copies EXCEPT ![c] = @ + 1] \/ (copies' = copies /\ how = "failed")
  BY DEF InsertRuns
<1>3. MovedOnly(c) /\ thread'[c].pc = IF Awaited(c) THEN how ELSE "none"
  BY <1>1, <1>2, EndsFacts
<1>4. /\ copies' \in [Inserts -> Nat] /\ \A d \in Inserts : d # c => copies'[d] = copies[d]
      /\ copies[c] \in Nat /\ copies'[c] \in {copies[c], copies[c] + 1}
      /\ how = "ok" => copies'[c] = copies[c] + 1
  BY <1>2 DEF Inv, ValuesOK
<1>5. Awaited(c) => copies'[c] <= Attempts(c)'
  <2> SUFFICES ASSUME Awaited(c) PROVE copies'[c] <= Attempts(c)'
    OBVIOUS
  <2>1. copies[c] <= Attempts(c)
    BY <1>1, ThreadFacts, WithinAttempts
  <2>2. Attempts(c) = attempt - 1 /\ Attempts(c)' = attempt /\ attempt \in Nat
    BY <1>1, <1>2, <1>3, WriterAssumption DEF Attempts, Awaited, MovedOnly, Owner, Inv, ValuesOK
  <2> QED BY <1>4, <2>1, <2>2
<1>6. thread'[c].pc = "ok" => copies'[c] >= 1
  BY <1>3, <1>4
<1>7. ClientsOK'
  <2>1. thread'["schema"] = thread["schema"]
    BY <1>1, <1>3 DEF MovedOnly
  <2> QED BY <1>1, <1>3, <2>1, QuietClients DEF SchemaPending
<1>8. client' \in Clients \cup {None} /\ open' \subseteq Clients
  BY <1>1 DEF Inv, ValuesOK
<1> QED BY <1>1, <1>3, <1>4, <1>5, <1>6, <1>7, <1>8, MoveStep

LEMMA CloseStep ==
  ASSUME Inv, CloseRuns, UNCHANGED <<phase, queue, stage, attempt, ended, late>>
  PROVE  Inv'
<1> DEFINE x == thread["close"].uses
<1>1. /\ thread["close"].pc = "run" /\ open' = open \ {x} /\ Ends("close", "ok")
      /\ UNCHANGED <<client, copies>> /\ "close" \in Calls /\ "close" \notin Inserts /\ "schema" \in Calls
  BY DEF CloseRuns, Calls, Inserts
<1>2. phase = "close" /\ Awaited("close")
  BY <1>1, ThreadFacts
<1>3. MovedOnly("close") /\ thread'["close"].pc = "ok"
  BY <1>1, <1>2, EndsFacts
<1>4. thread'["schema"] = thread["schema"]
  BY <1>1, <1>3 DEF MovedOnly
<1>5. ClientsOK'
  <2>1. OnlyOpen(x)
    BY <1>1 DEF Inv, ClientsOK
  <2>2. OnlyOpen(None)' /\ OnlyOpen(client)'
    <3> HIDE DEF x
    <3>1. ~late \/ SchemaPending => open' = {}
      BY <1>1, <2>1 DEF OnlyOpen
    <3>2. \A a, b \in open' : a = b
      BY <1>1, <2>1 DEF OnlyOpen
    <3>3. (SchemaPending' = SchemaPending) /\ late' = late
      BY <1>4 DEF SchemaPending
    <3>4. SchemaPending => late
      BY <2>1 DEF OnlyOpen
    <3> QED BY <1>1, <3>1, <3>2, <3>3, <3>4 DEF OnlyOpen
  <2> QED BY <1>2, <1>3, <2>2 DEF ClientsOK, MovedOnly
<1>6. copies' \in [Inserts -> Nat] /\ client' \in Clients \cup {None} /\ open' \subseteq Clients
  BY <1>1 DEF Inv, ValuesOK
<1> QED BY <1>1, <1>3, <1>5, <1>6, MoveStep

LEMMA ThreadSteps == ASSUME Inv, NEW c \in Calls, ThreadStep(c) PROVE Inv' /\ Accounted
<1>1. UNCHANGED <<phase, queue, stage, attempt, ended, late>>
  BY DEF ThreadStep
<1>2. Accounted
  BY <1>1 DEF Accounted, Waits
<1>3. CASE ThreadStarts(c)
  BY <1>1, <1>2, <1>3, StartsStep
<1>4. CASE SchemaChecks \/ SchemaNotConnected \/ SchemaReturns \/ SchemaRuns
  BY <1>1, <1>2, <1>4, SchemaStep
<1>5. CASE SchemaConnected
  BY <1>1, <1>2, <1>5, SchemaConnectedStep
<1>6. CASE c \in Inserts /\ InsertRuns(c)
  BY <1>1, <1>2, <1>6, InsertStep
<1>7. CASE CloseRuns
  BY <1>1, <1>2, <1>7, CloseStep
<1> QED BY <1>3, <1>4, <1>5, <1>6, <1>7 DEF ThreadStep

-----------------------------------------------------------------------------
(* The engine. *)

\* The phases only go on.
Later(p, q) ==
  /\ q \in Phases /\ q # "starting" /\ p # "stopped"
  /\ p \in {"final_trades", "final_snapshots"} => q \in {"final_trades", "final_snapshots", "close", "stopped"}
  /\ p = "close" => q \in {"close", "stopped"}

\* A phase is over and its calls, too.
LEMMA PhaseStep ==
  ASSUME Inv, Later(phase, phase'), queue = <<>> \/ CallsIn(phase') = CallsIn(phase),
         UNCHANGED <<queue, stage, attempt, thread, client, open, copies, late>>,
         ended' \in {ended, None}, phase' = "stopped" => OnlyOpen(None), phase' = "close" => ended' = None
  PROVE  Inv' /\ Accounted
<1>1. ValuesOK'
  BY DEF Inv, ValuesOK, Later
<1>2. LineOK'
  <2>1. queue \in Seq(CallsIn(phase'))
    BY EmptySeq DEF Inv, LineOK
  <2> QED BY <2>1 DEF Inv, LineOK, Owner
<1>3. phase = "starting" => thread["schema"].pc = "none"
  <2>1. CASE queue = <<>>
    BY <2>1, ThreadFacts DEF Inv, LineOK
  <2>2. CASE CallsIn(phase') = CallsIn(phase)
    BY <2>2 DEF CallsIn, Later, Phases
  <2> QED BY <2>1, <2>2
<1>4. ThreadsOK'
  <2>1. ASSUME NEW c \in Calls, thread[c].pc # "none", LeftBehind(c) PROVE LeftBehind(c)'
    BY <2>1 DEF LeftBehind, Waits, Later
  <2>2. ASSUME NEW c \in Calls, Awaited(c) PROVE Awaited(c)'
    BY <2>2 DEF Awaited, Owner
  <2> QED BY <2>1, <2>2 DEF Inv, ThreadsOK, Owner
<1>5. CopiesOK'
  <2>1. \A c : Attempts(c)' = Attempts(c) /\ Waits(c)' = Waits(c)
    BY DEF Attempts, Waits, Owner
  <2> QED BY <2>1 DEF Inv, CopiesOK, Later
<1>6. ClientsOK'
  <2>1. \A x : OnlyOpen(x) => OnlyOpen(x)'
    BY DEF OnlyOpen, SchemaPending
  <2>2. OnlyOpen(client)'
    <3>1. CASE phase = "starting"
      BY <1>3, <3>1 DEF Inv, ClientsOK, OnlyOpen, SchemaPending
    <3>2. CASE phase # "starting"
      <4>1. OnlyOpen(client)
        BY <3>2 DEF Inv, ClientsOK
      <4> QED BY <4>1 DEF OnlyOpen, SchemaPending
    <3> QED BY <3>1, <3>2
  <2>3. thread["close"].pc \in {"queued", "run"} => OnlyOpen(thread["close"].uses)'
    BY <2>1 DEF Inv, ClientsOK
  <2> QED BY <2>1, <2>2, <2>3 DEF Inv, ClientsOK, Later
<1>7. Accounted
  BY DEF Accounted, Waits
<1> QED BY <1>1, <1>2, <1>4, <1>5, <1>6, <1>7 DEF Inv

\* A timeout cancels the calls of a phase.
LEMMA CancelStep ==
  ASSUME Inv, Cancel, Later(phase, phase'), queue # <<>>,
         \/ phase = "starting" /\ phase' = "running" /\ ended' = ended
         \/ phase = "draining" /\ phase' = "final_trades" /\ ended' = None
         \/ phase \in {"final_trades", "final_snapshots"} /\ phase' = "close" /\ ended' = None
  PROVE  Inv' /\ Accounted
<1>1. /\ queue' = <<>> /\ stage' = "free" /\ UNCHANGED <<attempt, client, open>>
      /\ copies' = [c \in Inserts |-> IF Waits(c) THEN 0 ELSE copies[c]]
      /\ late' = (late \/ SchemaPending)
      /\ thread' = [c \in Calls |->
            IF Waits(c) /\ thread[c].pc \in {"queued", "ok", "failed"} THEN NoThread ELSE thread[c]]
  BY DEF Cancel, SchemaPending
<1>2. \A c : ~Waits(c)'
  <2>1. Len(queue') = 0
    BY <1>1
  <2> QED BY <2>1 DEF Waits
<1>3. NoThread \in [pc : ThreadPcs, uses : Clients \cup {None}] /\ NoThread.pc = "none"
  BY DEF NoThread, Thread, ThreadPcs
<1>4. \A c \in Calls :
        /\ Waits(c) /\ thread[c].pc \in {"queued", "ok", "failed"} => thread'[c].pc = "none"
        /\ ~(Waits(c) /\ thread[c].pc \in {"queued", "ok", "failed"}) => thread'[c] = thread[c]
        /\ thread'[c] \in [pc : ThreadPcs, uses : Clients \cup {None}]
  BY <1>1, <1>3 DEF Inv, ValuesOK
<1>5. copies' \in [Inserts -> Nat] /\ \A c \in Inserts : copies'[c] = IF Waits(c) THEN 0 ELSE copies[c]
  BY <1>1 DEF Inv, ValuesOK
<1>6. ValuesOK'
  <2>1. late' \in BOOLEAN
    BY <1>1 DEF Inv, ValuesOK, SchemaPending
  <2>2. thread' \in [Calls -> [pc : ThreadPcs, uses : Clients \cup {None}]]
    BY <1>1, <1>4
  <2> QED BY <1>1, <1>5, <2>1, <2>2 DEF Inv, ValuesOK, Later
<1>7. LineOK'
  <2>1. queue' \in Seq(CallsIn(phase')) /\ Len(queue') = 0
    BY <1>1, EmptySeq
  <2> QED BY <1>1, <2>1 DEF LineOK, Stages
<1>8. phase \notin {"close", "stopped"} /\ "close" \in Calls /\ "schema" \in Calls /\ Inserts \subseteq Calls
  BY DEF Calls
<1>9. thread["close"].pc = "none" /\ thread'["close"].pc = "none"
  BY <1>4, <1>8, ThreadFacts
<1>10. \A c \in Calls : thread[c].pc \in {"queued", "ok", "failed"} => Waits(c)
  BY ThreadFacts DEF Inv, ThreadsOK, LeftBehind
<1>11. ThreadsOK'
  <2>1. ASSUME NEW c \in Calls, thread'[c].pc # "none" PROVE LeftBehind(c)'
    <3>1. thread'[c] = thread[c] /\ thread[c].pc # "none" /\ thread[c].pc \notin {"queued", "ok", "failed"}
      BY <1>4, <1>10, <2>1
    <3>2. CASE Awaited(c)
      <4>1. c \in CallsIn(phase) /\ c \in {"schema"} \cup Inserts
        BY <1>9, <3>1, <3>2, ThreadFacts DEF Calls
      <4>2. c \in Inserts => thread[c].pc = "run"
        BY <3>1 DEF Inv, ThreadsOK
      <4>3. c = "schema" => thread[c].pc \in {"check", "connect", "return", "run"}
        BY <3>1 DEF Inv, ValuesOK, ThreadPcs
      <4> QED BY <1>2, <3>1, <4>1, <4>2, <4>3 DEF LeftBehind, CallsIn, Inserts
    <3>3. CASE LeftBehind(c)
      BY <1>2, <3>1, <3>3 DEF LeftBehind
    <3> QED BY <3>1, <3>2, <3>3 DEF Inv, ThreadsOK
  <2>2. \A c \in Inserts : thread'[c].pc \in {"none", "queued", "run", "ok", "failed"}
    BY <1>4, <1>8 DEF Inv, ThreadsOK
  <2> QED BY <1>1, <1>9, <2>1, <2>2 DEF ThreadsOK
<1>12. CopiesOK'
  <2> SUFFICES ASSUME NEW c \in Inserts
               PROVE  /\ thread'[c].pc # "ok"
                      /\ thread'[c].pc = "none" =>
                           copies'[c] = 0 \/ phase' \in {"close", "stopped"}
                             \/ (c # "final" /\ phase' \in {"final_trades", "final_snapshots"})
    BY <1>2 DEF CopiesOK
  <2>1. thread'[c].pc # "ok"
    BY <1>4, <1>8, <1>10
  <2>2. CASE Waits(c)
    BY <1>5, <2>1, <2>2
  <2>3. CASE ~Waits(c)
    <3>1. thread'[c] = thread[c] /\ copies'[c] = copies[c]
      BY <1>4, <1>5, <1>8, <2>3
    <3> QED BY <2>1, <2>3, <3>1 DEF Inv, CopiesOK
  <2> QED BY <2>2, <2>3
<1>13. ClientsOK'
  <2>1. SchemaPending' = SchemaPending
    BY <1>4, <1>8, <1>10 DEF SchemaPending
  <2>2. OnlyOpen(client)'
    <3>1. CASE phase = "starting"
      BY <1>1, <2>1, <3>1 DEF Inv, ClientsOK, OnlyOpen
    <3>2. CASE phase # "starting"
      BY <1>1, <2>1, <3>2 DEF Inv, ClientsOK, OnlyOpen
    <3> QED BY <3>1, <3>2
  <2> QED BY <1>1, <1>9, <2>2 DEF ClientsOK
<1>14. Accounted
  <2> SUFFICES ASSUME NEW c \in Inserts, Waits(c)
               PROVE  copies[c] <= MaxAttempts /\ ended' # Ended(c, "returned")
    BY DEF Accounted
  <2>1. ended' = None
    <3>1. c \in CallsIn(phase)
      BY LineFacts DEF Inv
    <3> QED BY <3>1 DEF CallsIn, Inserts
  <2>2. Ended(c, "returned") # None
    BY NoneAssumption DEF Ended, Outcomes, Calls
  <2> QED BY <2>1, <2>2, WithinAttempts
<1> QED BY <1>6, <1>7, <1>11, <1>12, <1>13, <1>14 DEF Inv

LEMMA EngineSteps == Inv /\ EngineStep => Inv' /\ Accounted
<1> SUFFICES ASSUME Inv, EngineStep PROVE Inv' /\ Accounted
  OBVIOUS
<1>1. CASE Started
  BY <1>1, PhaseStep DEF Started, Later, Phases
<1>2. CASE SchemaTimedOut
  BY <1>2, CancelStep DEF SchemaTimedOut, Later, Phases
<1>3. CASE StopCalled
  BY <1>3, PhaseStep DEF StopCalled, Later, Phases, CallsIn
<1>4. CASE WritersDone
  BY <1>4, PhaseStep DEF WritersDone, Later, Phases
<1>5. CASE DrainTimedOut
  BY <1>5, CancelStep DEF DrainTimedOut, Later, Phases
<1>6. ASSUME NEW c \in CallsIn(phase), phase # "starting", Call(c), phase' = phase PROVE Inv' /\ Accounted
  BY <1>6, CallStep DEF Accounted
<1>7. CASE FinalCall
  <2>1. phase = "close" => "close" \in CallsIn(phase)
    BY DEF CallsIn
  <2>2. phase \in {"final_trades", "final_snapshots"} => "final" \in CallsIn(phase)
    BY DEF CallsIn
  <2> QED BY <1>6, <1>7, <2>1, <2>2 DEF FinalCall
<1>8. CASE FinalSkipped
  BY <1>8, PhaseStep DEF FinalSkipped, AfterFinal, Later, Phases
<1>9. CASE FinalEnded
  <2>1. phase = "close" => OnlyOpen(None)
    BY <1>9 DEF FinalEnded, Inv, ClientsOK
  <2>2. /\ queue = <<>> /\ ended' = None
        /\ UNCHANGED <<queue, stage, attempt, thread, client, open, copies, late>>
    BY <1>9 DEF FinalEnded
  <2>3. Later(phase, phase') /\ (phase' = "stopped" => phase = "close")
    BY <1>9 DEF FinalEnded, AfterFinal, Later, Phases
  <2> QED BY <2>1, <2>2, <2>3, PhaseStep
<1>10. CASE FinalTimedOut
  BY <1>10, CancelStep DEF FinalTimedOut, Later, Phases
<1>11. CASE UNCHANGED vars
  <2>1. ValuesOK' /\ LineOK'
    BY <1>11 DEF vars, Inv, ValuesOK, LineOK, Owner
  <2>2. ThreadsOK' /\ CopiesOK'
    BY <1>11 DEF vars, Inv, ThreadsOK, CopiesOK, Attempts, Awaited, LeftBehind, Owner, Waits
  <2>3. ClientsOK'
    BY <1>11 DEF vars, Inv, ClientsOK, OnlyOpen, SchemaPending
  <2> QED BY <1>11, <2>1, <2>2, <2>3 DEF vars, Inv, Accounted, Waits
<1>12. ASSUME NEW c \in {"trades", "snapshots"}, Flush(c) PROVE Inv' /\ Accounted
  BY <1>6, <1>12 DEF Flush, CallsIn
<1> QED BY <1>1, <1>2, <1>3, <1>4, <1>5, <1>7, <1>8, <1>9, <1>10, <1>11, <1>12
        DEF EngineStep, StaysStopped

-----------------------------------------------------------------------------
(* The invariant is kept. *)

LEMMA InvInit == Init => Inv
<1> SUFFICES ASSUME Init PROVE Inv
  OBVIOUS
<1>1. /\ phase = "starting" /\ queue = <<"schema">> /\ stage = "await" /\ attempt = 1
      /\ client = None /\ open = {} /\ ended = None /\ late = FALSE
      /\ copies = [c \in Inserts |-> 0]
      /\ thread = [c \in Calls |-> IF c = "schema" THEN Thread("queued", None) ELSE NoThread]
  BY DEF Init
<1>2. /\ thread \in [Calls -> [pc : ThreadPcs, uses : Clients \cup {None}]]
      /\ \A c \in Calls : thread[c].pc = IF c = "schema" THEN "queued" ELSE "none"
      /\ "schema" \in Calls /\ "close" \in Calls /\ Inserts \subseteq Calls /\ "schema" \notin Inserts
  <2>1. NoThread \in [pc : ThreadPcs, uses : Clients \cup {None}] /\ NoThread.pc = "none"
    BY DEF NoThread, Thread, ThreadPcs
  <2>2. Thread("queued", None) \in [pc : ThreadPcs, uses : Clients \cup {None}] /\ Thread("queued", None).pc = "queued"
    BY DEF Thread, ThreadPcs
  <2> QED BY <1>1, <2>1, <2>2 DEF Calls, Inserts
<1>3. /\ queue \in Seq({"schema"}) /\ Len(queue) = 1 /\ queue[1] = "schema" /\ Owner = "schema"
      /\ queue # <<>> /\ CallsIn(phase) = {"schema"}
  BY <1>1 DEF Owner, CallsIn
<1>4. ValuesOK
  <2>1. 1 \in 1..MaxAttempts
    BY WriterAssumption
  <2> QED BY <1>1, <1>2, <2>1 DEF ValuesOK, Phases
<1>5. LineOK
  BY <1>1, <1>3 DEF LineOK, Stages
<1>6. ThreadsOK
  BY <1>1, <1>2, <1>3 DEF ThreadsOK, Awaited
<1>7. CopiesOK
  <2>1. \A c \in Inserts : ~Waits(c)
    BY <1>2, <1>3 DEF Waits
  <2> QED BY <1>1, <1>2, <2>1 DEF CopiesOK
<1>8. ClientsOK
  BY <1>1, <1>2 DEF ClientsOK
<1> QED BY <1>4, <1>5, <1>6, <1>7, <1>8 DEF Inv

LEMMA InvNext == Inv /\ [Next]_vars => Inv' /\ Accounted
<1> SUFFICES ASSUME Inv, [Next]_vars PROVE Inv' /\ Accounted
  OBVIOUS
<1>1. CASE UNCHANGED vars
  <2>1. ValuesOK' /\ LineOK'
    BY <1>1 DEF vars, Inv, ValuesOK, LineOK, Owner
  <2>2. ThreadsOK' /\ CopiesOK'
    BY <1>1 DEF vars, Inv, ThreadsOK, CopiesOK, Attempts, Awaited, LeftBehind, Owner, Waits
  <2>3. ClientsOK'
    BY <1>1 DEF vars, Inv, ClientsOK, OnlyOpen, SchemaPending
  <2> QED BY <1>1, <2>1, <2>2, <2>3 DEF vars, Inv, Accounted, Waits
<1>2. CASE OwnerStep
  BY <1>2, OwnerSteps
<1>3. CASE EngineStep
  BY <1>3, EngineSteps
<1>4. ASSUME NEW c \in Calls, ThreadStep(c) PROVE Inv' /\ Accounted
  BY <1>4, ThreadSteps
<1> QED BY <1>1, <1>2, <1>3, <1>4 DEF Next

-----------------------------------------------------------------------------
(* The theorems. *)

LEMMA Invariance == Spec => []Inv
<1>1. Inv /\ [Next]_vars => Inv'
  BY InvNext
<1> QED BY InvInit, <1>1, PTL DEF Spec

\* The types hold, the lock has an owner exactly while a call is in one of
\* its stages, and an owner that awaits has a thread to await.
THEOREM TypeCorrect == Spec => []TypeOK
<1>1. Inv => TypeOK
  <2> SUFFICES ASSUME Inv PROVE TypeOK
    OBVIOUS
  <2>1. queue \in Seq(Calls)
    <3>1. CallsIn(phase) \subseteq Calls
      BY LineFacts DEF Inv
    <3>2. /\ queue \in Seq(CallsIn(phase)) /\ Len(queue) \in Nat
          /\ \A i \in 1..Len(queue) : queue[i] \in CallsIn(phase)
          /\ queue = [i \in 1..Len(queue) |-> queue[i]]
      BY LenProperties, ElementOfSeq DEF Inv, LineOK
    <3> QED BY <3>1, <3>2, IsASeq
  <2> QED BY <2>1 DEF Inv, ValuesOK, LineOK, ThreadsOK, TypeOK
<1> QED BY <1>1, Invariance, PTL

\* start() and stop() leave no client open, and the engine no more than one,
\* but for the one client of a schema thread that start() did not wait for.
THEOREM ClientsStayBounded == Spec => []ClientsBounded
<1>1. Inv => ClientsBounded
  <2> SUFFICES ASSUME Inv PROVE ClientsBounded
    OBVIOUS
  <2>1. PICK x \in Clients \cup {None} :
          /\ phase = "stopped" => x = None
          /\ ~late => open \subseteq {x}
          /\ \A a, b \in open \ {x} : a = b
    <3>1. CASE phase = "starting"
      BY <3>1 DEF Inv, ValuesOK, ClientsOK
    <3>2. CASE phase # "starting" /\ phase # "stopped"
      BY <3>2 DEF Inv, ValuesOK, ClientsOK, OnlyOpen
    <3>3. CASE phase = "stopped"
      BY <3>3 DEF Inv, ValuesOK, ClientsOK, OnlyOpen
    <3> QED BY <3>1, <3>2, <3>3
  <2>2. None \notin open
    BY WriterAssumption DEF Inv, ValuesOK
  <2>3. IsFiniteSet(open) /\ Cardinality(open) <= (IF phase = "stopped" THEN 0 ELSE 1) + (IF late THEN 1 ELSE 0)
    <3>1. IsFiniteSet({}) /\ Cardinality({}) = 0
      BY FS_EmptySet
    <3>2. \A a : IsFiniteSet({a}) /\ Cardinality({a}) = 1
      BY FS_Singleton
    <3>3. ASSUME NEW S, NEW T, IsFiniteSet(T), S \subseteq T
          PROVE  IsFiniteSet(S) /\ Cardinality(S) <= Cardinality(T)
      BY <3>3, FS_Subset
    <3>4. CASE ~late /\ phase = "stopped"
      <4>1. open = {}
        BY <2>1, <2>2, <3>4
      <4> QED BY <3>1, <3>4, <4>1
    <3>5. CASE ~late /\ phase # "stopped"
      <4>1. open \subseteq {x}
        BY <2>1, <3>5
      <4>2. IsFiniteSet({x}) /\ Cardinality({x}) = 1
        BY <3>2
      <4>3. Cardinality(open) <= 1 /\ IsFiniteSet(open)
        BY <3>3, <4>1, <4>2
      <4> QED BY <3>5, <4>3
    <3>6. ASSUME NEW y, open \subseteq {x, y}, late PROVE IsFiniteSet(open) /\ Cardinality(open) <= 2
      <4>1. IsFiniteSet({x, y}) /\ Cardinality({x, y}) <= 2
        <5>1. {x, y} = {x} \cup {y} /\ IsFiniteSet({x}) /\ Cardinality({x}) = 1
          BY <3>2
        <5>2. IsFiniteSet({x} \cup {y}) /\ Cardinality({x} \cup {y}) \in {1, 2}
          BY <5>1, FS_AddElement
        <5> QED BY <5>1, <5>2
      <4>2. IsFiniteSet(open) /\ Cardinality(open) <= Cardinality({x, y})
        BY <3>3, <3>6, <4>1
      <4>3. Cardinality(open) \in Nat /\ Cardinality({x, y}) \in Nat
        BY <4>1, <4>2, FS_CardinalityType
      <4> QED BY <4>1, <4>2, <4>3
    <3>7. CASE late /\ phase # "stopped"
      <4>1. PICK y : open \subseteq {x, y}
        BY <2>1
      <4>2. IsFiniteSet(open) /\ Cardinality(open) <= 2
        BY <3>6, <3>7, <4>1
      <4> QED BY <3>7, <4>2
    <3>8. CASE late /\ phase = "stopped"
      <4>1. PICK y : open \subseteq {y}
        BY <2>1, <2>2, <3>8
      <4>2. IsFiniteSet({y}) /\ Cardinality({y}) = 1
        BY <3>2
      <4>3. Cardinality(open) <= 1 /\ IsFiniteSet(open)
        BY <3>3, <4>1, <4>2
      <4> QED BY <3>8, <4>3
    <3>9. late \in BOOLEAN
      BY DEF Inv, ValuesOK
    <3> QED BY <3>4, <3>5, <3>7, <3>8, <3>9
  <2> QED BY <2>3 DEF ClientsBounded
<1> QED BY <1>1, Invariance, PTL

\* An insert that returns has stored its rows, and no batch is stored more
\* often than the attempts allow, whatever fails, times out or is cancelled.
THEOREM AlwaysAccounted == Spec => InsertsAccounted
<1>1. Inv /\ [Next]_vars => [\A c \in Inserts :
         Waits(c) /\ ~Waits(c)' =>
            /\ copies[c] <= MaxAttempts
            /\ ended' = Ended(c, "returned") => copies[c] >= 1]_vars
  BY InvNext DEF Accounted
<1> QED BY <1>1, Invariance, PTL DEF Spec, InsertsAccounted
=============================================================================
