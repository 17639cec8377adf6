----------------------------- MODULE RestClient -----------------------------
(***************************************************************************)
(* How BinanceSpotClient (src/src/market_data/binance_client.py) paces the *)
(* snapshot requests that the synchronisation tasks make: one at a time,   *)
(* spaced from the last answer, within a request weight per minute, and    *)
(* not before the exchange is ready again once it has refused one.         *)
(*                                                                         *)
(* Time is discrete.  A time stamp of the code is kept as its age and a    *)
(* deadline as the time left, up to the point where a larger value makes   *)
(* no difference; Tick is the passing of one unit.  A sleep takes at least *)
(* as long as it was asked to.                                             *)
(***************************************************************************)
EXTENDS Integers, Sequences

CONSTANTS
    Callers,      \* the symbols, whose tasks call fetch_depth_snapshot
    Window,       \* the minute over which weights are added up
    Interval,     \* rest_snapshot_min_interval_ms
    Weight,       \* the weight of a request, _depth_snapshot_weight
    Limits,       \* values of rest_request_weight_limit_per_minute
    RetryAfters,  \* what the Retry-After header of a refusal may say; None: no number
    RetryCap,     \* rest_retry_after_max_seconds
    RetryDefault, \* reconnect_max_delay_seconds
    None

ASSUME RestAssumption ==
    /\ Window \in Nat \ {0} /\ Interval \in Nat \ {0} /\ Weight \in Nat \ {0}
    /\ Limits \subseteq Nat /\ RetryAfters \subseteq Nat \cup {None}
    /\ RetryCap \in Nat \ {0} /\ RetryDefault \in Nat \ {0} /\ None \notin Nat

VARIABLES
    limit,        \* _weight_limit_per_minute, never changed
    queue,        \* _rest_lock: its owner and, behind it, those who wait for it
    stage,        \* where the owner of the lock is
    sleep,        \* how long its sleep still takes
    events,       \* _events of the limiter, each as its age
    cooldown,     \* how long until _cooldown_until_ms
    sinceAnswer,  \* the age of _last_rest_call_ms
    sent          \* the ages of the requests sent in the last Window

vars == <<limit, queue, stage, sleep, events, cooldown, sinceAnswer, sent>>

Stages == {"free", "entering", "spacing", "budget", "request"}

Least(m, n) == IF m < n THEN m ELSE n
Most(m, n) == IF m > n THEN m ELSE n

Waits(c) == \E i \in 1..Len(queue) : queue[i] = c

Init ==
    /\ limit \in Limits
    /\ queue = <<>> /\ stage = "free" /\ sleep = 0
    /\ events = <<>> /\ cooldown = 0
    /\ sinceAnswer = Interval
    /\ sent = <<>>

-----------------------------------------------------------------------------
(* RequestWeightLimiter. *)

\* How many events at the head of the log, the oldest, have expired.
Expired(log) ==
    CHOOSE n \in 0..Len(log) :
        /\ \A i \in 1..n : log[i] >= Window
        /\ n < Len(log) => log[n + 1] < Window

\* A slip of Unexpired: one expired event takes all others with it.
UnexpiredForgets(log) == IF Expired(log) > 0 THEN <<>> ELSE log

\* _remove_expired
Unexpired(log) == SubSeq(log, Expired(log) + 1, Len(log))

\* A slip of LimitSleep: it waits although there is nothing to wait for.
LimitSleepAlways(log) ==
    IF (Len(log) + 1) * Weight <= limit THEN 0
    ELSE IF log = <<>> THEN Window ELSE Window - log[1]

\* How long until the oldest event leaves room for one more request.  With no
\* event left there is no wait, even for a request above the limit.
LimitSleep(log) ==
    IF (Len(log) + 1) * Weight > limit /\ log # <<>> THEN Window - log[1] ELSE 0

\* A slip of Acquire: the limiter forgets that the exchange has refused.
AcquireInCooldown ==
    LET log == Unexpired(events)
        wait == LimitSleep(log)
    IN  /\ sleep' = wait
        /\ IF wait > 0
           THEN stage' = "budget" /\ events' = log /\ UNCHANGED sent
           ELSE stage' = "request" /\ events' = Append(log, 0) /\ sent' = Append(sent, 0)

\* One round of acquire(): the request goes out, or the caller sleeps and
\* looks again.
Acquire ==
    LET log == Unexpired(events)
        wait == Most(cooldown, LimitSleep(log))
    IN  /\ sleep' = wait
        /\ IF wait > 0
           THEN stage' = "budget" /\ events' = log /\ UNCHANGED sent
           ELSE stage' = "request" /\ events' = Append(log, 0) /\ sent' = Append(sent, 0)

-----------------------------------------------------------------------------
(* fetch_depth_snapshot. *)

\* The owner of the lock, up to its first sleep or to its request.
Proceed ==
    IF sinceAnswer < Interval
    THEN /\ stage' = "spacing"
         /\ sleep' = Interval - sinceAnswer
         /\ UNCHANGED <<events, sent>>
    ELSE Acquire

Call(c) ==
    /\ ~Waits(c)
    /\ queue' = Append(queue, c)
    /\ IF queue = <<>> THEN Proceed ELSE UNCHANGED <<stage, sleep, events, sent>>
    /\ UNCHANGED <<limit, cooldown, sinceAnswer>>

Entered ==
    /\ stage = "entering"
    /\ Proceed
    /\ UNCHANGED <<limit, queue, cooldown, sinceAnswer>>

Woken ==
    /\ stage \in {"spacing", "budget"} /\ sleep = 0
    /\ Acquire
    /\ UNCHANGED <<limit, queue, cooldown, sinceAnswer>>

\* A slip of Release: the next in line is not woken.
ReleaseAlone == queue' = Tail(queue) /\ stage' = "free" /\ sleep' = 0

\* The owner leaves; the lock goes to the next in line.
Release ==
    /\ queue' = Tail(queue)
    /\ stage' = IF Tail(queue) = <<>> THEN "free" ELSE "entering"
    /\ sleep' = 0

\* _retry_after_seconds
RetryAfterSeconds(header) ==
    IF header = None THEN Least(RetryDefault, RetryCap) ELSE Least(Most(header, 1), RetryCap)

\* A snapshot, or an answer that is an error; a refusal whose Retry-After is
\* `nan` counts as one, since apply_cooldown() raises on it.
Answered ==
    /\ stage = "request"
    /\ sinceAnswer' = 0
    /\ Release
    /\ UNCHANGED <<limit, events, cooldown, sent>>

\* HTTP 429 or 418.
Refused ==
    /\ stage = "request"
    /\ \E header \in RetryAfters : cooldown' = Most(cooldown, RetryAfterSeconds(header))
    /\ sinceAnswer' = 0
    /\ Release
    /\ UNCHANGED <<limit, events, sent>>

\* No answer: the connection fails or the request times out.  The time of
\* the last call stays what it was.
Unanswered ==
    /\ stage = "request"
    /\ Release
    /\ UNCHANGED <<limit, events, cooldown, sinceAnswer, sent>>

\* The task is cancelled, in line for the lock or anywhere inside of it.
Cancelled(c) ==
    /\ Waits(c)
    /\ IF Head(queue) = c
       THEN Release
       ELSE /\ \E i \in 2..Len(queue) :
                 /\ queue[i] = c
                 /\ queue' = SubSeq(queue, 1, i - 1) \o SubSeq(queue, i + 1, Len(queue))
            /\ UNCHANGED <<stage, sleep>>
    /\ UNCHANGED <<limit, events, cooldown, sinceAnswer, sent>>

-----------------------------------------------------------------------------
Aged(log) == [i \in DOMAIN log |-> Least(log[i] + 1, Window)]

Tick ==
    /\ events' = Aged(events)
    /\ sent' = LET aged == Aged(sent) IN SubSeq(aged, Expired(aged) + 1, Len(aged))
    /\ cooldown' = Most(cooldown - 1, 0)
    /\ sleep' = Most(sleep - 1, 0)
    /\ sinceAnswer' = Least(sinceAnswer + 1, Interval)
    /\ UNCHANGED <<limit, queue, stage>>

Next ==
    \/ \E c \in Callers : Call(c) \/ Cancelled(c)
    \/ Entered \/ Woken \/ Answered \/ Refused \/ Unanswered \/ Tick

\* Time passes, the event loop runs what it can, and a request ends, at the
\* latest by its timeout.
Fairness ==
    /\ WF_vars(Tick) /\ WF_vars(Entered) /\ WF_vars(Woken)
    /\ WF_vars(Answered \/ Refused \/ Unanswered)

Spec == Init /\ [][Next]_vars /\ Fairness
-----------------------------------------------------------------------------
\* Every variable holds values of its type, and the lock has an owner
\* exactly while somebody is in a stage of the call.
TypeOK ==
    /\ limit \in Limits
    /\ queue \in Seq(Callers) /\ \A i, j \in 1..Len(queue) : i # j => queue[i] # queue[j]
    /\ stage \in Stages /\ (stage = "free" <=> queue = <<>>)
    /\ sleep \in Nat /\ cooldown \in Nat
    /\ events \in Seq(0..Window) /\ sent \in Seq(0..(Window - 1))
    /\ sinceAnswer \in 0..Interval

\* In no stretch of Window do the requests that were really sent weigh more
\* than the limit, whoever was cancelled, refused or not answered meanwhile.
\* The exception is a limit below the weight of a single request, which the
\* settings allow: then there is one request at a time in the window.
WithinBudget == Len(sent) <= 1 \/ Len(sent) * Weight <= limit

\* A request goes out only when the time that the last refusal asked for is
\* over and the last answer is Interval ago, although the caller found that
\* out before it slept.
Polite ==
    [][stage # "request" /\ stage' = "request" => cooldown = 0 /\ sinceAnswer = Interval]_vars

\* Whoever waits for the lock gets through: no chain of refusals, cancelled
\* calls or spent budgets starves it, and neither does a limit that the
\* weight of its request exceeds.
CallersAreServed == \A c \in Callers : Waits(c) ~> ~Waits(c)
=============================================================================
