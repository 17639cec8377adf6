---------------------------- MODULE RedisEventBus ----------------------------
(***************************************************************************)
(* RedisStreamEventBus (src/src/storage/redis_event_bus.py) as the members *)
(* of one consumer group see it: read() claims the pending messages of     *)
(* others, fetches new ones, and moves those it cannot decode, poison, to  *)
(* the alerts; ack() takes a message off the pending list.                 *)
(*                                                                         *)
(* An entry of the stream is its id.  Redis runs a command at once; a call *)
(* whose answer is lost is tried again, or raises, and then the caller     *)
(* starts over with nothing in hand, as it does after a crash.             *)
(***************************************************************************)
EXTENDS Integers, FiniteSets

CONSTANTS
    Consumers,
    None,
    Poison,       \* the entries whose fields are no event
    Binary,       \* those of them whose fields are not even text
    Count,        \* messages per read
    MaxLen,       \* stream_max_len
    MaxEntry,     \* entries added to the stream, a bound on the model
    MaxFailures   \* lost answers and crashes, a bound on the model

Ids == 1..MaxEntry

ASSUME ConsumersAssumption == None \notin Consumers
ASSUME CountAssumption == Count \in Nat \ {0}
ASSUME MaxLenAssumption == MaxLen \in Nat
ASSUME BoundsAssumption == MaxEntry \in Nat /\ MaxFailures \in Nat
ASSUME PoisonAssumption == Poison \subseteq Ids /\ Binary \subseteq Poison

VARIABLES
    added,       \* the last id of the stream
    trimmed,     \* the last id that the stream does not keep any more
    group,       \* whether the consumer group exists
    delivered,   \* the last id it has delivered
    pending,     \* its pending entries and their owners
    idle,        \* those pending for pending_idle_ms since they were claimed
    readers,     \* where each consumer is in read(), and what it has in hand
    handled,     \* the entries that a consumer has handled
    alerted,     \* the poison entries that system:alerts tells of
    logged,      \* those whose alert could not be published
    failures

redis == <<added, trimmed, group, delivered, pending, idle>>
vars == <<redis, readers, handled, alerted, logged, failures>>

Pcs == {"away", "claim", "fetch", "alert", "poison_ack", "handle", "ack"}

\* raw are the messages to decode, got those decoded; fetched says whether
\* the new messages have been fetched.
Reader(pc, raw, got, fetched) == [pc |-> pc, raw |-> raw, got |-> got, fetched |-> fetched]
Away == Reader("away", {}, {}, FALSE)

First(ids) == CHOOSE i \in ids : \A j \in ids : i <= j
FirstFew(ids, n) == {i \in ids : Cardinality({j \in ids : j < i}) < n}

Pending == {i \in Ids : pending[i] # None}

Init ==
    /\ added = 0 /\ trimmed = 0
    /\ group = FALSE /\ delivered = 0
    /\ pending = [i \in Ids |-> None] /\ idle = {}
    /\ readers = [c \in Consumers |-> Away]
    /\ handled = {} /\ alerted = {} /\ logged = {}
    /\ failures = 0

-----------------------------------------------------------------------------
(* The stream. *)

\* XADD by a producer, which trims the stream, if not to the last entry.
Added ==
    /\ added < MaxEntry
    /\ added' = added + 1
    /\ \E n \in trimmed..added : (n = trimmed \/ added' - n >= MaxLen) /\ trimmed' = n
    /\ UNCHANGED <<group, delivered, pending, idle, readers, handled, alerted, logged, failures>>

GrowsIdle(i) ==
    /\ i \in Pending \ idle
    /\ idle' = idle \cup {i}
    /\ UNCHANGED <<added, trimmed, group, delivered, pending, readers, handled, alerted, logged,
                   failures>>

-----------------------------------------------------------------------------
(* read(). *)

\* Decodes up to the first poison entry; where read() then awaits, returns,
\* or raises because the fields of the poison cannot go into an alert.
Decode(raw, got, fetched) ==
    LET good == {i \in raw : \A j \in Poison \cap raw : i < j}
        rest == raw \ good
        all == got \cup good
    IN  IF rest # {} THEN IF First(rest) \in Binary THEN Away
                          ELSE Reader("alert", rest, all, fetched)
        ELSE IF ~fetched /\ Cardinality(all) < Count THEN Reader("fetch", {}, all, FALSE)
        ELSE IF all # {} THEN Reader("handle", {}, all, FALSE) ELSE Away

\* A slip of ReadStarted: no claim of what others have left.
ReadStartedFetches(c) ==
    /\ readers[c].pc = "away"
    /\ group' = TRUE
    /\ readers' = [readers EXCEPT ![c].pc = "fetch"]
    /\ UNCHANGED <<added, trimmed, delivered, pending, idle, handled, alerted, logged, failures>>

\* XGROUP CREATE from the first entry; that the group exists is no error.
ReadStarted(c) ==
    /\ readers[c].pc = "away"
    /\ group' = TRUE
    /\ readers' = [readers EXCEPT ![c].pc = "claim"]
    /\ UNCHANGED <<added, trimmed, delivered, pending, idle, handled, alerted, logged, failures>>

\* XAUTOCLAIM from the lowest id: entries that are trimmed leave the list.
Scanned == FirstFew(idle, Count)
Claimed == {i \in Scanned : i > trimmed}

ClaimPending(c) ==
    /\ pending' = [i \in Ids |-> IF i \in Claimed THEN c
                                 ELSE IF i \in Scanned THEN None ELSE pending[i]]
    /\ idle' = idle \ Scanned
    /\ UNCHANGED <<added, trimmed, group, delivered>>

ClaimAnswered(c) ==
    /\ readers[c].pc = "claim"
    /\ ClaimPending(c)
    /\ readers' = [readers EXCEPT ![c] = Decode(Claimed, {}, FALSE)]
    /\ UNCHANGED <<handled, alerted, logged, failures>>

\* A slip of New: what has been claimed is not taken off the count.
NewBeyondCount(c) == FirstFew({i \in Ids : delivered < i /\ trimmed < i /\ i <= added}, Count)

\* XREADGROUP with ">": as many new entries as there is room for.
New(c) ==
    FirstFew({i \in Ids : delivered < i /\ trimmed < i /\ i <= added},
             Count - Cardinality(readers[c].got))

FetchNew(c) ==
    /\ pending' = [i \in Ids |-> IF i \in New(c) THEN c ELSE pending[i]]
    /\ delivered' = IF New(c) = {} THEN delivered
                    ELSE CHOOSE i \in New(c) : \A j \in New(c) : i >= j
    /\ UNCHANGED <<added, trimmed, group, idle>>

FetchAnswered(c) ==
    /\ readers[c].pc = "fetch"
    /\ FetchNew(c)
    /\ readers' = [readers EXCEPT ![c] = Decode(New(c), @.got, TRUE)]
    /\ UNCHANGED <<handled, alerted, logged, failures>>

-----------------------------------------------------------------------------
(* _dead_letter_poison_message, for the first of the messages to decode. *)

Alerted(c) ==
    /\ readers[c].pc = "alert"
    /\ alerted' = alerted \cup {First(readers[c].raw)}
    /\ readers' = [readers EXCEPT ![c].pc = "poison_ack"]
    /\ UNCHANGED <<redis, handled, logged, failures>>

\* A slip of AlertFailed: nobody is told.
AlertFailedSilently(c) ==
    /\ readers[c].pc = "alert"
    /\ readers' = [readers EXCEPT ![c].pc = "poison_ack"]
    /\ UNCHANGED <<redis, handled, alerted, logged, failures>>

\* publish() gave up: the failure is logged, and the message dropped.
AlertFailed(c) ==
    /\ readers[c].pc = "alert"
    /\ logged' = logged \cup {First(readers[c].raw)}
    /\ readers' = [readers EXCEPT ![c].pc = "poison_ack"]
    /\ UNCHANGED <<redis, handled, alerted, failures>>

\* XACK.
Ack(i) ==
    /\ pending' = [pending EXCEPT ![i] = None]
    /\ idle' = idle \ {i}
    /\ UNCHANGED <<added, trimmed, group, delivered>>

PoisonAcked(c) ==
    /\ readers[c].pc = "poison_ack"
    /\ LET i == First(readers[c].raw)
       IN  /\ Ack(i)
           /\ readers' = [readers EXCEPT ![c] = Decode(@.raw \ {i}, @.got, @.fetched)]
    /\ UNCHANGED <<handled, alerted, logged, failures>>

-----------------------------------------------------------------------------
(* What a consumer does with the messages: it handles and acknowledges one *)
(* after the other.                                                        *)

Handled(c) ==
    /\ readers[c].pc = "handle"
    /\ handled' = handled \cup {First(readers[c].got)}
    /\ readers' = [readers EXCEPT ![c].pc = "ack"]
    /\ UNCHANGED <<redis, alerted, logged, failures>>

Acked(c) ==
    /\ readers[c].pc = "ack"
    /\ LET i == First(readers[c].got)
       IN  /\ Ack(i)
           /\ readers' = [readers EXCEPT ![c] = Decode({}, @.got \ {i}, TRUE)]
    /\ UNCHANGED <<handled, alerted, logged, failures>>

-----------------------------------------------------------------------------
(* Failures. *)

Fails == failures < MaxFailures /\ failures' = failures + 1

\* Redis has run the command, and retry_async runs it again.
AnswerLost(c) ==
    /\ Fails
    /\ \/ /\ \/ readers[c].pc = "claim" /\ ClaimPending(c)
             \/ readers[c].pc = "fetch" /\ FetchNew(c)
             \/ readers[c].pc = "poison_ack" /\ Ack(First(readers[c].raw))
             \/ readers[c].pc = "ack" /\ Ack(First(readers[c].got))
          /\ UNCHANGED alerted
       \/ /\ readers[c].pc = "alert"
          /\ alerted' = alerted \cup {First(readers[c].raw)}
          /\ UNCHANGED redis
    /\ UNCHANGED <<readers, handled, logged>>

\* The retries are used up and the call raises, or the consumer crashes.
Abandoned(c) ==
    /\ Fails
    /\ readers[c].pc # "away"
    /\ readers' = [readers EXCEPT ![c] = Away]
    /\ UNCHANGED <<redis, handled, alerted, logged>>

-----------------------------------------------------------------------------
Works(c) ==
    \/ ReadStarted(c) \/ ClaimAnswered(c) \/ FetchAnswered(c)
    \/ Alerted(c) \/ AlertFailed(c) \/ PoisonAcked(c) \/ Handled(c) \/ Acked(c)

Next ==
    \/ Added
    \/ \E i \in Ids : GrowsIdle(i)
    \/ \E c \in Consumers : Works(c) \/ AnswerLost(c) \/ Abandoned(c)

Spec == Init /\ [][Next]_vars
-----------------------------------------------------------------------------
\* Every variable holds values of its type, and a read has in hand no more
\* messages than were asked for.
TypeOK ==
    /\ added \in 0..MaxEntry /\ trimmed \in 0..added /\ delivered \in 0..added
    /\ group \in BOOLEAN
    /\ pending \in [Ids -> Consumers \cup {None}]
    /\ idle \subseteq Pending
    /\ readers \in [Consumers -> [pc : Pcs, raw : SUBSET Ids, got : SUBSET Ids, fetched : BOOLEAN]]
    /\ \A c \in Consumers : Cardinality(readers[c].raw \cup readers[c].got) <= Count
    /\ handled \subseteq Ids /\ alerted \subseteq Poison /\ logged \subseteq Poison
    /\ failures \in 0..MaxFailures

Settled == handled \cup alerted \cup logged

\* No message is forgotten: once delivered, it is handled, or told of as
\* poison, or still pending for somebody to claim, or it has been trimmed,
\* whichever answers were lost and whoever crashed in the middle of a batch.
NothingForgotten == \A i \in 1..delivered : i \in Settled \cup Pending \/ i <= trimmed

-----------------------------------------------------------------------------
(* Fairness: consumers keep reading, time passes, and a call returns, for  *)
(* the client's sockets time out; failures are bounded already.            *)
Fairness ==
    /\ \A c \in Consumers : WF_vars(Works(c))
    /\ \A i \in Ids : WF_vars(GrowsIdle(i))

LiveSpec == Spec /\ Fairness

\* Every message is settled in the end, unless it is trimmed before: neither
\* a poison message nor a crashed consumer blocks the group.  A poison entry
\* that is not text does: read() raises whenever it is in the batch.
MessagesSettle == \A i \in Ids : (i <= added) ~> (i \in Settled \/ i <= trimmed)
=============================================================================
