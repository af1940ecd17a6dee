--------------------------- MODULE ExecutionGateway ---------------------------
(***************************************************************************)
(* The order life cycle of execution-engine: a Redis consumer group        *)
(* (infra/stream_consumer.py) hands signal entries to the gateway          *)
(* (execution/gateway.py), which records an intent in SQLite               *)
(* (state/store.py), submits it to a broker (broker/*.py) and reconciles   *)
(* what it could not settle.                                               *)
(*                                                                         *)
(* One engine process runs three asyncio tasks side by side: the consumer  *)
(* loop, the reclaim loop and the reconcile loop (main.py).  A task gives  *)
(* up control at every await of the store, the broker or Redis, so each    *)
(* await is an action; the synchronous code between two awaits belongs to  *)
(* the action before it.  The numeric limits of risk/gate.py are left open *)
(* here: the gate may admit or deny.  The kill switch may be flipped at any *)
(* moment, so each read of it returns either value.                        *)
(***************************************************************************)
EXTENDS Naturals, FiniteSets

CONSTANTS
    Events,             \* contract event ids: the primary key of the orders table
    DedupeKeys,         \* hashes of symbol, side, horizon and time bucket
    KeyOf,              \* [Events -> DedupeKeys]
    NumEntries,         \* entries 1..NumEntries of the signal stream, in order
    EventOf,            \* [Entries -> Events]; a re-published signal repeats its event
    KindOf,             \* [Entries -> Kinds]: what from_stream_entry makes of an entry
    Modes,              \* values of TRADING_MODE the engine is (re)started with
    AssumeIdempotency,  \* ASSUME_CLIENT_ORDER_IDEMPOTENCY
    VenueOutcomes,      \* how an open order may end at the venue
    LateVenueErrors,    \* may an accepted order be answered by a non-network error?
    SignalBatch,        \* SIGNAL_BATCH
    MaxAttempts,        \* MAX_SUBMIT_ATTEMPTS
    MaxFaults,          \* bound: broker, store and Redis failures in a behaviour
    MaxCrashes,         \* bound: process restarts in a behaviour
    Ageing              \* bound: events that may grow old in a behaviour

Entries == 1..NumEntries
Kinds == {"signal", "skip", "invalid"}
Tasks == {"run", "reclaim", "reconcile"}
Dispatchers == {"run", "reclaim"}

ASSUME EventsAssumption == KeyOf \in [Events -> DedupeKeys]
ASSUME StreamAssumption ==
    /\ NumEntries \in Nat
    /\ EventOf \in [Entries -> Events]
    /\ KindOf \in [Entries -> Kinds]
ASSUME SettingsAssumption ==
    /\ Modes \subseteq {"disabled", "paper", "live"} /\ Modes # {}
    /\ AssumeIdempotency \in BOOLEAN
    /\ VenueOutcomes \subseteq {"closed", "canceled", "rejected", "expired"}
    /\ LateVenueErrors \in BOOLEAN
    /\ SignalBatch \in Nat \ {0}
    /\ MaxAttempts \in Nat \ {0}
ASSUME BoundsAssumption == MaxFaults \in Nat /\ MaxCrashes \in Nat /\ Ageing \subseteq Events

(* OrderStatus, and the set its property `terminal` returns TRUE for. *)
OrderStatus == {"INTENT", "SUBMITTED", "PARTIALLY_FILLED", "FILLED", "CANCELED",
                "REJECTED", "EXPIRED", "UNKNOWN", "MANUAL_REVIEW"}
Terminal == {"FILLED", "CANCELED", "REJECTED", "EXPIRED", "MANUAL_REVIEW"}
Pending == {"INTENT", "UNKNOWN", "SUBMITTED", "PARTIALLY_FILLED"}

(* A row of the orders table; ref tells whether broker_order_id is set.  An *)
(* event without a row has status NONE.                                     *)
Row == [status : OrderStatus \cup {"NONE"}, attempts : Nat, ref : BOOLEAN]
NoRow == [status |-> "NONE", attempts |-> 0, ref |-> FALSE]

(* What a ccxt venue reports of an order ("missing": no usable status), and *)
(* the OrderStatus _map_status gives it.                                    *)
Reports == {"open", "closed", "canceled", "rejected", "expired", "missing"}
(* mutant: only two words of the venue are translated *)
MapTwoStatuses(s) == IF s = "open" THEN "SUBMITTED" ELSE IF s = "rejected" THEN "REJECTED" ELSE s
MapStatus(s) ==
    CASE s = "open" -> "SUBMITTED"
      [] s = "closed" -> "FILLED"
      [] s = "canceled" -> "CANCELED"
      [] s = "rejected" -> "REJECTED"
      [] s = "expired" -> "EXPIRED"
      [] OTHER -> "UNKNOWN"

VARIABLES
    orders,       \* the SQLite orders table: [Events -> Row]
    delivered,    \* last entry the consumer group has delivered
    cursor,       \* last entry of its batch the consumer loop has dispatched
    pel,          \* the group's pending entries list: delivered, not acknowledged
    claimed,      \* entries XAUTOCLAIM gave the reclaim loop, still to be dispatched
    deadLetters,  \* entries copied to the dead-letter stream
    pc,           \* [Tasks -> Labels]: the await each task is in
    entry,        \* [Tasks -> 0..NumEntries]: the entry a dispatcher handles
    rec,          \* the OrderRecord a task holds, as it read it
    verdict,      \* the status a task is about to write, and whether it then acks
    queue,        \* records of reconcile_pending's snapshot still to be handled
    mode,         \* TRADING_MODE of the running process
    paper,        \* events whose order the PaperBroker object holds, all FILLED
    placed,       \* [Events -> Nat]: orders the venue has created for an event
    venue,        \* the venue's own status of the event's order
    orphans,      \* events with a create_order request nobody waits for any more
    aged,         \* events older than MAX_RECONCILE_AGE_MS and ORDER_POLL_TIMEOUT_MS
    faults,       \* failures so far
    crashes       \* restarts so far

store   == <<orders>>
stream  == <<delivered, cursor, pel, claimed, deadLetters>>
locals  == <<pc, entry, rec, verdict>>
broker  == <<paper, placed, venue, orphans>>
bounds  == <<faults, crashes>>
vars == <<orders, delivered, cursor, pel, claimed, deadLetters, pc, entry, rec, verdict,
          queue, mode, paper, placed, venue, orphans, aged, faults, crashes>>

(* Labels of the awaits that are calls of the store. *)
StoreLabels == {"recordInvalid", "deny", "getEvent", "getDedupe", "gate", "insert",
                "attemptSubmit", "attemptUnresolved", "mark"}
(* Labels from the moment create_order may be under way to its answer. *)
PlacingLabels == {"place", "accepted"}
Labels == StoreLabels \cup PlacingLabels \cup
          {"idle", "deadLetter", "fetch", "ack"}

Record == [event : Events, row : Row]
NoRecord == [event |-> "none", row |-> NoRow]
Verdict == [status : OrderStatus \cup {"NONE"}, ref : BOOLEAN, ack : BOOLEAN]
NoVerdict == [status |-> "NONE", ref |-> FALSE, ack |-> FALSE]

HasRow(e) == orders[e].status # "NONE"
HoldsKey(e) == orders[e].status \notin {"NONE", "REJECTED"}
KeyHolders(e) == {d \in Events : KeyOf[d] = KeyOf[e] /\ HoldsKey(d)}
RecordOf(e) == [event |-> e, row |-> orders[e]]
EventAt(t) == EventOf[entry[t]]

(* capabilities().supports_client_order_id of the broker _build_broker makes *)
(* mutant: every broker is taken to support them *)
AnyBrokerSupports == TRUE
SupportsClientOrderId == mode # "live" \/ AssumeIdempotency

Init ==
    /\ orders = [e \in Events |-> NoRow]
    /\ delivered = 0 /\ cursor = 0 /\ pel = {} /\ claimed = {} /\ deadLetters = {}
    /\ pc = [t \in Tasks |-> "idle"]
    /\ entry = [t \in Tasks |-> 0]
    /\ rec = [t \in Tasks |-> NoRecord]
    /\ verdict = [t \in Tasks |-> NoVerdict]
    /\ queue = {}
    /\ mode \in Modes /\ paper = {}
    /\ placed = [e \in Events |-> 0]
    /\ venue = [e \in Events |-> "none"]
    /\ orphans = {}
    /\ aged = {}
    /\ faults = 0 /\ crashes = 0

-----------------------------------------------------------------------------
(* Control flow of one task.  Only _handle_existing looks into the record: a   *)
(* task that leaves fetch_order keeps just the record's event.                 *)

Forget(r) == [event |-> r.event, row |-> NoRow]

Goto(t, label) ==
    /\ pc' = [pc EXCEPT ![t] = label]
    /\ rec' = [rec EXCEPT ![t] = Forget(@)]
    /\ UNCHANGED <<entry, verdict>>

(* The coroutine returns a ProcessOutcome.  _dispatch acknowledges the entry *)
(* when it says ack; reconcile_pending ignores the outcome.                  *)
Return(t, ack) ==
    /\ pc' = [pc EXCEPT ![t] = IF ack /\ t \in Dispatchers THEN "ack" ELSE "idle"]
    /\ entry' = [entry EXCEPT ![t] = IF ack THEN @ ELSE 0]
    /\ rec' = [rec EXCEPT ![t] = NoRecord]
    /\ verdict' = [verdict EXCEPT ![t] = NoVerdict]

(* The task goes on to await mark_status(event of its record, status). *)
Write(t, status, ref, ack) ==
    /\ pc' = [pc EXCEPT ![t] = "mark"]
    /\ rec' = [rec EXCEPT ![t] = Forget(@)]
    /\ verdict' = [verdict EXCEPT ![t] = [status |-> status, ref |-> ref, ack |-> ack]]
    /\ UNCHANGED entry

(* mutant: a known row defers the entry, whatever its status *)
DeferExisting(t, r) == Return(t, FALSE)

(* The synchronous head of _handle_existing: settled rows are only replayed. *)
HandleExisting(t, r) ==
    IF r.row.status \in Terminal \/ mode = "disabled"
    THEN Return(t, TRUE)
    ELSE /\ pc' = [pc EXCEPT ![t] = "fetch"]
         /\ rec' = [rec EXCEPT ![t] = r]
         /\ UNCHANGED <<entry, verdict>>

(* A failure of the broker, the store or Redis, as often as the bound allows. *)
Fault == faults < MaxFaults /\ faults' = faults + 1 /\ UNCHANGED crashes
FaultIf(cond) == IF cond THEN Fault ELSE UNCHANGED bounds

-----------------------------------------------------------------------------
(* StreamConsumer. *)

(* XREADGROUP ">": a batch of new entries enters the pending entries list. *)
ReadGroup ==
    /\ pc["run"] = "idle" /\ cursor = delivered
    /\ \E last \in (delivered + 1)..NumEntries :
         /\ last <= delivered + SignalBatch
         /\ delivered' = last
         /\ pel' = pel \cup ((delivered + 1)..last)
    /\ UNCHANGED <<store, cursor, claimed, deadLetters, locals, queue, broker, mode, aged, bounds>>

(* The first step of gateway.process: from_stream_entry sorts the entry out. *)
StartProcess(t, i) ==
    /\ pc[t] = "idle"
    /\ entry' = [entry EXCEPT ![t] = i]
    /\ pc' = [pc EXCEPT ![t] =
                CASE KindOf[i] = "skip" -> "ack"
                  [] KindOf[i] = "invalid" -> "recordInvalid"
                  [] KindOf[i] = "signal" /\ mode = "disabled" -> "deny"
                  [] OTHER -> "getEvent"]
    /\ UNCHANGED <<rec, verdict>>

(* The consumer loop dispatches the next entry of its batch. *)
Dispatch ==
    /\ cursor < delivered
    /\ cursor' = cursor + 1
    /\ StartProcess("run", cursor + 1)
    /\ UNCHANGED <<store, delivered, pel, claimed, deadLetters, queue, broker, mode, aged, bounds>>

(* XAUTOCLAIM hands pending entries to the reclaim loop.  RECLAIM_MIN_IDLE_MS *)
(* is not a lock: an entry the consumer loop is still handling, or that waits *)
(* in its batch, is claimed once it has been idle long enough.                *)
Reclaim(i) ==
    /\ pc["reclaim"] = "idle" /\ claimed = {}
    /\ i \in pel
    /\ claimed' \in {batch \in SUBSET pel : i \in batch}
    /\ UNCHANGED <<store, delivered, cursor, pel, deadLetters, locals, queue, broker, mode, aged, bounds>>

(* The reclaim loop dispatches them in order, acknowledged meanwhile or not. *)
DispatchClaimed(i) ==
    /\ i \in claimed /\ \A j \in claimed : i <= j
    /\ claimed' = claimed \ {i}
    /\ StartProcess("reclaim", i)
    /\ UNCHANGED <<store, delivered, cursor, pel, deadLetters, queue, broker, mode, aged, bounds>>

(* _dead_letter copies an invalid entry; a failing XADD is only logged. *)
DeadLetter(t) ==
    /\ pc[t] = "deadLetter"
    /\ \/ deadLetters' = deadLetters \cup {entry[t]} /\ UNCHANGED bounds
       \/ UNCHANGED deadLetters /\ Fault
    /\ Goto(t, "ack")
    /\ UNCHANGED <<store, delivered, cursor, pel, claimed, queue, broker, mode, aged>>

(* XACK; a failing one is only logged and the entry stays pending. *)
Ack(t) ==
    /\ pc[t] = "ack"
    /\ \/ pel' = pel \ {entry[t]} /\ UNCHANGED bounds
       \/ UNCHANGED pel /\ Fault
    /\ Return(t, FALSE)
    /\ UNCHANGED <<store, delivered, cursor, claimed, deadLetters, queue, broker, mode, aged>>

-----------------------------------------------------------------------------
(* ExecutionGateway.process. *)

(* store.record_rejection: INSERT OR IGNORE of a REJECTED row. *)
RecordRejection(e) ==
    orders' = IF HasRow(e) THEN orders
              ELSE [orders EXCEPT ![e] = [status |-> "REJECTED", attempts |-> 1, ref |-> FALSE]]

(* _record_invalid; the entry is dead-lettered next. *)
RecordInvalid(t) ==
    /\ pc[t] = "recordInvalid"
    /\ RecordRejection(EventAt(t))
    /\ Goto(t, "deadLetter")
    /\ UNCHANGED <<stream, queue, broker, mode, aged, bounds>>

(* _record_rejection after the gate (or TRADING_MODE=disabled) denied the signal. *)
Deny(t) ==
    /\ pc[t] = "deny"
    /\ RecordRejection(EventAt(t))
    /\ Return(t, TRUE)
    /\ UNCHANGED <<stream, queue, broker, mode, aged, bounds>>

(* get_by_event: a known event is replayed or reconciled, never re-evaluated. *)
GetByEvent(t) ==
    /\ pc[t] = "getEvent"
    /\ IF HasRow(EventAt(t)) THEN HandleExisting(t, RecordOf(EventAt(t)))
                             ELSE Goto(t, "getDedupe")
    /\ UNCHANGED <<store, stream, queue, broker, mode, aged, bounds>>

(* get_by_dedupe: another event of the same window already holds the key. *)
GetByDedupe(t) ==
    /\ pc[t] = "getDedupe"
    /\ IF KeyHolders(EventAt(t)) # {} THEN Return(t, TRUE) ELSE Goto(t, "gate")
    /\ UNCHANGED <<store, stream, queue, broker, mode, aged, bounds>>

(* account_snapshot, the store's daily figures and gate.evaluate: the kill     *)
(* switch or any limit may deny, and a failing broker defers the entry (the   *)
(* paper broker does not fail).                                               *)
RiskGate(t) ==
    /\ pc[t] = "gate"
    /\ \/ Goto(t, "deny") /\ UNCHANGED bounds
       \/ Goto(t, "insert") /\ UNCHANGED bounds
       \/ mode = "live" /\ Return(t, FALSE) /\ Fault
    /\ UNCHANGED <<store, stream, queue, broker, mode, aged>>

(* insert_intent: INSERT OR IGNORE under the primary key and the partial     *)
(* unique index on dedupe_key.  The task that created the row submits it; any *)
(* other continues with the row that was there, of its event or of its key.   *)
InsertIntent(t) ==
    LET e == EventAt(t)
        intent == [status |-> "INTENT", attempts |-> 1, ref |-> FALSE]
    IN
    /\ pc[t] = "insert"
    /\ \/ /\ ~HasRow(e) /\ KeyHolders(e) = {}
          /\ orders' = [orders EXCEPT ![e] = intent]
          /\ rec' = [rec EXCEPT ![t] = [event |-> e, row |-> NoRow]]
          /\ pc' = [pc EXCEPT ![t] = "place"]
          /\ UNCHANGED <<entry, verdict>>
       \/ /\ HasRow(e)
          /\ HandleExisting(t, RecordOf(e))
          /\ UNCHANGED orders
       \/ /\ ~HasRow(e)
          /\ \E d \in KeyHolders(e) : HandleExisting(t, RecordOf(d))
          /\ UNCHANGED orders
    /\ UNCHANGED <<stream, queue, broker, mode, aged, bounds>>

-----------------------------------------------------------------------------
(* _submit, and the venue behind broker.place_order. *)

(* The venue creates an order.  ASSUME_CLIENT_ORDER_IDEMPOTENCY is the         *)
(* operator's word that it recognises a client order id it has seen; without   *)
(* it the adapter does not even send the id.                                   *)
Create(e) ==
    IF AssumeIdempotency /\ placed[e] > 0
    THEN UNCHANGED <<placed, venue>>
    ELSE /\ placed' = [placed EXCEPT ![e] = @ + 1]
         /\ venue' = [venue EXCEPT ![e] = "open"]

(* PaperBroker.place_order is one synchronous step: it returns the order it    *)
(* has for the client order id, or fills a new one, or refuses it.             *)
PaperPlace(t) ==
    LET e == rec[t].event IN
    /\ mode # "live" /\ pc[t] = "place"
    /\ \/ paper' = paper \cup {e} /\ Write(t, "FILLED", TRUE, TRUE)
       \/ e \notin paper /\ UNCHANGED paper /\ Write(t, "REJECTED", FALSE, TRUE)
    /\ UNCHANGED <<store, stream, queue, placed, venue, orphans, mode, aged, bounds>>

(* CcxtBroker.place_order: the request reaches the venue and is accepted. *)
VenueAccepts(t) ==
    /\ mode = "live" /\ pc[t] = "place"
    /\ Create(rec[t].event)
    /\ Goto(t, "accepted")
    /\ UNCHANGED <<store, stream, queue, paper, orphans, mode, aged, bounds>>

(* mutant: a transient error is written off like a permanent one *)
RejectOnTransientError(t) == Write(t, "REJECTED", FALSE, TRUE)

(* except TransientBrokerError: the outcome of the order is not known. *)
OnTransientError(t) == Goto(t, "attemptSubmit")

(* The call fails with the request still travelling, never sent, or refused by *)
(* an answer that is lost.                                                     *)
PlaceTimesOut(t) ==
    /\ mode = "live" /\ pc[t] = "place"
    /\ orphans' \in {orphans, orphans \cup {rec[t].event}}
    /\ OnTransientError(t)
    /\ Fault
    /\ UNCHANGED <<store, stream, queue, paper, placed, venue, mode, aged>>

(* The venue's answer is lost: a network error after it accepted the order. *)
AnswerLost(t) ==
    /\ pc[t] = "accepted"
    /\ OnTransientError(t)
    /\ Fault
    /\ UNCHANGED <<store, stream, queue, broker, mode, aged>>

(* The answer to an accepted order carries a status and an id, or lacks one. *)
AnswerAccepted(t) ==
    /\ pc[t] = "accepted"
    /\ \E s \in {venue[rec[t].event], "missing"}, ref \in BOOLEAN :
         /\ Write(t, MapStatus(s), ref, TRUE)
         /\ FaultIf(s = "missing" \/ ~ref)
    /\ UNCHANGED <<store, stream, queue, broker, mode, aged>>

(* PermanentBrokerError, which is every error _classify does not know to be    *)
(* transient: the adapter or the venue refuses the order.                      *)
PlaceRefused(t) ==
    /\ mode = "live"
    /\ \/ pc[t] = "place" /\ UNCHANGED bounds
       \/ pc[t] = "accepted" /\ LateVenueErrors /\ Fault
    /\ Write(t, "REJECTED", FALSE, TRUE)
    /\ UNCHANGED <<store, stream, queue, broker, mode, aged>>

(* attempts + 1 of mark_attempt.  Beyond MaxAttempts nobody tells counts apart, *)
(* so the counter stays there.                                                  *)
NextAttempt(e) ==
    IF orders[e].attempts < MaxAttempts THEN orders[e].attempts + 1 ELSE MaxAttempts

(* mutant: the attempt is not counted *)
CountNothing(e) == UNCHANGED orders

CountAttempt(e) ==
    orders' = [orders EXCEPT ![e] =
                [status |-> @.status, attempts |-> NextAttempt(e), ref |-> @.ref]]

(* mark_attempt after a TransientBrokerError, then UNKNOWN or MANUAL_REVIEW. *)
AttemptSubmit(t) ==
    LET e == rec[t].event IN
    /\ pc[t] = "attemptSubmit"
    /\ CountAttempt(e)
    /\ IF NextAttempt(e) >= MaxAttempts THEN Write(t, "MANUAL_REVIEW", FALSE, TRUE)
                                  ELSE Write(t, "UNKNOWN", FALSE, FALSE)
    /\ UNCHANGED <<stream, queue, broker, mode, aged, bounds>>

(* mark_status: an UPDATE that asks for nothing but the event id.  It fails   *)
(* only when another event took the dedupe key while this row was REJECTED.   *)
MarkStatus(t) ==
    LET e == rec[t].event
        v == verdict[t]
        keyTaken == v.status # "REJECTED" /\ KeyHolders(e) \ {e} # {}
    IN
    /\ pc[t] = "mark"
    /\ \/ keyTaken /\ UNCHANGED orders /\ Return(t, FALSE)
       \/ /\ ~keyTaken
          /\ orders' = [orders EXCEPT ![e] =
                [status |-> v.status, attempts |-> @.attempts, ref |-> @.ref \/ v.ref]]
          /\ Return(t, v.ack)
    /\ UNCHANGED <<stream, queue, broker, mode, aged, bounds>>

-----------------------------------------------------------------------------
(* reconcile_pending and the rest of _handle_existing. *)

(* pending_orders: the reconcile loop takes a snapshot of the pending rows... *)
SnapshotPending ==
    /\ mode # "disabled"
    /\ pc["reconcile"] = "idle" /\ queue = {}
    /\ queue' = {RecordOf(e) : e \in {d \in Events : orders[d].status \in Pending}}
    /\ queue' # {}
    /\ UNCHANGED <<store, stream, locals, broker, mode, aged, bounds>>

(* ...and handles its records one by one, as they were when it was taken. *)
ReconcileNext ==
    /\ pc["reconcile"] = "idle"
    /\ \E r \in queue :
         /\ queue' = queue \ {r}
         /\ HandleExisting("reconcile", r)
    /\ UNCHANGED <<store, stream, broker, mode, aged, bounds>>

(* fetch_order finds the order: by broker_order_id at a ccxt venue, by client *)
(* order id in the paper broker.                                              *)
FetchFound(t) ==
    LET e == rec[t].event IN
    /\ pc[t] = "fetch"
    /\ \/ /\ mode # "live" /\ e \in paper
          /\ Write(t, "FILLED", TRUE, TRUE) /\ UNCHANGED bounds
       \/ /\ mode = "live" /\ rec[t].row.ref /\ venue[e] # "none"
          /\ \E s \in {venue[e], "missing"} :
               Write(t, MapStatus(s), TRUE, TRUE) /\ FaultIf(s = "missing")
    /\ UNCHANGED <<store, stream, queue, broker, mode, aged>>

(* fetch_order raises: a transient error defers, a permanent one escalates. *)
FetchRaises(t) ==
    /\ mode = "live" /\ pc[t] = "fetch" /\ rec[t].row.ref
    /\ Return(t, FALSE) \/ Write(t, "MANUAL_REVIEW", FALSE, TRUE)
    /\ Fault
    /\ UNCHANGED <<store, stream, queue, broker, mode, aged>>

(* fetch_order returns None: always for a ccxt order without a broker id,     *)
(* otherwise when the venue does not show the order.  Only a broker that      *)
(* recognises client order ids is asked again, only while the record's        *)
(* attempts (as read) are left, and only if the kill switch reads as off.     *)
FetchNone(t) ==
    LET r == rec[t].row
        old == rec[t].event \in aged
        canRetry == SupportsClientOrderId /\ r.attempts < MaxAttempts
        visibleLater == r.status \in {"SUBMITTED", "PARTIALLY_FILLED"}
    IN
    /\ pc[t] = "fetch"
    /\ IF mode = "live" THEN FaultIf(r.ref)
                        ELSE rec[t].event \notin paper /\ UNCHANGED bounds
    /\ \/ visibleLater /\ ~old /\ Return(t, FALSE)
       \/ visibleLater /\ old /\ Write(t, "MANUAL_REVIEW", FALSE, TRUE)
       \/ ~visibleLater /\ ~canRetry /\ Goto(t, "attemptUnresolved")
       \/ ~visibleLater /\ canRetry /\ Write(t, "MANUAL_REVIEW", FALSE, TRUE)
       \/ ~visibleLater /\ canRetry /\ ~old /\ Goto(t, "place")
    /\ UNCHANGED <<store, stream, queue, broker, mode, aged>>

(* mark_attempt for an order that can be neither found nor submitted again. *)
AttemptUnresolved(t) ==
    LET e == rec[t].event IN
    /\ pc[t] = "attemptUnresolved"
    /\ CountAttempt(e)
    /\ IF NextAttempt(e) >= MaxAttempts THEN Write(t, "MANUAL_REVIEW", FALSE, TRUE)
                                  ELSE Return(t, FALSE)
    /\ UNCHANGED <<stream, queue, broker, mode, aged, bounds>>

-----------------------------------------------------------------------------
(* Exceptions, restarts and the world outside. *)

(* mutant: an exception in the handler does not keep the entry from its XACK *)
HandlerRaisesAcked(t) ==
    /\ pc[t] \in StoreLabels \cup {"accepted"}
    /\ Return(t, TRUE)
    /\ Fault
    /\ UNCHANGED <<store, stream, queue, broker, mode, aged>>

(* A store call raises, or the venue's answer cannot be converted: _dispatch  *)
(* and reconcile_pending log and go on, _record_invalid swallows the error.   *)
HandlerRaises(t) ==
    /\ pc[t] \in StoreLabels \cup {"accepted"}
    /\ IF pc[t] = "recordInvalid" THEN Goto(t, "deadLetter") ELSE Return(t, FALSE)
    /\ Fault
    /\ UNCHANGED <<store, stream, queue, broker, mode, aged>>

(* The process stops anywhere and starts again.  The table, the stream and a  *)
(* real venue survive; the tasks, the batch, the snapshot and the paper       *)
(* broker's memory do not.  A create_order call under way may still arrive.   *)
Crash ==
    /\ crashes < MaxCrashes /\ crashes' = crashes + 1
    /\ pc' = [t \in Tasks |-> "idle"]
    /\ entry' = [t \in Tasks |-> 0]
    /\ rec' = [t \in Tasks |-> NoRecord]
    /\ verdict' = [t \in Tasks |-> NoVerdict]
    /\ queue' = {} /\ cursor' = delivered /\ claimed' = {}
    /\ paper' = {} /\ mode' \in Modes
    /\ \E sent \in SUBSET {t \in Tasks : mode = "live" /\ pc[t] = "place"} :
         orphans' = orphans \cup {rec[t].event : t \in sent}
    /\ UNCHANGED <<store, delivered, pel, deadLetters, placed, venue, aged, faults>>

(* A request nobody waits for reaches the venue after all. *)
OrphanAccepted(e) ==
    /\ e \in orphans /\ orphans' = orphans \ {e}
    /\ Create(e)
    /\ UNCHANGED <<store, stream, locals, queue, paper, mode, aged, bounds>>

(* The venue settles an open order. *)
VenueSettles(e) ==
    /\ venue[e] = "open"
    /\ \E s \in VenueOutcomes : venue' = [venue EXCEPT ![e] = s]
    /\ UNCHANGED <<store, stream, locals, queue, paper, placed, orphans, mode, aged, bounds>>

(* A signal's timestamp passes the reconcile age and the poll timeout, which  *)
(* nobody looks at before its row is pending.                                 *)
GrowOld(e) ==
    /\ e \in Ageing /\ orders[e].status \in Pending
    /\ e \notin aged /\ aged' = aged \cup {e}
    /\ UNCHANGED <<store, stream, locals, queue, broker, mode, bounds>>

-----------------------------------------------------------------------------
(* What task t does next, once it has something in hand. *)
TaskStep(t) ==
    \/ DeadLetter(t) \/ Ack(t) \/ RecordInvalid(t) \/ Deny(t)
    \/ GetByEvent(t) \/ GetByDedupe(t) \/ RiskGate(t)
    \/ InsertIntent(t) \/ PaperPlace(t) \/ VenueAccepts(t) \/ PlaceRefused(t)
    \/ PlaceTimesOut(t) \/ AnswerLost(t) \/ AnswerAccepted(t)
    \/ AttemptSubmit(t) \/ MarkStatus(t) \/ FetchFound(t) \/ FetchRaises(t)
    \/ FetchNone(t) \/ AttemptUnresolved(t) \/ HandlerRaises(t)

Next ==
    \/ ReadGroup \/ Dispatch
    \/ \E i \in Entries : Reclaim(i) \/ DispatchClaimed(i)
    \/ SnapshotPending \/ ReconcileNext
    \/ \E t \in Tasks : TaskStep(t)
    \/ Crash
    \/ \E e \in Events : OrphanAccepted(e) \/ VenueSettles(e) \/ GrowOld(e)

Spec == Init /\ [][Next]_vars

(* The event loop runs every task that is not waiting, and the three loops     *)
(* never end.  XAUTOCLAIM scans the list from 0-0, so while no more than       *)
(* RECLAIM_COUNT entries are pending each of them is claimed again and again.  *)
(* A venue eventually settles a market order, and a signal eventually ages.    *)
Fairness ==
    /\ WF_vars(ReadGroup) /\ WF_vars(Dispatch)
    /\ WF_vars(SnapshotPending) /\ WF_vars(ReconcileNext)
    /\ \A t \in Tasks : WF_vars(TaskStep(t))
    /\ \A i \in Entries : SF_vars(Reclaim(i)) /\ WF_vars(DispatchClaimed(i))
    /\ \A e \in Events : WF_vars(VenueSettles(e)) /\ WF_vars(GrowOld(e))

FairSpec == Spec /\ Fairness

-----------------------------------------------------------------------------
(* Properties. *)

(* The types of the tasks' locals, of the stream and its group, and of the     *)
(* brokers; TypeOK adds the orders table and the bounds.  A row's status is   *)
(* always one of OrderStatus, whatever word the venue used (_map_status).     *)
LocalTypes ==
    /\ pc \in [Tasks -> Labels]
    /\ entry \in [Tasks -> 0..NumEntries]
    /\ rec \in [Tasks -> Record \cup {NoRecord}]
    /\ verdict \in [Tasks -> Verdict]

StreamTypes ==
    /\ delivered \in 0..NumEntries /\ cursor \in 0..delivered
    /\ pel \subseteq Entries /\ claimed \subseteq Entries /\ deadLetters \subseteq Entries

BrokerTypes ==
    /\ mode \in Modes /\ paper \subseteq Events
    /\ placed \in [Events -> Nat]
    /\ venue \in [Events -> (Reports \ {"missing"}) \cup {"none"}]
    /\ orphans \subseteq Events

TypeOK ==
    /\ orders \in [Events -> Row] /\ queue \subseteq Record
    /\ LocalTypes /\ StreamTypes /\ BrokerTypes
    /\ aged \subseteq Events /\ faults \in Nat /\ crashes \in Nat

(* The venue never holds two orders for one signal event, whatever is lost,   *)
(* repeated, delayed or restarted.  This is what the gateway owes a venue     *)
(* without idempotent client order ids: "the gateway never re-submits an      *)
(* ambiguous order" (.env.example).                                           *)
AtMostOneOrder == \A e \in Events : placed[e] <= 1

(* An order of the event exists at the venue and was not refused there. *)
Live(e) == placed[e] > 0 /\ venue[e] # "rejected"

(* A live order always has a row, and the row is not REJECTED: the intent is  *)
(* durable before the venue sees it, and nothing that is ambiguous is written *)
(* off as a rejection.                                                        *)
LiveOrderHoldsKey == \A e \in Events : Live(e) => HoldsKey(e)

(* Two events of one dedupe window are never both live: the partial unique    *)
(* index, the status written after a failure and the venue agree.             *)
OneLiveOrderPerKey ==
    \A e, d \in Events : KeyOf[e] = KeyOf[d] /\ Live(e) /\ Live(d) => e = d

(* An acknowledged entry is never lost: a signal has left a row for its event *)
(* or its dedupe key; an invalid entry a row or a dead letter, unless both    *)
(* writes failed (their errors are only logged).                              *)
AckedIsAccounted ==
    \A i \in (1..delivered) \ pel :
        /\ KindOf[i] = "signal" => \E e \in Events : KeyOf[e] = KeyOf[EventOf[i]] /\ HasRow(e)
        /\ KindOf[i] = "invalid" => HasRow(EventOf[i]) \/ i \in deadLetters \/ faults >= 2

(* Every row ends up in a terminal status for good: the retries, the polls    *)
(* and the counted attempts of _handle_existing all end somewhere.            *)
EventuallySettled == <>[](\A e \in Events : orders[e].status \in Terminal \cup {"NONE"})

(* Every entry of the stream is eventually acknowledged: deferred entries  *)
(* come back through XAUTOCLAIM until their row is settled.                   *)
EventuallyAcked == <>(delivered = NumEntries /\ pel = {})

(* The gateway implements OrderContract: each step of an engine, of its restart *)
(* or of the venue is one step of the contract at most.  A signal counts as    *)
(* answered when the group does not owe it any more.                           *)
SignalEntries == {i \in Entries : KindOf[i] = "signal"}
Contract == INSTANCE OrderContract WITH
    Signals <- SignalEntries,
    Answers <- [i \in SignalEntries |-> {e \in Events : KeyOf[e] = KeyOf[EventOf[i]]}],
    recorded <- {e \in Events : HasRow(e)},
    order <- [e \in Events |-> [made |-> placed[e], status |-> venue[e]]],
    answered <- {i \in SignalEntries : i <= delivered /\ i \notin pel}
SubmitsAsPromised == Contract!Spec

(* TRADING_MODE=disabled audits signals and does nothing else ("never place    *)
(* orders", .env.example): rows an earlier mode left behind are not touched    *)
(* and the venue gets no request.                                              *)
DisabledTouchesNothing ==
    [][mode = "disabled" => /\ \A e \in Events : HasRow(e) => orders'[e] = orders[e]
                            /\ orphans' \subseteq orphans /\ paper' = {}]_vars
=============================================================================
