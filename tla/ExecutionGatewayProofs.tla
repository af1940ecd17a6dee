------------------------ MODULE ExecutionGatewayProofs ------------------------
(***************************************************************************)
(* What holds in every behaviour of ExecutionGateway, for all values of    *)
(* its constants.                                                          *)
(*                                                                         *)
(* TypeOK is not inductive: MarkStatus writes to the row of the record a   *)
(* task carries, so the inductive Base adds that a task past its insert    *)
(* carries the event of an existing row (Control, QueueHasRows).  On top   *)
(* of it:                                                                  *)
(* Once follows the create_order call: who may be making it, and what the  *)
(* venue may have heard by then (AtMostOneOrder).                          *)
(* Audits: a disabled engine has nothing in hand that places or reconciles *)
(* (DisabledTouchesNothing).                                               *)
(* Accounts follows an entry from its dispatch to its XACK                 *)
(* (AckedIsAccounted).                                                     *)
(* Keys: an event whose order is at the venue, or may come to be, holds    *)
(* its dedupe key, and no refusal of it is about to be recorded            *)
(* (LiveOrderHoldsKey, OneLiveOrderPerKey).                                *)
(* With Once and Accounts, each step is a step of OrderContract or none    *)
(* (SubmitsAsPromised).                                                    *)
(***************************************************************************)
EXTENDS ExecutionGateway, TLAPS

(* Labels at which a dispatcher works on its entry, and labels at which a task *)
(* works on its record.                                                        *)
EntryLabels == {"recordInvalid", "deadLetter", "deny", "getEvent", "getDedupe", "gate", "insert", "ack"}
RecordLabels == {"fetch", "place", "accepted", "attemptSubmit", "attemptUnresolved", "mark"}

(* A task at one of them has what it needs. *)
Control ==
    \A t \in Tasks :
        /\ pc[t] \in EntryLabels => t \in Dispatchers
        /\ pc[t] # "idle" /\ t \in Dispatchers => entry[t] # 0
        /\ pc[t] \in RecordLabels => rec[t].event \in Events /\ HasRow(rec[t].event)
        /\ pc[t] = "mark" => verdict[t].status # "NONE"

(* Rows are never deleted. *)
RowsStay == \A e \in Events : orders[e].status # "NONE" => orders'[e].status # "NONE"

(* What a task keeps of its record is a record. *)
LEMMA ForgetType ==
    ASSUME NEW r \in Record \cup {NoRecord}
    PROVE  Forget(r) \in Record \cup {NoRecord}
  <1>1. CASE r \in Record
    BY <1>1 DEF Forget, Record, Row, NoRow
  <1>2. CASE r = NoRecord
    BY <1>2 DEF Forget, NoRecord
  <1> QED BY <1>1, <1>2

(* The four ways a task leaves an await keep its locals typed and in control. *)
(* Going on to the next await: *)
LEMMA GotoShape ==
    ASSUME NEW t \in Tasks, NEW label \in Labels, LocalTypes, Control, RowsStay, Goto(t, label),
           label \in EntryLabels => t \in Dispatchers, t \in Dispatchers => entry[t] # 0,
           label \in RecordLabels => rec[t].event \in Events /\ HasRow(rec[t].event),
           label # "mark"
    PROVE  (LocalTypes /\ Control)'
  <1>1. LocalTypes'
    BY ForgetType DEF LocalTypes, Goto
  <1>2. \A u \in Tasks : rec'[u].event = rec[u].event
    BY DEF LocalTypes, Goto, Forget, Record, NoRecord
  <1>3. Control'
    BY <1>1, <1>2 DEF Control, RowsStay, Goto, HasRow, LocalTypes
  <1> QED BY <1>1, <1>3

(* Going on to mark_status: *)
LEMMA WriteShape ==
    ASSUME NEW t \in Tasks, NEW s \in OrderStatus, NEW ref \in BOOLEAN, NEW ack \in BOOLEAN,
           LocalTypes, Control, RowsStay, Write(t, s, ref, ack),
           rec[t].event \in Events /\ HasRow(rec[t].event), t \in Dispatchers => entry[t] # 0
    PROVE  (LocalTypes /\ Control)'
  <1>1. LocalTypes'
    <2>1. rec' \in [Tasks -> Record \cup {NoRecord}]
      BY ForgetType DEF LocalTypes, Write
    <2>2. verdict' \in [Tasks -> Verdict]
      BY DEF LocalTypes, Write, Verdict
    <2>3. pc' \in [Tasks -> Labels] /\ entry' \in [Tasks -> 0..NumEntries]
      BY DEF LocalTypes, Write, Labels, StoreLabels
    <2> QED BY <2>1, <2>2, <2>3 DEF LocalTypes
  <1>2. \A u \in Tasks : rec'[u].event = rec[u].event
    BY DEF LocalTypes, Write, Forget, Record, NoRecord
  <1>3. s # "NONE"
    BY DEF OrderStatus
  <1>4. Control'
    BY <1>1, <1>2, <1>3 DEF Control, RowsStay, Write, HasRow, LocalTypes, EntryLabels
  <1> QED BY <1>1, <1>4

(* Returning an outcome: *)
LEMMA ReturnShape ==
    ASSUME NEW t \in Tasks, NEW ack \in BOOLEAN, LocalTypes, Control, RowsStay, Return(t, ack),
           ack /\ t \in Dispatchers => entry[t] # 0
    PROVE  (LocalTypes /\ Control)'
  <1>1. LocalTypes'
    <2>1. NoRow \in Row /\ NoVerdict \in Verdict
      BY DEF NoRow, Row, NoVerdict, Verdict
    <2> QED BY <2>1, StreamAssumption DEF LocalTypes, Return, Labels
  <1>2. Control'
    BY <1>1 DEF Control, RowsStay, Return, HasRow, LocalTypes, EntryLabels, RecordLabels
  <1> QED BY <1>1, <1>2

(* Entering _handle_existing with a row that exists: *)
LEMMA HandleExistingShape ==
    ASSUME NEW t \in Tasks, NEW r \in Record, LocalTypes, Control, RowsStay, HandleExisting(t, r),
           HasRow(r.event), t \in Dispatchers => entry[t] # 0
    PROVE  (LocalTypes /\ Control)'
  <1>1. CASE r.row.status \in Terminal \/ mode = "disabled"
    BY <1>1, ReturnShape DEF HandleExisting
  <1>2. CASE ~(r.row.status \in Terminal \/ mode = "disabled")
    <2>1. LocalTypes'
      BY <1>2 DEF HandleExisting, LocalTypes, Labels
    <2>2. r.event \in Events
      BY DEF Record
    <2>3. Control'
      BY <1>2, <2>1, <2>2 DEF HandleExisting, Control, RowsStay, HasRow, LocalTypes, EntryLabels, RecordLabels
    <2> QED BY <2>1, <2>3
  <1> QED BY <1>1, <1>2

(* So does the reconcile loop's snapshot. *)
QueueHasRows == \A r \in queue : HasRow(r.event)

(* Every step leaves the orders table typed and deletes no row. *)
LEMMA TableStep ==
    ASSUME TypeOK, Control, [Next]_vars
    PROVE  orders' \in [Events -> Row] /\ RowsStay
  <1> USE DEF TypeOK
  <1>1. ASSUME UNCHANGED orders
        PROVE  orders' \in [Events -> Row] /\ RowsStay
    BY <1>1 DEF RowsStay
  <1>2. ASSUME NEW e, RecordRejection(e)
        PROVE  orders' \in [Events -> Row] /\ RowsStay
    BY <1>2 DEF RecordRejection, HasRow, RowsStay, Row, OrderStatus
  <1>3. ASSUME NEW t \in Tasks, InsertIntent(t)
        PROVE  orders' \in [Events -> Row] /\ RowsStay
    <2> DEFINE intent == [status |-> "INTENT", attempts |-> 1, ref |-> FALSE]
    <2>1. UNCHANGED orders \/ orders' = [orders EXCEPT ![EventAt(t)] = intent]
      BY <1>3 DEF InsertIntent
    <2>2. intent \in Row /\ intent.status # "NONE"
      BY DEF Row, OrderStatus
    <2> HIDE DEF intent
    <2> QED BY <2>1, <2>2 DEF RowsStay
  <1>4. ASSUME NEW e \in Events, CountAttempt(e)
        PROVE  orders' \in [Events -> Row] /\ RowsStay
    <2>1. NextAttempt(e) \in Nat
      BY SettingsAssumption DEF NextAttempt, Row
    <2> QED BY <1>4, <2>1 DEF CountAttempt, RowsStay, Row
  <1>5. ASSUME NEW t \in Tasks, AttemptSubmit(t) \/ AttemptUnresolved(t)
        PROVE  orders' \in [Events -> Row] /\ RowsStay
    <2>1. rec[t].event \in Events
      BY <1>5 DEF AttemptSubmit, AttemptUnresolved, Control, RecordLabels
    <2> QED BY <1>4, <1>5, <2>1 DEF AttemptSubmit, AttemptUnresolved
  <1>6. ASSUME NEW t \in Tasks, MarkStatus(t)
        PROVE  orders' \in [Events -> Row] /\ RowsStay
    <2>1. verdict[t].status \in OrderStatus /\ verdict[t].ref \in BOOLEAN
      BY <1>6 DEF MarkStatus, Control, LocalTypes, Verdict
    <2>2. CASE UNCHANGED orders
      BY <2>2, <1>1
    <2>3. CASE orders' = [orders EXCEPT ![rec[t].event] =
                 [status |-> verdict[t].status, attempts |-> @.attempts,
                  ref |-> @.ref \/ verdict[t].ref]]
      <3>1. "NONE" \notin OrderStatus
        BY DEF OrderStatus
      <3> QED BY <2>1, <2>3, <3>1 DEF RowsStay, Row
    <2> QED BY <1>6, <2>2, <2>3 DEF MarkStatus
  <1>7. ASSUME NEW t \in Tasks, TaskStep(t)
        PROVE  orders' \in [Events -> Row] /\ RowsStay
    BY <1>1, <1>2, <1>3, <1>5, <1>6, <1>7
       DEF TaskStep, DeadLetter, Ack, RecordInvalid, Deny, GetByEvent, GetByDedupe, RiskGate,
           PaperPlace, VenueAccepts, PlaceRefused, PlaceTimesOut, AnswerLost, AnswerAccepted,
           FetchFound, FetchRaises, FetchNone, HandlerRaises, store
  <1> QED
    BY <1>1, <1>7 DEF Next, ReadGroup, Dispatch, Reclaim, DispatchClaimed, SnapshotPending, ReconcileNext, Crash,
           OrphanAccepted, VenueSettles, GrowOld, store, vars

(* The inductive invariant behind TypeOK. *)
Base == TypeOK /\ Control /\ QueueHasRows

(* Whatever a task does, its locals stay typed and it holds on to a real row. *)
LEMMA TaskShape ==
    ASSUME Base, RowsStay, NEW t \in Tasks, TaskStep(t)
    PROVE  (LocalTypes /\ Control)'
  <1> USE DEF Base, TypeOK
  <1>0. /\ pc[t] \in EntryLabels => t \in Dispatchers /\ EventAt(t) \in Events
        /\ t \in Dispatchers /\ pc[t] # "idle" => entry[t] # 0
        /\ pc[t] \in RecordLabels => rec[t].event \in Events /\ HasRow(rec[t].event)
    <2>1. pc[t] \in EntryLabels => entry[t] \in Entries
      BY StreamAssumption DEF Control, LocalTypes, Entries, EntryLabels
    <2> QED BY <2>1, StreamAssumption DEF Control, EventAt
  <1>l. /\ EntryLabels \subseteq Labels /\ RecordLabels \subseteq Labels
        /\ EntryLabels \cap RecordLabels = {} /\ "mark" \notin EntryLabels
    BY DEF EntryLabels, RecordLabels, Labels, StoreLabels, PlacingLabels
  <1>1. CASE DeadLetter(t) \/ RecordInvalid(t) \/ RiskGate(t)
    BY <1>0, <1>1, GotoShape, ReturnShape
       DEF DeadLetter, RecordInvalid, RiskGate, EntryLabels, RecordLabels, Labels, StoreLabels
  <1>2. CASE Ack(t) \/ Deny(t)
    BY <1>0, <1>2, ReturnShape DEF Ack, Deny, EntryLabels
  <1>3. ASSUME NEW e \in Events, HasRow(e), t \in Dispatchers => entry[t] # 0,
               HandleExisting(t, RecordOf(e))
        PROVE  (LocalTypes /\ Control)'
    <2>1. RecordOf(e) \in Record /\ RecordOf(e).event = e
      BY DEF RecordOf, Record
    <2> QED BY <1>3, <2>1, HandleExistingShape
  <1>4. CASE GetByEvent(t)
    BY <1>0, <1>3, <1>4, GotoShape DEF GetByEvent, EntryLabels, RecordLabels, Labels, StoreLabels
  <1>5. CASE GetByDedupe(t)
    BY <1>0, <1>5, GotoShape, ReturnShape DEF GetByDedupe, EntryLabels, RecordLabels, Labels, StoreLabels
  <1>6. CASE InsertIntent(t)
    <2>1. CASE UNCHANGED orders
      BY <1>0, <1>3, <1>6, <2>1 DEF InsertIntent, EntryLabels, KeyHolders, HoldsKey, HasRow
    <2>2. CASE ~UNCHANGED orders
      <3> DEFINE e == EventAt(t)
                 r == [event |-> e, row |-> NoRow]
      <3>1. /\ orders' = [orders EXCEPT ![e] = [status |-> "INTENT", attempts |-> 1, ref |-> FALSE]]
            /\ rec' = [rec EXCEPT ![t] = r]
            /\ pc' = [pc EXCEPT ![t] = "place"]
            /\ UNCHANGED <<entry, verdict>>
            /\ e \in Events
            /\ t \in Dispatchers => entry[t] # 0
        BY <1>0, <1>6, <2>2 DEF InsertIntent, EntryLabels
      <3>2. r \in Record
        BY <3>1 DEF Record, Row, NoRow
      <3>3. LocalTypes'
        BY <3>1, <3>2, <1>l DEF LocalTypes, RecordLabels
      <3>4. orders'[e].status # "NONE" /\ r.event = e
        BY <3>1
      <3> HIDE DEF e, r
      <3>5. Control'
        BY <3>1, <3>3, <3>4 DEF Control, LocalTypes, RowsStay, HasRow, EntryLabels
      <3> QED BY <3>3, <3>5
    <2> QED BY <2>1, <2>2
  <1>7. CASE PaperPlace(t) \/ PlaceRefused(t) \/ AnswerAccepted(t)
    BY <1>0, <1>7, WriteShape
       DEF PaperPlace, PlaceRefused, AnswerAccepted, MapStatus, RecordLabels, OrderStatus
  <1>8. CASE VenueAccepts(t) \/ PlaceTimesOut(t) \/ AnswerLost(t)
    BY <1>0, <1>l, <1>8, GotoShape
       DEF VenueAccepts, PlaceTimesOut, AnswerLost, OnTransientError, RecordLabels
  <1>9. CASE AttemptSubmit(t) \/ AttemptUnresolved(t)
    BY <1>0, <1>9, WriteShape, ReturnShape
       DEF AttemptSubmit, AttemptUnresolved, RecordLabels, OrderStatus
  <1>10. CASE MarkStatus(t)
    <2>1. verdict[t].ack \in BOOLEAN
      BY DEF LocalTypes, Verdict
    <2> QED BY <1>0, <1>10, <2>1, ReturnShape DEF MarkStatus
  <1>11. CASE FetchFound(t)
    BY <1>0, <1>11, WriteShape DEF FetchFound, MapStatus, RecordLabels, OrderStatus
  <1>12. CASE FetchRaises(t)
    BY <1>0, <1>12, WriteShape, ReturnShape DEF FetchRaises, RecordLabels, OrderStatus
  <1>13. CASE FetchNone(t)
    BY <1>0, <1>l, <1>13, GotoShape, WriteShape, ReturnShape DEF FetchNone, RecordLabels, OrderStatus
  <1>14. CASE HandlerRaises(t)
    BY <1>0, <1>l, <1>14, GotoShape, ReturnShape DEF HandlerRaises, EntryLabels
  <1> QED BY <1>1, <1>2, <1>4, <1>5, <1>6, <1>7, <1>8, <1>9, <1>10, <1>11, <1>12, <1>13, <1>14 DEF TaskStep

(* A dispatcher that takes up an entry. *)
LEMMA StartProcessShape ==
    ASSUME NEW t \in Dispatchers, NEW i \in Entries, LocalTypes, Control, RowsStay, StartProcess(t, i)
    PROVE  (LocalTypes /\ Control)'
  <1>1. t \in Tasks /\ i \in 0..NumEntries /\ i # 0
    BY StreamAssumption DEF Tasks, Dispatchers, Entries
  <1>2. PICK label \in EntryLabels : pc' = [pc EXCEPT ![t] = label]
    BY DEF StartProcess, EntryLabels
  <1>3. label \in Labels /\ label \notin RecordLabels
    BY DEF EntryLabels, RecordLabels, Labels, StoreLabels
  <1>4. entry' = [entry EXCEPT ![t] = i] /\ UNCHANGED <<rec, verdict>>
    BY DEF StartProcess
  <1> HIDE DEF Tasks
  <1>5. LocalTypes'
    BY <1>1, <1>2, <1>3, <1>4 DEF LocalTypes
  <1>6. Control'
    BY <1>1, <1>2, <1>3, <1>4 DEF Control, LocalTypes, RowsStay, HasRow, EntryLabels, RecordLabels
  <1> QED BY <1>5, <1>6

(* The same of every step. *)
LEMMA LocalsStep ==
    ASSUME Base, RowsStay, [Next]_vars
    PROVE  (LocalTypes /\ Control)'
  <1> USE DEF Base, TypeOK
  <1>1. ASSUME UNCHANGED locals
        PROVE  (LocalTypes /\ Control)'
    BY <1>1 DEF locals, LocalTypes, Control, RowsStay, HasRow
  <1>2. CASE Dispatch
    BY <1>2, StreamAssumption, StartProcessShape DEF Dispatch, StreamTypes, Entries, Dispatchers
  <1>3. ASSUME NEW i \in Entries, DispatchClaimed(i)
        PROVE  (LocalTypes /\ Control)'
    BY <1>3, StartProcessShape DEF DispatchClaimed, Dispatchers
  <1>4. CASE ReconcileNext
    <2>1. PICK r \in queue : HandleExisting("reconcile", r)
      BY <1>4 DEF ReconcileNext
    <2>2. r \in Record /\ HasRow(r.event)
      BY DEF QueueHasRows
    <2>3. "reconcile" \in Tasks /\ "reconcile" \notin Dispatchers
      BY DEF Tasks, Dispatchers
    <2> QED BY <2>1, <2>2, <2>3, HandleExistingShape
  <1>5. CASE Crash
    <2>1. NoRow \in Row /\ NoVerdict \in Verdict /\ "idle" \in Labels /\ 0 \in 0..NumEntries
      BY StreamAssumption DEF NoRow, Row, NoVerdict, Verdict, Labels
    <2> QED BY <1>5, <2>1 DEF Crash, LocalTypes, Control, EntryLabels, RecordLabels
  <1>6. ASSUME NEW t \in Tasks, TaskStep(t)
        PROVE  (LocalTypes /\ Control)'
    BY <1>6, TaskShape
  <1> QED
    BY <1>1, <1>2, <1>3, <1>4, <1>5, <1>6
       DEF Next, ReadGroup, Reclaim, SnapshotPending, OrphanAccepted, VenueSettles, GrowOld, locals, vars

(* The reconcile loop's snapshot holds records of rows that exist. *)
LEMMA QueueStep ==
    ASSUME Base, RowsStay, [Next]_vars
    PROVE  queue' \subseteq Record /\ QueueHasRows'
  <1> USE DEF Base, TypeOK
  <1>1. ASSUME queue' \subseteq queue
        PROVE  queue' \subseteq Record /\ QueueHasRows'
    BY <1>1 DEF QueueHasRows, RowsStay, HasRow, Record
  <1>2. CASE SnapshotPending
    <2>1. \A e \in Events : RecordOf(e) \in Record /\ RecordOf(e).event = e
      BY DEF RecordOf, Record
    <2>2. \A e \in Events : orders[e].status \in Pending => HasRow(e)
      BY DEF Pending, HasRow
    <2>3. \A r \in queue' : \E e \in Events : r = RecordOf(e) /\ orders[e].status \in Pending
      BY <1>2 DEF SnapshotPending
    <2>4. UNCHANGED orders
      BY <1>2 DEF SnapshotPending, store
    <2> QED BY <2>1, <2>2, <2>3, <2>4 DEF QueueHasRows, HasRow
  <1>3. ASSUME NEW t \in Tasks, TaskStep(t)
        PROVE  queue' = queue
    BY <1>3
       DEF TaskStep, DeadLetter, Ack, RecordInvalid, Deny, GetByEvent, GetByDedupe, RiskGate,
           InsertIntent, PaperPlace, VenueAccepts, PlaceRefused, PlaceTimesOut, AnswerLost,
           AnswerAccepted, AttemptSubmit, MarkStatus, FetchFound, FetchRaises, FetchNone,
           AttemptUnresolved, HandlerRaises
  <1>4. CASE ReconcileNext
    BY <1>1, <1>4 DEF ReconcileNext
  <1> QED
    BY <1>1, <1>2, <1>3, <1>4
       DEF Next, ReadGroup, Dispatch, Reclaim, DispatchClaimed, Crash, OrphanAccepted, VenueSettles, GrowOld, vars

(* The stream and its group stay typed. *)
LEMMA StreamStep ==
    ASSUME Base, [Next]_vars
    PROVE  StreamTypes'
  <1> USE DEF Base, TypeOK
  <1>1. ASSUME UNCHANGED stream
        PROVE  StreamTypes'
    BY <1>1 DEF stream, StreamTypes
  <1>2. CASE ReadGroup \/ Dispatch \/ Crash
    <2>1. CASE ReadGroup
      <3>1. PICK last \in (delivered + 1)..NumEntries :
               delivered' = last /\ pel' = pel \cup ((delivered + 1)..last)
        BY <2>1 DEF ReadGroup
      <3>2. UNCHANGED <<cursor, claimed, deadLetters>>
        BY <2>1 DEF ReadGroup
      <3> QED BY <3>1, <3>2, StreamAssumption DEF StreamTypes, Entries
    <2>2. CASE Dispatch
      BY <2>2, StreamAssumption DEF Dispatch, StreamTypes
    <2>3. CASE Crash
      BY <2>3, StreamAssumption DEF Crash, StreamTypes
    <2> QED BY <1>2, <2>1, <2>2, <2>3
  <1>r. ASSUME NEW i \in Entries, Reclaim(i) \/ DispatchClaimed(i)
        PROVE  StreamTypes'
    BY <1>r DEF Reclaim, DispatchClaimed, StreamTypes
  <1>3. ASSUME NEW t \in Tasks, DeadLetter(t) \/ Ack(t)
        PROVE  StreamTypes'
    <2>1. pc[t] \in EntryLabels /\ pc[t] # "idle"
      BY <1>3 DEF DeadLetter, Ack, EntryLabels
    <2>2. entry[t] # 0 /\ entry[t] \in 0..NumEntries
      BY <2>1 DEF Control, LocalTypes
    <2>3. entry[t] \in Entries
      BY <2>2, StreamAssumption DEF Entries
    <2> QED BY <1>3, <2>3 DEF DeadLetter, Ack, StreamTypes
  <1>4. ASSUME NEW t \in Tasks, TaskStep(t)
        PROVE  StreamTypes'
    BY <1>1, <1>3, <1>4
       DEF TaskStep, RecordInvalid, Deny, GetByEvent, GetByDedupe, RiskGate,
           InsertIntent, PaperPlace, VenueAccepts, PlaceRefused, PlaceTimesOut, AnswerLost,
           AnswerAccepted, AttemptSubmit, MarkStatus, FetchFound, FetchRaises, FetchNone,
           AttemptUnresolved, HandlerRaises
  <1> QED
    BY <1>1, <1>2, <1>r, <1>4
       DEF Next, SnapshotPending, ReconcileNext, OrphanAccepted, VenueSettles, GrowOld,
           stream, vars

(* So do the brokers. *)
LEMMA BrokerStep ==
    ASSUME Base, [Next]_vars
    PROVE  BrokerTypes'
  <1> USE DEF Base, TypeOK
  <1>1. ASSUME UNCHANGED <<broker, mode>>
        PROVE  BrokerTypes'
    BY <1>1 DEF broker, BrokerTypes
  <1>2. ASSUME NEW e \in Events, Create(e)
        PROVE  /\ placed' \in [Events -> Nat]
               /\ venue' \in [Events -> (Reports \ {"missing"}) \cup {"none"}]
    BY <1>2 DEF Create, BrokerTypes, Reports
  <1>3. CASE Crash
    <2>1. ASSUME NEW t \in Tasks, pc[t] = "place"
          PROVE  rec[t].event \in Events
      BY <2>1 DEF Control, RecordLabels
    <2>2. orphans' \subseteq Events
      BY <1>3, <2>1 DEF Crash, BrokerTypes
    <2> QED BY <1>3, <2>2 DEF Crash, BrokerTypes
  <1>4. ASSUME NEW t \in Tasks, PaperPlace(t) \/ VenueAccepts(t) \/ PlaceTimesOut(t)
        PROVE  BrokerTypes'
    <2>1. rec[t].event \in Events
      BY <1>4 DEF PaperPlace, VenueAccepts, PlaceTimesOut, Control, RecordLabels
    <2> QED BY <1>2, <1>4, <2>1 DEF PaperPlace, VenueAccepts, PlaceTimesOut, BrokerTypes
  <1>5. ASSUME NEW t \in Tasks, TaskStep(t)
        PROVE  BrokerTypes'
    BY <1>1, <1>4, <1>5
       DEF TaskStep, DeadLetter, Ack, RecordInvalid, Deny, GetByEvent, GetByDedupe, RiskGate,
           InsertIntent, PlaceRefused, AnswerLost, AnswerAccepted, AttemptSubmit, MarkStatus,
           FetchFound, FetchRaises, FetchNone, AttemptUnresolved, HandlerRaises
  <1>6. ASSUME NEW e \in Events, OrphanAccepted(e) \/ VenueSettles(e)
        PROVE  BrokerTypes'
    BY <1>2, <1>6, SettingsAssumption DEF OrphanAccepted, VenueSettles, BrokerTypes, Reports
  <1> QED
    BY <1>1, <1>3, <1>5, <1>6
       DEF Next, ReadGroup, Dispatch, Reclaim, DispatchClaimed, SnapshotPending, ReconcileNext, GrowOld, broker, vars

(* And the counters. *)
LEMMA CounterStep ==
    ASSUME TypeOK, [Next]_vars
    PROVE  aged' \subseteq Events /\ faults' \in Nat /\ crashes' \in Nat
  <1> USE DEF TypeOK
  <1>1. ASSUME NEW t \in Tasks, TaskStep(t)
        PROVE  aged' = aged /\ faults' \in Nat /\ crashes' \in Nat
    <2>1. UNCHANGED bounds \/ Fault
      BY <1>1
       DEF TaskStep, DeadLetter, Ack, RecordInvalid, Deny, GetByEvent, GetByDedupe, RiskGate,
           InsertIntent, PaperPlace, VenueAccepts, PlaceRefused, PlaceTimesOut, AnswerLost,
           AnswerAccepted, AttemptSubmit, MarkStatus, FetchFound, FetchRaises, FetchNone,
           AttemptUnresolved, HandlerRaises, FaultIf
    <2>2. aged' = aged
      BY <1>1
       DEF TaskStep, DeadLetter, Ack, RecordInvalid, Deny, GetByEvent, GetByDedupe, RiskGate,
           InsertIntent, PaperPlace, VenueAccepts, PlaceRefused, PlaceTimesOut, AnswerLost,
           AnswerAccepted, AttemptSubmit, MarkStatus, FetchFound, FetchRaises, FetchNone,
           AttemptUnresolved, HandlerRaises
    <2> QED BY <2>1, <2>2 DEF bounds, Fault
  <1> QED
    BY <1>1
       DEF Next, ReadGroup, Dispatch, Reclaim, DispatchClaimed, SnapshotPending, ReconcileNext, Crash,
           OrphanAccepted, VenueSettles, GrowOld, vars, bounds

(* Base holds initially. *)
LEMMA BaseInit == Init => Base
  <1> SUFFICES ASSUME Init PROVE Base
    OBVIOUS
  <1>1. NoRow \in Row /\ NoRow.status = "NONE" /\ NoVerdict \in Verdict
    BY DEF NoRow, Row, NoVerdict, Verdict
  <1>2. LocalTypes /\ StreamTypes /\ BrokerTypes
    BY <1>1, StreamAssumption DEF Init, LocalTypes, StreamTypes, BrokerTypes, Labels
  <1>3. Control /\ QueueHasRows
    BY DEF Init, Control, QueueHasRows, EntryLabels, RecordLabels
  <1> QED BY <1>1, <1>2, <1>3 DEF Init, Base, TypeOK

(* Base is inductive. *)
LEMMA BaseStep == Base /\ [Next]_vars => Base'
  BY TableStep, LocalsStep, QueueStep, StreamStep, BrokerStep, CounterStep DEF Base, TypeOK

(* Every variable keeps its type in every behaviour of the engine. *)
THEOREM TypeCorrect == Spec => []TypeOK
  <1>1. Base => TypeOK
    BY DEF Base
  <1> QED BY <1>1, BaseInit, BaseStep, PTL DEF Spec

-----------------------------------------------------------------------------
(* Task t may still be about to make the venue create an order for event e. *)
Placing(t, e) == mode = "live" /\ pc[t] = "place" /\ rec[t].event = e

(* The intent is durable before the venue can have heard of it. *)
WriteAhead == \A e \in Events : placed[e] > 0 \/ e \in orphans => HasRow(e)

(* Without idempotent client order ids a request is only made for an event no *)
(* request was made for, by one task, and a lost request was the only one.    *)
Fresh == \A t \in Tasks, e \in Events : Placing(t, e) => placed[e] = 0 /\ e \notin orphans
Alone == \A t, u \in Tasks, e \in Events : Placing(t, e) /\ Placing(u, e) => t = u
LostOnce == \A e \in orphans : placed[e] = 0

(* The inductive invariant behind AtMostOneOrder. *)
Once == AtMostOneOrder /\ WriteAhead /\ (~AssumeIdempotency => Fresh /\ Alone /\ LostOnce)

(* Once holds initially. *)
LEMMA OnceInit == Init => Once
  BY DEF Init, Once, AtMostOneOrder, WriteAhead, Fresh, Alone, LostOnce, Placing

(* A step that neither starts placing nor reaches the venue keeps Once. *)
LEMMA OnceQuiet ==
    ASSUME Once, RowsStay, UNCHANGED <<placed, orphans>>,
           \A t \in Tasks, e \in Events : Placing(t, e)' => Placing(t, e)
    PROVE  Once'
  BY DEF Once, RowsStay, HasRow, AtMostOneOrder, WriteAhead, Fresh, Alone, LostOnce

(* The venue creates an order of e: it is the only one, if nobody else places. *)
LEMMA OnceCreate ==
    ASSUME NEW e \in Events, Base, Once, RowsStay, Create(e), HasRow(e),
           orphans' \subseteq orphans,
           \A t \in Tasks, d \in Events : Placing(t, d)' => Placing(t, d),
           ~AssumeIdempotency => /\ placed[e] = 0 /\ e \notin orphans'
                                 /\ \A t \in Tasks : ~Placing(t, e)'
    PROVE  Once'
  <1> USE DEF Base, TypeOK, BrokerTypes
  <1>1. AtMostOneOrder'
    BY DEF Once, AtMostOneOrder, Create
  <1>2. WriteAhead'
    BY DEF Once, WriteAhead, RowsStay, HasRow, Create
  <1>3. CASE AssumeIdempotency
    BY <1>1, <1>2, <1>3 DEF Once
  <1>4. CASE ~AssumeIdempotency
    <2>1. \A d \in Events : d # e => placed'[d] = placed[d]
      BY DEF Create
    <2>2. Fresh'
      BY <1>4, <2>1 DEF Once, Fresh
    <2>3. Alone'
      BY <1>4 DEF Once, Alone
    <2>4. LostOnce'
      BY <1>4, <2>1 DEF Once, LostOnce
    <2> QED BY <1>1, <1>2, <1>4, <2>2, <2>3, <2>4 DEF Once
  <1> QED BY <1>3, <1>4

(* What a step of one task leaves of the others. *)
LEMMA TaskFrame ==
    ASSUME LocalTypes, NEW t \in Tasks, TaskStep(t)
    PROVE  \A u \in Tasks : u # t =>
              pc'[u] = pc[u] /\ entry'[u] = entry[u] /\ rec'[u] = rec[u] /\ verdict'[u] = verdict[u]
  BY DEF TaskStep, DeadLetter, Ack, RecordInvalid, Deny, GetByEvent, GetByDedupe, RiskGate, InsertIntent,
         PaperPlace, VenueAccepts, PlaceTimesOut, PlaceRefused, AnswerLost, AnswerAccepted, AttemptSubmit,
         MarkStatus, FetchFound, FetchRaises, FetchNone, AttemptUnresolved, HandlerRaises,
         Goto, Return, Write, HandleExisting, OnTransientError, LocalTypes

(* A task that neither inserts nor places starts no placing and asks nothing of      *)
(* the venue.                                                                   *)
LEMMA QuietTask ==
    ASSUME LocalTypes, NEW t \in Tasks,
           DeadLetter(t) \/ Ack(t) \/ RecordInvalid(t) \/ Deny(t) \/ GetByEvent(t)
               \/ GetByDedupe(t) \/ RiskGate(t) \/ (InsertIntent(t) /\ pc'[t] # "place")
               \/ PaperPlace(t) \/ PlaceRefused(t) \/ AnswerLost(t) \/ AnswerAccepted(t)
               \/ AttemptSubmit(t) \/ MarkStatus(t) \/ FetchFound(t) \/ FetchRaises(t)
               \/ AttemptUnresolved(t) \/ HandlerRaises(t)
    PROVE  /\ UNCHANGED <<placed, venue, orphans, mode>> /\ pc'[t] # "place"
           /\ \A u \in Tasks : u # t => pc'[u] = pc[u] /\ rec'[u] = rec[u]
  <1>1. UNCHANGED <<placed, venue, orphans, mode>>
    BY DEF DeadLetter, Ack, RecordInvalid, Deny, GetByEvent, GetByDedupe, RiskGate,
           InsertIntent, PaperPlace, PlaceRefused, AnswerLost, AnswerAccepted, AttemptSubmit,
           MarkStatus, FetchFound, FetchRaises, AttemptUnresolved, HandlerRaises, broker
  <1>2. /\ pc'[t] # "place"
        /\ \A u \in Tasks : u # t => pc'[u] = pc[u] /\ rec'[u] = rec[u]
    BY DEF DeadLetter, Ack, RecordInvalid, Deny, GetByEvent, GetByDedupe, RiskGate,
           InsertIntent, PaperPlace, PlaceRefused, AnswerLost, AnswerAccepted, AttemptSubmit,
           MarkStatus, FetchFound, FetchRaises, AttemptUnresolved, HandlerRaises,
           Goto, Return, Write, HandleExisting, OnTransientError, LocalTypes
  <1> QED BY <1>1, <1>2

(* What a task does keeps Once: only InsertIntent starts placing. *)
LEMMA OnceTask ==
    ASSUME Base, Once, RowsStay, NEW t \in Tasks, TaskStep(t)
    PROVE  Once'
  <1> USE DEF Base, TypeOK, LocalTypes
  <1>1. pc[t] = "place" => rec[t].event \in Events /\ HasRow(rec[t].event)
    BY DEF Control, RecordLabels
  <1>2. CASE VenueAccepts(t)
    <2>1. PICK e \in Events :
            /\ HasRow(e) /\ Create(e) /\ Placing(t, e)
            /\ orphans' = orphans /\ mode' = mode
            /\ pc' = [pc EXCEPT ![t] = "accepted"]
      BY <1>1, <1>2 DEF VenueAccepts, Goto, Placing
    <2>2. \A u \in Tasks : u # t => rec'[u] = rec[u]
      BY <1>2 DEF VenueAccepts, Goto
    <2>3. \A u \in Tasks, d \in Events : Placing(u, d)' => Placing(u, d) /\ u # t
      BY <2>1, <2>2 DEF Placing
    <2>4. ~AssumeIdempotency => /\ placed[e] = 0 /\ e \notin orphans'
                                /\ \A u \in Tasks : ~Placing(u, e)'
      BY <2>1, <2>3 DEF Once, Fresh, Alone
    <2> QED BY <2>1, <2>3, <2>4, OnceCreate
  <1>3. CASE PlaceTimesOut(t)
    <2> DEFINE e == rec[t].event
    <2>1. /\ e \in Events /\ HasRow(e) /\ Placing(t, e)
          /\ orphans' \subseteq orphans \cup {e} /\ placed' = placed /\ mode' = mode
          /\ pc' = [pc EXCEPT ![t] = "attemptSubmit"]
      BY <1>1, <1>3 DEF PlaceTimesOut, OnTransientError, Goto, Placing
    <2>2. \A u \in Tasks : u # t => rec'[u] = rec[u]
      BY <1>3 DEF PlaceTimesOut, OnTransientError, Goto
    <2> HIDE DEF e
    <2>3. \A u \in Tasks, d \in Events : Placing(u, d)' => Placing(u, d) /\ u # t
      BY <2>1, <2>2 DEF Placing
    <2>4. AtMostOneOrder' /\ WriteAhead'
      BY <2>1 DEF Once, AtMostOneOrder, WriteAhead, RowsStay, HasRow
    <2>5. ~AssumeIdempotency => Fresh' /\ Alone' /\ LostOnce'
      BY <2>1, <2>3 DEF Once, Fresh, Alone, LostOnce
    <2> QED BY <2>4, <2>5 DEF Once
  <1>4. CASE InsertIntent(t) /\ pc'[t] = "place"
    <2> DEFINE e == EventAt(t)
    <2>0. pc[t] = "insert"
      BY <1>4 DEF InsertIntent
    <2>1. entry[t] \in Entries
      BY <2>0, StreamAssumption DEF Control, EntryLabels, Entries
    <2>2. e \in Events
      BY <2>1, StreamAssumption DEF EventAt
    <2>3. /\ ~HasRow(e) /\ rec'[t].event = e /\ mode' = mode
          /\ \A u \in Tasks : u # t => pc'[u] = pc[u] /\ rec'[u] = rec[u]
          /\ UNCHANGED <<placed, orphans>>
      BY <1>4, <2>0 DEF InsertIntent, HandleExisting, Return, broker
    <2> HIDE DEF e
    <2>4. \A u \in Tasks : ~Placing(u, e)
      BY <2>3 DEF Placing, Control, RecordLabels
    <2>5. \A u \in Tasks, d \in Events : Placing(u, d)' => (u = t /\ d = e) \/ (u # t /\ Placing(u, d))
      BY <2>3 DEF Placing
    <2>6. placed[e] = 0 /\ e \notin orphans
      BY <2>2, <2>3 DEF Once, WriteAhead, BrokerTypes
    <2>7. AtMostOneOrder' /\ WriteAhead'
      BY <2>3 DEF Once, AtMostOneOrder, WriteAhead, RowsStay, HasRow
    <2>8. ~AssumeIdempotency => Fresh' /\ Alone' /\ LostOnce'
      BY <2>3, <2>4, <2>5, <2>6 DEF Once, Fresh, Alone, LostOnce
    <2> QED BY <2>7, <2>8 DEF Once
  <1>5. CASE FetchNone(t)
    <2>1. UNCHANGED <<placed, orphans, mode>>
      BY <1>5 DEF FetchNone, broker
    <2>2. \A u \in Tasks : u # t => pc'[u] = pc[u] /\ rec'[u] = rec[u]
      BY <1>5 DEF FetchNone, Goto, Return, Write
    <2>3. CASE pc'[t] # "place" \/ mode # "live"
      <3>1. \A u \in Tasks, e \in Events : Placing(u, e)' => Placing(u, e)
        BY <2>1, <2>2, <2>3 DEF Placing
      <3> QED BY <2>1, <3>1, OnceQuiet
    <2>4. CASE pc'[t] = "place" /\ mode = "live"
      <3>1. AssumeIdempotency
        BY <1>5, <2>4 DEF FetchNone, Goto, Return, Write, SupportsClientOrderId
      <3> QED BY <2>1, <3>1 DEF Once, AtMostOneOrder, WriteAhead, RowsStay, HasRow
    <2> QED BY <2>3, <2>4
  <1>6. CASE /\ UNCHANGED <<placed, orphans, mode>> /\ pc'[t] # "place"
             /\ \A u \in Tasks : u # t => pc'[u] = pc[u] /\ rec'[u] = rec[u]
    <2>1. \A u \in Tasks, e \in Events : Placing(u, e)' => Placing(u, e)
      BY <1>6 DEF Placing
    <2> QED BY <1>6, <2>1, OnceQuiet
  <1>7. ASSUME DeadLetter(t) \/ Ack(t) \/ RecordInvalid(t) \/ Deny(t) \/ GetByEvent(t)
               \/ GetByDedupe(t) \/ RiskGate(t) \/ (InsertIntent(t) /\ pc'[t] # "place")
               \/ PaperPlace(t) \/ PlaceRefused(t) \/ AnswerLost(t) \/ AnswerAccepted(t)
               \/ AttemptSubmit(t) \/ MarkStatus(t) \/ FetchFound(t) \/ FetchRaises(t)
               \/ AttemptUnresolved(t) \/ HandlerRaises(t)
        PROVE  /\ UNCHANGED <<placed, orphans, mode>> /\ pc'[t] # "place"
               /\ \A u \in Tasks : u # t => pc'[u] = pc[u] /\ rec'[u] = rec[u]
    BY <1>7, QuietTask
  <1> QED
    BY <1>2, <1>3, <1>4, <1>5, <1>6, <1>7 DEF TaskStep

(* Once is inductive relative to Base. *)
LEMMA OnceStep ==
    ASSUME Base, Once, [Next]_vars
    PROVE  Once'
  <1>0. RowsStay
    BY TableStep DEF Base
  <1>1. ASSUME NEW t \in Tasks, TaskStep(t)
        PROVE  Once'
    BY <1>0, <1>1, OnceTask
  <1>2. CASE Crash
    <2>1. \A t \in Tasks, e \in Events : ~Placing(t, e)'
      BY <1>2 DEF Crash, Placing
    <2>2. PICK sent \in SUBSET {t \in Tasks : mode = "live" /\ pc[t] = "place"} :
             orphans' = orphans \cup {rec[t].event : t \in sent}
      BY <1>2 DEF Crash
    <2>3. placed' = placed /\ orders' = orders
      BY <1>2 DEF Crash, store
    <2>4. \A e \in orphans' \ orphans : \E t \in Tasks : Placing(t, e) /\ HasRow(e) /\ e \in Events
      BY <2>2 DEF Placing, Base, Control, RecordLabels
    <2>5. AtMostOneOrder' /\ WriteAhead'
      BY <2>3, <2>4 DEF Once, AtMostOneOrder, WriteAhead, HasRow
    <2>6. ~AssumeIdempotency => Fresh' /\ Alone' /\ LostOnce'
      BY <2>1, <2>3, <2>4 DEF Once, Fresh, Alone, LostOnce
    <2> QED BY <2>5, <2>6 DEF Once
  <1>3. ASSUME NEW e \in Events, OrphanAccepted(e)
        PROVE  Once'
    <2>1. /\ e \in orphans /\ orphans' = orphans \ {e} /\ Create(e)
          /\ UNCHANGED <<pc, rec, mode>>
      BY <1>3 DEF OrphanAccepted, locals
    <2>2. \A t \in Tasks, d \in Events : Placing(t, d)' => Placing(t, d)
      BY <2>1 DEF Placing
    <2>3. HasRow(e) /\ (~AssumeIdempotency => placed[e] = 0 /\ \A t \in Tasks : ~Placing(t, e)')
      BY <2>1, <2>2 DEF Once, WriteAhead, Fresh, LostOnce
    <2> QED BY <1>0, <2>1, <2>2, <2>3, OnceCreate
  <1>4. ASSUME UNCHANGED <<placed, orphans, pc, rec, mode>>
        PROVE  Once'
    BY <1>0, <1>4, OnceQuiet DEF Placing
  <1>5. ASSUME NEW t \in Tasks, NEW label \in {"ack", "recordInvalid", "deny", "getEvent", "fetch", "idle"},
               pc' = [pc EXCEPT ![t] = label], UNCHANGED <<placed, orphans, mode>>,
               \A u \in Tasks : u # t => rec'[u] = rec[u]
        PROVE  Once'
    <2>1. \A u \in Tasks, e \in Events : Placing(u, e)' => Placing(u, e)
      BY <1>5 DEF Placing, Base, TypeOK, LocalTypes
    <2> QED BY <1>0, <1>5, <2>1, OnceQuiet
  <1>6. ASSUME NEW t \in Dispatchers, NEW i, StartProcess(t, i), UNCHANGED <<placed, orphans, mode>>
        PROVE  Once'
    <2>1. PICK label \in {"ack", "recordInvalid", "deny", "getEvent"} : pc' = [pc EXCEPT ![t] = label]
      BY <1>6 DEF StartProcess
    <2>2. t \in Tasks /\ rec' = rec
      BY <1>6 DEF StartProcess, Tasks, Dispatchers
    <2> QED BY <1>5, <1>6, <2>1, <2>2
  <1>7. CASE Dispatch \/ \E i \in Entries : DispatchClaimed(i)
    BY <1>6, <1>7 DEF Dispatch, DispatchClaimed, Dispatchers, broker
  <1>8. CASE ReconcileNext
    <2>1. PICK label \in {"idle", "fetch"} : pc' = [pc EXCEPT !["reconcile"] = label]
      BY <1>8 DEF ReconcileNext, HandleExisting, Return, Dispatchers
    <2>2. /\ "reconcile" \in Tasks /\ UNCHANGED <<placed, orphans, mode>>
          /\ \A u \in Tasks : u # "reconcile" => rec'[u] = rec[u]
      BY <1>8 DEF ReconcileNext, HandleExisting, Return, broker, Tasks, Base, TypeOK, LocalTypes
    <2> QED BY <1>5, <2>1, <2>2
  <1> QED
    BY <1>1, <1>2, <1>3, <1>4, <1>7, <1>8
       DEF Next, ReadGroup, Reclaim, SnapshotPending, VenueSettles, GrowOld, broker, locals, vars

(* The venue never holds two orders for one signal event, whatever is lost,   *)
(* repeated, delayed or restarted, for any number of events, entries, faults  *)
(* and crashes: _submit is entered only by the task whose insert_intent       *)
(* created the row, unless the venue recognises client order ids.             *)
THEOREM OneOrderPerEvent == Spec => []AtMostOneOrder
  <1>1. Init => Base /\ Once
    BY BaseInit, OnceInit
  <1>2. Base /\ Once /\ [Next]_vars => (Base /\ Once)'
    BY BaseStep, OnceStep
  <1>3. Once => AtMostOneOrder
    BY DEF Once
  <1> QED BY <1>1, <1>2, <1>3, PTL DEF Spec

-----------------------------------------------------------------------------
(* TRADING_MODE=disabled: nothing is in hand but entries that are recorded or    *)
(* acknowledged.                                                                *)
AuditLabels == {"idle", "recordInvalid", "deadLetter", "deny", "ack"}
Audits == mode = "disabled" => paper = {} /\ queue = {} /\ \A t \in Tasks : pc[t] \in AuditLabels

(* What a disabled engine does to its table and its brokers: it adds rows.        *)
LEMMA AuditStep ==
    ASSUME Base, Audits, [Next]_vars, mode = "disabled"
    PROVE  /\ paper' = {} /\ queue' = {} /\ \A t \in Tasks : pc'[t] \in AuditLabels
           /\ \A e \in Events : HasRow(e) => orders'[e] = orders[e]
           /\ orphans' \subseteq orphans
  <1> DEFINE Quiet == /\ paper' = {} /\ queue' = {} /\ \A t \in Tasks : pc'[t] \in AuditLabels
                      /\ \A e \in Events : HasRow(e) => orders'[e] = orders[e]
                      /\ orphans' \subseteq orphans
  <1>0. paper = {} /\ queue = {} /\ (\A t \in Tasks : pc[t] \in AuditLabels) /\ pc \in [Tasks -> Labels]
    BY DEF Audits, Base, TypeOK, LocalTypes
  <1>1. CASE Crash
    BY <1>1 DEF Crash, AuditLabels, store
  <1>2. ASSUME NEW t \in Tasks, TaskStep(t) PROVE Quiet
    <2>1. pc[t] \in AuditLabels
      BY <1>0
    <2>2. DeadLetter(t) \/ Ack(t) \/ RecordInvalid(t) \/ Deny(t) \/ HandlerRaises(t)
      BY <1>2, <2>1 DEF AuditLabels, TaskStep, GetByEvent, GetByDedupe, RiskGate, InsertIntent, PaperPlace,
           VenueAccepts, PlaceTimesOut, PlaceRefused, AnswerLost, AnswerAccepted, AttemptSubmit, MarkStatus,
           FetchFound, FetchRaises, FetchNone, AttemptUnresolved
    <2>3. \A u \in Tasks : pc'[u] \in AuditLabels
      BY <1>0, <2>2 DEF DeadLetter, Ack, RecordInvalid, Deny, HandlerRaises, Goto, Return, AuditLabels
    <2>4. \A e \in Events : HasRow(e) => orders'[e] = orders[e]
      BY <2>2 DEF DeadLetter, Ack, RecordInvalid, Deny, HandlerRaises, store, RecordRejection, HasRow, Base, TypeOK
    <2>5. UNCHANGED <<paper, queue, orphans>>
      BY <2>2 DEF DeadLetter, Ack, RecordInvalid, Deny, HandlerRaises, broker
    <2> QED BY <1>0, <2>3, <2>4, <2>5
  <1>3. ASSUME NEW t \in Tasks, NEW i \in Entries, StartProcess(t, i), UNCHANGED <<queue, paper, orphans, orders>>
        PROVE  Quiet
    <2>1. KindOf[i] \in {"skip", "invalid", "signal"}
      BY StreamAssumption DEF Kinds
    <2>2. \E label \in AuditLabels : pc' = [pc EXCEPT ![t] = label]
      BY <1>3, <2>1 DEF StartProcess, AuditLabels
    <2> QED BY <1>0, <1>3, <2>2
  <1>4. CASE Dispatch \/ \E i \in Entries : DispatchClaimed(i)
    <2>1. Dispatch => cursor + 1 \in Entries
      BY StreamAssumption DEF Dispatch, Base, TypeOK, StreamTypes, Entries
    <2> QED BY <1>3, <1>4, <2>1 DEF Dispatch, DispatchClaimed, Tasks, broker, store
  <1>5. CASE ReadGroup \/ (\E i \in Entries : Reclaim(i)) \/ (\E e \in Events : VenueSettles(e) \/ GrowOld(e))
             \/ UNCHANGED vars
    BY <1>0, <1>5 DEF ReadGroup, Reclaim, VenueSettles, GrowOld, vars, broker, store, locals
  <1>6. CASE \E e \in Events : OrphanAccepted(e)
    BY <1>0, <1>6 DEF OrphanAccepted, store, locals
  <1> QED BY <1>0, <1>1, <1>2, <1>4, <1>5, <1>6 DEF Next, SnapshotPending, ReconcileNext

(* The mode is a setting of the process. *)
LEMMA ModeStep ==
    ASSUME [Next]_vars
    PROVE  UNCHANGED mode \/ Crash
  BY DEF Next, ReadGroup, Dispatch, Reclaim, DispatchClaimed, SnapshotPending, ReconcileNext, TaskStep,
         DeadLetter, Ack, RecordInvalid, Deny, GetByEvent, GetByDedupe, RiskGate, InsertIntent, PaperPlace,
         VenueAccepts, PlaceTimesOut, PlaceRefused, AnswerLost, AnswerAccepted, AttemptSubmit, MarkStatus,
         FetchFound, FetchRaises, FetchNone, AttemptUnresolved, HandlerRaises, OrphanAccepted, VenueSettles,
         GrowOld, vars

(* A disabled engine starts with nothing in hand, and takes nothing on. *)
LEMMA AuditsStay == ASSUME Base, Audits, [Next]_vars PROVE Audits'
  <1>1. CASE Crash
    BY <1>1 DEF Crash, Audits, AuditLabels
  <1>2. CASE UNCHANGED mode
    BY <1>2, AuditStep DEF Audits
  <1> QED BY <1>1, <1>2, ModeStep

(* An engine that is disabled leaves the rows, the venue and the paper account of  *)
(* an earlier mode alone, whatever it was doing when it was stopped.             *)
THEOREM DisabledStaysIdle == Spec => DisabledTouchesNothing
  <1>1. Init => Audits
    BY DEF Init, Audits, AuditLabels
  <1>2. Base /\ Audits /\ [Next]_vars =>
          [mode = "disabled" => /\ \A e \in Events : HasRow(e) => orders'[e] = orders[e]
                                /\ orphans' \subseteq orphans /\ paper' = {}]_vars
    BY AuditStep
  <1>3. Base /\ Audits /\ [Next]_vars => Audits'
    BY AuditsStay
  <1> QED BY <1>1, <1>2, <1>3, BaseInit, BaseStep, PTL DEF Spec, DisabledTouchesNothing

-----------------------------------------------------------------------------
(* What is known of an entry that is acknowledged. *)
Accounted(i) ==
    /\ KindOf[i] = "signal" => \E e \in Events : KeyOf[e] = KeyOf[EventOf[i]] /\ HasRow(e)
    /\ KindOf[i] = "invalid" => HasRow(EventOf[i]) \/ i \in deadLetters \/ faults >= 2

(* What a task has to know of its entry on the way there: the row it works on is   *)
(* one of the entry's window, and an entry that is copied to the dead letters has   *)
(* left a row, unless that failed.                                              *)
InvalidLabels == {"recordInvalid", "deadLetter"}
Answering(t) ==
    /\ pc[t] = "ack" => Accounted(entry[t])
    /\ pc[t] \in InvalidLabels => KindOf[entry[t]] = "invalid"
    /\ pc[t] = "deadLetter" => HasRow(EventAt(t)) \/ faults >= 1
    /\ pc[t] \notin InvalidLabels \cup {"idle", "ack"} => KindOf[entry[t]] = "signal"
    /\ pc[t] \in RecordLabels => KeyOf[rec[t].event] = KeyOf[EventAt(t)]

Accounts == \A t \in Dispatchers : Answering(t)

(* What was known of a task's entry stays known: rows, dead letters and failures stay. *)
LEMMA AnsweringElsewhere ==
    ASSUME Base, RowsStay, NEW t \in Dispatchers, Answering(t), deadLetters \subseteq deadLetters',
           faults <= faults', faults' \in Nat,
           pc'[t] = pc[t], entry'[t] = entry[t], pc[t] \in RecordLabels => rec'[t].event = rec[t].event
    PROVE  Answering(t)'
  <1>1. t \in Tasks /\ pc[t] \in Labels /\ faults \in Nat
    BY DEF Base, TypeOK, LocalTypes, Tasks, Dispatchers
  <1>2. CASE pc[t] = "idle"
    BY <1>2 DEF Answering, InvalidLabels, RecordLabels
  <1>3. CASE pc[t] # "idle"
    <2>1. entry[t] \in Entries /\ EventAt(t) \in Events
      BY <1>1, <1>3, StreamAssumption DEF Base, TypeOK, Control, LocalTypes, EventAt, Entries
    <2>2. Accounted(entry[t]) => Accounted(entry[t])'
      BY <1>1, <2>1, StreamAssumption DEF Accounted, RowsStay, HasRow
    <2>3. HasRow(EventAt(t)) => HasRow(EventAt(t))'
      BY <2>1 DEF RowsStay, HasRow, EventAt
    <2>4. faults >= 1 => faults' >= 1
      BY <1>1
    <2> QED BY <2>2, <2>3, <2>4 DEF Answering, EventAt
  <1> QED BY <1>2, <1>3

(* Failures are counted and dead letters kept. *)
LEMMA NothingForgotten ==
    ASSUME Base, [Next]_vars
    PROVE  deadLetters \subseteq deadLetters' /\ faults <= faults' /\ faults' \in Nat
  <1>1. UNCHANGED faults \/ faults' = faults + 1
    BY DEF Next, ReadGroup, Dispatch, Reclaim, DispatchClaimed, SnapshotPending, ReconcileNext, TaskStep,
         DeadLetter, Ack, RecordInvalid, Deny, GetByEvent, GetByDedupe, RiskGate, InsertIntent, PaperPlace,
         VenueAccepts, PlaceTimesOut, PlaceRefused, AnswerLost, AnswerAccepted, AttemptSubmit, MarkStatus,
         FetchFound, FetchRaises, FetchNone, AttemptUnresolved, HandlerRaises, OrphanAccepted, VenueSettles,
         GrowOld, Crash, vars, bounds, Fault, FaultIf
  <1>2. deadLetters \subseteq deadLetters'
    BY DEF Next, ReadGroup, Dispatch, Reclaim, DispatchClaimed, SnapshotPending, ReconcileNext, TaskStep,
         DeadLetter, Ack, RecordInvalid, Deny, GetByEvent, GetByDedupe, RiskGate, InsertIntent, PaperPlace,
         VenueAccepts, PlaceTimesOut, PlaceRefused, AnswerLost, AnswerAccepted, AttemptSubmit, MarkStatus,
         FetchFound, FetchRaises, FetchNone, AttemptUnresolved, HandlerRaises, OrphanAccepted, VenueSettles,
         GrowOld, Crash, vars, stream
  <1> QED BY <1>1, <1>2 DEF Base, TypeOK

(* A task that returns without acknowledging owes nothing. *)
LEMMA AnsweringIdle ==
    ASSUME NEW t \in Dispatchers, pc'[t] = "idle"
    PROVE  Answering(t)'
  BY DEF Answering, InvalidLabels, RecordLabels

(* Entering _handle_existing with a row of the entry's window. *)
LEMMA AnsweringExisting ==
    ASSUME Base, RowsStay, NEW t \in Dispatchers, KindOf[entry[t]] = "signal", entry[t] \in Entries,
           NEW d \in Events, HasRow(d), KeyOf[d] = KeyOf[EventAt(t)], HandleExisting(t, RecordOf(d))
    PROVE  Answering(t)'
  <1>0. t \in Tasks /\ LocalTypes /\ t \in Dispatchers
    BY DEF Base, TypeOK, Tasks, Dispatchers
  <1>1. CASE Return(t, TRUE)
    <2>1. pc'[t] = "ack" /\ entry' = entry
      BY <1>0, <1>1 DEF Return, LocalTypes
    <2>2. Accounted(entry[t])'
      BY <2>1 DEF Accounted, RowsStay, HasRow, EventAt
    <2> QED BY <2>1, <2>2 DEF Answering, InvalidLabels, RecordLabels
  <1>2. CASE pc' = [pc EXCEPT ![t] = "fetch"] /\ rec' = [rec EXCEPT ![t] = RecordOf(d)] /\ UNCHANGED entry
    <2>1. pc'[t] = "fetch" /\ entry' = entry /\ rec'[t].event = d
      BY <1>0, <1>2 DEF LocalTypes, RecordOf
    <2> QED BY <2>1 DEF Answering, InvalidLabels, EventAt
  <1> QED BY <1>1, <1>2 DEF HandleExisting

(* What a dispatcher does with its entry. *)
LEMMA AnsweringOwn ==
    ASSUME Base, RowsStay, NEW t \in Dispatchers, Answering(t), TaskStep(t), [Next]_vars
    PROVE  Answering(t)'
  <1>0. /\ t \in Tasks /\ pc \in [Tasks -> Labels] /\ entry \in [Tasks -> 0..NumEntries]
        /\ rec \in [Tasks -> Record \cup {NoRecord}] /\ orders \in [Events -> Row] /\ faults \in Nat
        /\ pc[t] # "idle"
    BY DEF Base, TypeOK, LocalTypes, Tasks, Dispatchers, TaskStep, DeadLetter, Ack, RecordInvalid, Deny, GetByEvent,
         GetByDedupe, RiskGate, InsertIntent, PaperPlace, VenueAccepts, PlaceTimesOut, PlaceRefused, AnswerLost,
         AnswerAccepted, AttemptSubmit, MarkStatus, FetchFound, FetchRaises, FetchNone, AttemptUnresolved,
         HandlerRaises, StoreLabels
  <1>1. entry[t] \in Entries /\ EventAt(t) \in Events
    BY <1>0, StreamAssumption DEF Base, Control, EventAt, Entries
  <1>2. faults <= faults' /\ faults' \in Nat /\ deadLetters \subseteq deadLetters'
    BY NothingForgotten
  <1>3. ASSUME NEW label \in Labels \ (InvalidLabels \cup {"ack", "idle"}), KindOf[entry[t]] = "signal", pc'[t] = label,
               entry'[t] = entry[t], label \in RecordLabels => KeyOf[rec'[t].event] = KeyOf[EventAt(t)]
        PROVE  Answering(t)'
    BY <1>3 DEF Answering, InvalidLabels, EventAt
  <1>4. ASSUME pc'[t] = "ack", entry'[t] = entry[t], Accounted(entry[t])'
        PROVE  Answering(t)'
    BY <1>4 DEF Answering, InvalidLabels, RecordLabels
  <1>5. ASSUME NEW e \in Events, KindOf[entry[t]] = "signal", HasRow(e), KeyOf[e] = KeyOf[EventAt(t)],
               entry'[t] = entry[t]
        PROVE  Accounted(entry[t])'
    BY <1>5 DEF Accounted, RowsStay, HasRow, EventAt
  <1>6. ASSUME KindOf[entry[t]] = "signal", pc'[t] = "idle" \/ (pc'[t] = "ack" /\ entry'[t] = entry[t]),
               NEW e \in Events, HasRow(e), KeyOf[e] = KeyOf[EventAt(t)]
        PROVE  Answering(t)'
    BY <1>4, <1>5, <1>6, AnsweringIdle
  <1>7. CASE DeadLetter(t)
    <2>1. pc'[t] = "ack" /\ entry'[t] = entry[t] /\ KindOf[entry[t]] = "invalid"
      BY <1>0, <1>7 DEF DeadLetter, Goto, Answering, InvalidLabels
    <2>2. HasRow(EventOf[entry[t]])' \/ entry[t] \in deadLetters' \/ faults' >= 2
      <3>1. HasRow(EventOf[entry[t]]) => HasRow(EventOf[entry[t]])'
        BY <1>1, <2>1 DEF RowsStay, HasRow, EventAt
      <3>2. HasRow(EventOf[entry[t]]) \/ faults >= 1
        BY <1>7 DEF DeadLetter, Answering, EventAt
      <3>3. entry[t] \in deadLetters' \/ faults' = faults + 1
        BY <1>7 DEF DeadLetter, Fault
      <3> QED BY <1>0, <3>1, <3>2, <3>3
    <2>3. Accounted(entry[t])'
      BY <2>1, <2>2 DEF Accounted
    <2> QED BY <1>4, <2>1, <2>3
  <1>8. CASE Ack(t)
    BY <1>0, <1>8, AnsweringIdle DEF Ack, Return
  <1>9. CASE RecordInvalid(t)
    <2>1. pc'[t] = "deadLetter" /\ entry'[t] = entry[t] /\ KindOf[entry[t]] = "invalid"
      BY <1>0, <1>9 DEF RecordInvalid, Goto, Answering, InvalidLabels
    <2>2. HasRow(EventAt(t))'
      BY <1>0, <1>1, <1>9, <2>1 DEF RecordInvalid, RecordRejection, HasRow, EventAt
    <2> QED BY <2>1, <2>2 DEF Answering, InvalidLabels, RecordLabels
  <1>10. CASE HandlerRaises(t)
    <2>1. CASE pc[t] = "recordInvalid"
      <3>1. pc'[t] = "deadLetter" /\ entry'[t] = entry[t] /\ KindOf[entry[t]] = "invalid" /\ faults' >= 1
        BY <1>0, <1>10, <2>1 DEF HandlerRaises, Goto, Answering, InvalidLabels, Fault
      <3> QED BY <3>1 DEF Answering, InvalidLabels, RecordLabels
    <2>2. CASE pc[t] # "recordInvalid"
      BY <1>0, <1>10, <2>2, AnsweringIdle DEF HandlerRaises, Return
    <2> QED BY <2>1, <2>2
  <1>11. ASSUME pc[t] \notin InvalidLabels \cup {"ack"} PROVE KindOf[entry[t]] = "signal"
    BY <1>0, <1>11 DEF Answering
  <1>12. ASSUME pc[t] \in RecordLabels
         PROVE  /\ KindOf[entry[t]] = "signal" /\ rec[t].event \in Events /\ HasRow(rec[t].event)
                /\ KeyOf[rec[t].event] = KeyOf[EventAt(t)]
    BY <1>0, <1>11, <1>12 DEF Answering, RecordLabels, InvalidLabels, Base, Control
  <1>13. CASE Deny(t)
    <2>1. pc'[t] = "ack" /\ entry'[t] = entry[t] /\ KindOf[entry[t]] = "signal"
      BY <1>0, <1>11, <1>13 DEF Deny, Return, InvalidLabels
    <2>2. HasRow(EventAt(t))'
      BY <1>0, <1>1, <1>13, <2>1 DEF Deny, RecordRejection, HasRow, EventAt
    <2>3. Accounted(entry[t])'
      BY <1>1, <2>1, <2>2 DEF Accounted, EventAt
    <2> QED BY <1>4, <2>1, <2>3
  <1>14. CASE GetByEvent(t)
    <2>1. KindOf[entry[t]] = "signal"
      BY <1>11, <1>14 DEF GetByEvent, InvalidLabels
    <2>2. CASE HasRow(EventAt(t))
      BY <1>1, <1>14, <2>1, <2>2, AnsweringExisting DEF GetByEvent
    <2>3. CASE ~HasRow(EventAt(t))
      BY <1>0, <1>3, <1>14, <2>1, <2>3 DEF GetByEvent, Goto, Labels, StoreLabels, InvalidLabels, RecordLabels
    <2> QED BY <2>2, <2>3
  <1>15. CASE GetByDedupe(t)
    <2>1. KindOf[entry[t]] = "signal"
      BY <1>11, <1>15 DEF GetByDedupe, InvalidLabels
    <2>2. CASE KeyHolders(EventAt(t)) # {}
      <3>1. PICK d \in Events : KeyOf[d] = KeyOf[EventAt(t)] /\ HasRow(d)
        BY <2>2 DEF KeyHolders, HoldsKey, HasRow
      <3>2. pc'[t] = "ack" /\ entry'[t] = entry[t]
        BY <1>0, <1>15, <2>2 DEF GetByDedupe, Return
      <3> QED BY <1>6, <2>1, <3>1, <3>2
    <2>3. CASE KeyHolders(EventAt(t)) = {}
      BY <1>0, <1>3, <1>15, <2>1, <2>3 DEF GetByDedupe, Goto, Labels, StoreLabels, InvalidLabels, RecordLabels
    <2> QED BY <2>2, <2>3
  <1>16. CASE RiskGate(t)
    <2>1. KindOf[entry[t]] = "signal"
      BY <1>11, <1>16 DEF RiskGate, InvalidLabels
    <2>2. pc'[t] \in {"deny", "insert", "idle"} /\ (pc'[t] # "idle" => entry'[t] = entry[t])
      BY <1>0, <1>16 DEF RiskGate, Goto, Return
    <2> QED BY <1>3, <2>1, <2>2, AnsweringIdle DEF Labels, StoreLabels, InvalidLabels, RecordLabels
  <1>17. CASE InsertIntent(t)
    <2>1. KindOf[entry[t]] = "signal"
      BY <1>11, <1>17 DEF InsertIntent, InvalidLabels
    <2>2. ASSUME NEW d \in Events, HasRow(d), KeyOf[d] = KeyOf[EventAt(t)], HandleExisting(t, RecordOf(d))
          PROVE  Answering(t)'
      BY <1>1, <2>1, <2>2, AnsweringExisting
    <2>3. CASE pc' = [pc EXCEPT ![t] = "place"] /\ rec' = [rec EXCEPT ![t] = [event |-> EventAt(t), row |-> NoRow]]
               /\ UNCHANGED entry
      <3>1. pc'[t] = "place" /\ rec'[t].event = EventAt(t) /\ entry'[t] = entry[t]
        BY <1>0, <2>3
      <3> QED BY <1>3, <2>1, <3>1 DEF Labels, PlacingLabels, InvalidLabels
    <2> QED BY <1>1, <1>17, <2>2, <2>3 DEF InsertIntent, KeyHolders, HoldsKey, HasRow
  <1>18. CASE MarkStatus(t)
    <2>1. pc[t] \in RecordLabels /\ (pc'[t] = "idle" \/ (pc'[t] = "ack" /\ entry'[t] = entry[t]))
      BY <1>0, <1>18 DEF MarkStatus, Return, RecordLabels
    <2> QED BY <1>6, <1>12, <2>1
  <1>19. CASE PaperPlace(t) \/ VenueAccepts(t) \/ PlaceTimesOut(t) \/ PlaceRefused(t) \/ AnswerLost(t)
              \/ AnswerAccepted(t) \/ AttemptSubmit(t) \/ FetchFound(t) \/ FetchRaises(t) \/ FetchNone(t)
              \/ AttemptUnresolved(t)
    <2>1. pc[t] \in RecordLabels
      BY <1>19 DEF PaperPlace, VenueAccepts, PlaceTimesOut, PlaceRefused, AnswerLost, AnswerAccepted, AttemptSubmit,
           FetchFound, FetchRaises, FetchNone, AttemptUnresolved, RecordLabels
    <2>2. \/ Return(t, FALSE)
          \/ \E label \in RecordLabels \ {"fetch", "mark"} : Goto(t, label)
          \/ \E s, ref, ack : Write(t, s, ref, ack)
      BY <1>19 DEF PaperPlace, VenueAccepts, PlaceTimesOut, PlaceRefused, AnswerLost, AnswerAccepted, AttemptSubmit,
           FetchFound, FetchRaises, FetchNone, AttemptUnresolved, RecordLabels, OnTransientError
    <2>3. \/ pc'[t] = "idle"
          \/ pc'[t] \in RecordLabels /\ entry'[t] = entry[t] /\ rec'[t].event = rec[t].event
      BY <1>0, <2>2 DEF Return, Goto, Write, Forget, RecordLabels
    <2>4. RecordLabels \subseteq Labels \ (InvalidLabels \cup {"ack", "idle"})
      BY DEF RecordLabels, Labels, StoreLabels, PlacingLabels, InvalidLabels
    <2> QED BY <1>3, <1>12, <2>1, <2>3, <2>4, AnsweringIdle
  <1> QED BY <1>7, <1>8, <1>9, <1>10, <1>13, <1>14, <1>15, <1>16, <1>17, <1>18, <1>19 DEF TaskStep

(* A dispatcher that takes up an entry. *)
LEMMA AnsweringStart ==
    ASSUME Base, NEW t \in Dispatchers, NEW i \in Entries, StartProcess(t, i)
    PROVE  Answering(t)'
  <1>1. t \in Tasks /\ LocalTypes
    BY DEF Base, TypeOK, Tasks, Dispatchers
  <1>2. entry'[t] = i /\ KindOf[i] \in Kinds
    BY <1>1, StreamAssumption DEF StartProcess, LocalTypes
  <1>3. /\ KindOf[i] = "skip" => pc'[t] = "ack"
        /\ KindOf[i] = "invalid" => pc'[t] = "recordInvalid"
        /\ KindOf[i] = "signal" => pc'[t] \in {"deny", "getEvent"}
    BY <1>1 DEF StartProcess, LocalTypes
  <1> QED BY <1>2, <1>3 DEF Answering, Accounted, InvalidLabels, RecordLabels, Kinds

(* Accounts is inductive relative to Base. *)
LEMMA AccountsStep ==
    ASSUME Base, Accounts, [Next]_vars
    PROVE  Accounts'
  <1>0. /\ RowsStay /\ deadLetters \subseteq deadLetters' /\ faults <= faults' /\ faults' \in Nat
        /\ LocalTypes /\ Dispatchers \subseteq Tasks
    BY TableStep, NothingForgotten DEF Base, TypeOK, Tasks, Dispatchers
  <1>1. ASSUME NEW t \in Tasks, TaskStep(t) PROVE Accounts'
    <2> SUFFICES ASSUME NEW u \in Dispatchers PROVE Answering(u)'
      BY DEF Accounts
    <2>1. CASE u = t
      BY <1>0, <1>1, <2>1, AnsweringOwn DEF Accounts
    <2>2. CASE u # t
      BY <1>0, <1>1, <2>2, TaskFrame, AnsweringElsewhere DEF Accounts
    <2> QED BY <2>1, <2>2
  <1>2. ASSUME NEW t \in Dispatchers, NEW i \in Entries, StartProcess(t, i) PROVE Accounts'
    <2> SUFFICES ASSUME NEW u \in Dispatchers PROVE Answering(u)'
      BY DEF Accounts
    <2>1. CASE u = t
      BY <1>2, <2>1, AnsweringStart
    <2>2. u # t => pc'[u] = pc[u] /\ entry'[u] = entry[u] /\ rec'[u] = rec[u]
      BY <1>2 DEF StartProcess
    <2>3. CASE u # t
      BY <1>0, <2>2, <2>3, AnsweringElsewhere DEF Accounts
    <2> QED BY <2>1, <2>3
  <1>3. CASE Dispatch \/ \E i \in Entries : DispatchClaimed(i)
    <2>1. Dispatch => cursor + 1 \in Entries
      BY StreamAssumption DEF Dispatch, Base, TypeOK, StreamTypes, Entries
    <2> QED BY <1>2, <1>3, <2>1 DEF Dispatch, DispatchClaimed, Dispatchers
  <1>4. CASE Crash
    BY <1>4, AnsweringIdle DEF Crash, Accounts, Dispatchers, Tasks
  <1>5. ASSUME \A u \in Dispatchers : pc'[u] = pc[u] /\ entry'[u] = entry[u] /\ rec'[u] = rec[u] PROVE Accounts'
    BY <1>0, <1>5, AnsweringElsewhere DEF Accounts
  <1>6. CASE ReconcileNext
    BY <1>0, <1>5, <1>6 DEF ReconcileNext, HandleExisting, Return, Dispatchers, LocalTypes
  <1> QED BY <1>1, <1>3, <1>4, <1>5, <1>6
       DEF Next, ReadGroup, Reclaim, SnapshotPending, OrphanAccepted, VenueSettles, GrowOld, locals, vars

(* The entries that are acknowledged are those a dispatcher had accounted for. *)
LEMMA AckedStep ==
    ASSUME Base, Accounts, AckedIsAccounted, [Next]_vars
    PROVE  AckedIsAccounted'
  <1>0. /\ RowsStay /\ deadLetters \subseteq deadLetters' /\ faults <= faults' /\ faults' \in Nat /\ faults \in Nat
        /\ delivered \in 0..NumEntries /\ pel \subseteq Entries
    BY TableStep, NothingForgotten DEF Base, TypeOK, StreamTypes
  <1>1. ASSUME NEW i \in Entries, Accounted(i) PROVE Accounted(i)'
    BY <1>0, <1>1, StreamAssumption DEF Accounted, RowsStay, HasRow
  <1>2. SUFFICES ASSUME NEW i \in (1..delivered') \ pel' PROVE Accounted(i)'
    BY DEF AckedIsAccounted, Accounted
  <1>3. \/ i \in (1..delivered) \ pel
        \/ \E t \in Dispatchers : pc[t] = "ack" /\ entry[t] = i
    <2>1. CASE UNCHANGED <<delivered, pel>>
      BY <2>1
    <2>2. CASE ReadGroup
      <3>1. PICK last \in (delivered + 1)..NumEntries : delivered' = last /\ pel' = pel \cup ((delivered + 1)..last)
        BY <2>2 DEF ReadGroup
      <3> QED BY <1>0, <3>1, StreamAssumption
    <2>3. ASSUME NEW t \in Tasks, Ack(t) PROVE i \in (1..delivered) \ pel \/ (pc[t] = "ack" /\ entry[t] = i /\ t \in Dispatchers)
      <3>1. delivered' = delivered /\ pel \ {entry[t]} \subseteq pel' /\ pc[t] = "ack"
        BY <2>3 DEF Ack
      <3>2. t \in Dispatchers
        BY <3>1 DEF Base, Control, EntryLabels
      <3> QED BY <3>1, <3>2
    <2>4. ASSUME NEW t \in Tasks, TaskStep(t), ~Ack(t) PROVE UNCHANGED <<delivered, pel>>
      BY <2>4 DEF TaskStep, DeadLetter, RecordInvalid, Deny, GetByEvent,
         GetByDedupe, RiskGate, InsertIntent, PaperPlace, VenueAccepts, PlaceTimesOut, PlaceRefused, AnswerLost,
         AnswerAccepted, AttemptSubmit, MarkStatus, FetchFound, FetchRaises, FetchNone, AttemptUnresolved,
         HandlerRaises, stream
    <2> QED BY <2>1, <2>2, <2>3, <2>4 DEF Next, Dispatch, Reclaim, DispatchClaimed, SnapshotPending, ReconcileNext,
         Crash, OrphanAccepted, VenueSettles, GrowOld, stream, vars
  <1>4. i \in Entries
    BY <1>0, <1>3, StreamAssumption DEF Entries, Base, TypeOK, Control, LocalTypes, Dispatchers, Tasks
  <1>5. Accounted(i)
    BY <1>3 DEF AckedIsAccounted, Accounted, Accounts, Answering
  <1> QED BY <1>1, <1>4, <1>5

(* An entry that was acknowledged is accounted for, wherever the engine failed or   *)
(* was stopped between the row, the dead letter and the XACK.                     *)
THEOREM AckedAlwaysAccounted == Spec => []AckedIsAccounted
  <1>1. Init => Accounts /\ AckedIsAccounted
    <2> SUFFICES ASSUME Init PROVE Accounts /\ AckedIsAccounted
      OBVIOUS
    <2>1. Accounts
      BY DEF Init, Accounts, Answering, InvalidLabels, RecordLabels, Dispatchers, Tasks
    <2>2. (1..delivered) \ pel = {}
      BY DEF Init
    <2> QED BY <2>1, <2>2 DEF AckedIsAccounted
  <1> QED BY <1>1, BaseInit, BaseStep, AccountsStep, AckedStep, PTL DEF Spec

-----------------------------------------------------------------------------
(* An order of e is at the venue and was not refused there, or may come to be.    *)
Exposed(e) == Live(e) \/ e \in orphans \/ \E t \in Tasks : Placing(t, e)

(* An event that is exposed holds its key, a refusal that is about to be recorded   *)
(* is of one that is not and never will be, and the index keeps a key's holder    *)
(* alone.                                                                       *)
Held == \A e \in Events : Exposed(e) => HoldsKey(e)
Refusing(t, e) == pc[t] = "mark" /\ verdict[t].status = "REJECTED" /\ rec[t].event = e
Refusals == \A t \in Tasks, e \in Events : Refusing(t, e) => ~Exposed(e)
Traded == \A e \in Events : venue[e] # "none" => placed[e] > 0
Indexed == \A e, d \in Events : KeyOf[e] = KeyOf[d] /\ HoldsKey(e) /\ HoldsKey(d) => e = d

Keys == Held /\ Refusals /\ Traded /\ Indexed

(* A venue that answers what it did, and that is not asked for an order twice; the   *)
(* paper broker is another account.                                              *)
PlainVenue == ~AssumeIdempotency /\ ~LateVenueErrors /\ "paper" \notin Modes

(* What a step does to the statuses: it changes one row at most. *)
RowMade(e) ==
    ~HasRow(e) /\ \/ orders'[e].status = "REJECTED"
                  \/ orders'[e].status = "INTENT" /\ KeyHolders(e) = {}
RowMarked(e) ==
    HasRow(e) /\ \E t \in Tasks :
        /\ pc[t] = "mark" /\ rec[t].event = e /\ orders'[e].status = verdict[t].status
        /\ verdict[t].status # "REJECTED" => KeyHolders(e) \subseteq {e}

LEMMA TableChange ==
    ASSUME Base, [Next]_vars
    PROVE  \/ \A d \in Events : orders'[d].status = orders[d].status
           \/ \E e \in Events : /\ \A d \in Events \ {e} : orders'[d].status = orders[d].status
                                /\ RowMade(e) \/ RowMarked(e)
  <1> USE DEF Base, TypeOK
  <1> DEFINE Changes ==
               \/ \A d \in Events : orders'[d].status = orders[d].status
               \/ \E e \in Events : /\ \A d \in Events \ {e} : orders'[d].status = orders[d].status
                                    /\ RowMade(e) \/ RowMarked(e)
  <1>1. ASSUME UNCHANGED orders PROVE Changes
    BY <1>1
  <1>2. ASSUME NEW t \in Tasks, pc[t] \in {"recordInvalid", "deny", "insert"} PROVE EventAt(t) \in Events
    <2>1. entry[t] \in Entries
      BY <1>2, StreamAssumption DEF Control, LocalTypes, Entries, EntryLabels
    <2> QED BY <2>1, StreamAssumption DEF EventAt
  <1>3. ASSUME NEW e \in Events, RecordRejection(e) PROVE Changes
    BY <1>3 DEF RecordRejection, RowMade, HasRow
  <1>4. ASSUME NEW t \in Tasks, InsertIntent(t) PROVE Changes
    <2>1. CASE ~UNCHANGED orders
      <3> DEFINE e == EventAt(t)
      <3>1. /\ e \in Events /\ ~HasRow(e) /\ KeyHolders(e) = {}
            /\ orders' = [orders EXCEPT ![e] = [status |-> "INTENT", attempts |-> 1, ref |-> FALSE]]
        BY <1>2, <1>4, <2>1 DEF InsertIntent
      <3> HIDE DEF e
      <3>2. orders'[e].status = "INTENT" /\ \A d \in Events \ {e} : orders'[d].status = orders[d].status
        BY <3>1
      <3> QED BY <3>1, <3>2 DEF RowMade
    <2> QED BY <1>1, <2>1
  <1>5. ASSUME NEW e \in Events, CountAttempt(e) PROVE Changes
    BY <1>5 DEF CountAttempt
  <1>6. ASSUME NEW t \in Tasks, AttemptSubmit(t) \/ AttemptUnresolved(t) PROVE Changes
    <2>1. rec[t].event \in Events
      BY <1>6 DEF AttemptSubmit, AttemptUnresolved, Control, RecordLabels
    <2> QED BY <1>5, <1>6, <2>1 DEF AttemptSubmit, AttemptUnresolved
  <1>7. ASSUME NEW t \in Tasks, MarkStatus(t) PROVE Changes
    <2> DEFINE e == rec[t].event
    <2>1. pc[t] = "mark" /\ e \in Events /\ HasRow(e)
      BY <1>7 DEF MarkStatus, Control, RecordLabels
    <2>2. CASE ~UNCHANGED orders
      <3>1. /\ orders' = [orders EXCEPT ![e] =
                  [status |-> verdict[t].status, attempts |-> @.attempts, ref |-> @.ref \/ verdict[t].ref]]
            /\ verdict[t].status # "REJECTED" => KeyHolders(e) \ {e} = {}
        BY <1>7, <2>2 DEF MarkStatus
      <3> HIDE DEF e
      <3>2. orders'[e].status = verdict[t].status /\ \A d \in Events \ {e} : orders'[d].status = orders[d].status
        BY <2>1, <3>1
      <3>3. RowMarked(e)
        BY <2>1, <3>1, <3>2 DEF RowMarked, e
      <3> QED BY <2>1, <3>2, <3>3
    <2> QED BY <1>1, <2>2
  <1>8. ASSUME NEW t \in Tasks, TaskStep(t) PROVE Changes
    BY <1>1, <1>2, <1>3, <1>4, <1>6, <1>7, <1>8
       DEF TaskStep, DeadLetter, Ack, RecordInvalid, Deny, GetByEvent, GetByDedupe, RiskGate,
           PaperPlace, VenueAccepts, PlaceRefused, PlaceTimesOut, AnswerLost, AnswerAccepted,
           FetchFound, FetchRaises, FetchNone, HandlerRaises, store
  <1> HIDE DEF Changes
  <1>9. Changes
    BY <1>1, <1>8 DEF Next, ReadGroup, Dispatch, Reclaim, DispatchClaimed, SnapshotPending, ReconcileNext, Crash,
           OrphanAccepted, VenueSettles, GrowOld, store, vars
  <1> QED BY <1>9 DEF Changes

(* Only the insert of its intent exposes an event. *)
LEMMA ExposureTask ==
    ASSUME Base, Audits, PlainVenue, NEW t \in Tasks, TaskStep(t), NEW e \in Events, Exposed(e)'
    PROVE  Exposed(e) \/ (~HasRow(e) /\ orders'[e].status = "INTENT")
  <1>0. /\ LocalTypes /\ orders \in [Events -> Row] /\ placed \in [Events -> Nat]
        /\ pc[t] = "place" => rec[t].event \in Events
        /\ venue \in [Events -> (Reports \ {"missing"}) \cup {"none"}]
    BY DEF Base, TypeOK, BrokerTypes, Control, RecordLabels
  <1>1. \A u \in Tasks : u # t => pc'[u] = pc[u] /\ rec'[u] = rec[u]
    BY <1>0, TaskFrame
  <1>2. CASE VenueAccepts(t)
    <2>1. /\ Placing(t, rec[t].event) /\ UNCHANGED <<orphans, mode>> /\ pc'[t] # "place"
          /\ \A d \in Events \ {rec[t].event} : placed'[d] = placed[d] /\ venue'[d] = venue[d]
      BY <1>0, <1>2 DEF VenueAccepts, Create, Goto, Placing, LocalTypes
    <2> QED BY <1>0, <1>1, <2>1 DEF Exposed, Live, Placing
  <1>3. CASE PlaceTimesOut(t)
    <2>1. /\ Placing(t, rec[t].event) /\ UNCHANGED <<placed, venue, mode>> /\ pc'[t] # "place"
          /\ orphans' \subseteq orphans \cup {rec[t].event}
      BY <1>0, <1>3 DEF PlaceTimesOut, OnTransientError, Goto, Placing, LocalTypes
    <2> QED BY <1>0, <1>1, <2>1 DEF Exposed, Live, Placing
  <1>4. CASE InsertIntent(t) /\ pc'[t] = "place"
    <2> DEFINE d == EventAt(t)
    <2>1. d \in Events
      <3>1. entry[t] \in Entries
        BY <1>4, StreamAssumption DEF InsertIntent, Base, TypeOK, Control, LocalTypes, Entries, EntryLabels
      <3> QED BY <3>1, StreamAssumption DEF EventAt
    <2>2. /\ ~HasRow(d) /\ UNCHANGED <<placed, venue, orphans, mode>> /\ rec'[t].event = d
          /\ orders' = [orders EXCEPT ![d] = [status |-> "INTENT", attempts |-> 1, ref |-> FALSE]]
      BY <1>0, <1>4 DEF InsertIntent, HandleExisting, Return, broker, LocalTypes
    <2> HIDE DEF d
    <2>3. orders'[d].status = "INTENT"
      BY <1>0, <2>1, <2>2
    <2> QED BY <1>0, <1>1, <2>2, <2>3 DEF Exposed, Live, Placing
  <1>5. CASE FetchNone(t)
    <2>1. mode = "live"
      BY <1>0, <1>5, SettingsAssumption DEF FetchNone, Audits, AuditLabels, PlainVenue, Base, TypeOK, BrokerTypes
    <2>2. UNCHANGED <<placed, venue, orphans, mode>> /\ pc'[t] # "place"
      BY <1>0, <1>5, <2>1 DEF FetchNone, Goto, Return, Write, SupportsClientOrderId, PlainVenue, broker, LocalTypes
    <2> QED BY <1>0, <1>1, <2>2 DEF Exposed, Live, Placing
  <1>6. CASE /\ UNCHANGED <<placed, venue, orphans, mode>> /\ pc'[t] # "place"
    BY <1>1, <1>6 DEF Exposed, Live, Placing
  <1> QED BY <1>0, <1>2, <1>3, <1>4, <1>5, <1>6, QuietTask DEF TaskStep

(* The same of every step. *)
LEMMA ExposureStep ==
    ASSUME Base, Audits, PlainVenue, [Next]_vars, NEW e \in Events, Exposed(e)'
    PROVE  Exposed(e) \/ (~HasRow(e) /\ orders'[e].status = "INTENT")
  <1>0. LocalTypes /\ orphans \subseteq Events /\ Dispatchers \subseteq Tasks /\ "reconcile" \in Tasks
    BY DEF Base, TypeOK, BrokerTypes, Dispatchers, Tasks
  <1>1. ASSUME NEW t \in Tasks, TaskStep(t) PROVE Exposed(e) \/ (~HasRow(e) /\ orders'[e].status = "INTENT")
    BY <1>1, ExposureTask
  <1>2. CASE Crash
    <2>1. \A t \in Tasks : ~Placing(t, e)'
      BY <1>2 DEF Crash, Placing
    <2>2. PICK sent \in SUBSET {t \in Tasks : mode = "live" /\ pc[t] = "place"} :
             orphans' = orphans \cup {rec[t].event : t \in sent}
      BY <1>2 DEF Crash
    <2>3. UNCHANGED <<placed, venue>>
      BY <1>2 DEF Crash
    <2> QED BY <2>1, <2>2, <2>3 DEF Exposed, Live, Placing
  <1>3. ASSUME NEW d \in Events, OrphanAccepted(d) PROVE Exposed(e)
    <2>1. /\ d \in orphans /\ orphans' = orphans \ {d} /\ UNCHANGED <<pc, rec, mode>>
          /\ \A c \in Events \ {d} : placed'[c] = placed[c] /\ venue'[c] = venue[c]
      BY <1>3 DEF OrphanAccepted, Create, locals, Base, TypeOK, BrokerTypes
    <2> QED BY <2>1 DEF Exposed, Live, Placing
  <1>4. ASSUME NEW d \in Events, VenueSettles(d) PROVE Exposed(e)
    <2>1. /\ venue[d] = "open" /\ UNCHANGED <<pc, rec, mode, orphans, placed>>
          /\ \A c \in Events \ {d} : venue'[c] = venue[c]
      BY <1>4 DEF VenueSettles, locals, Base, TypeOK, BrokerTypes
    <2> QED BY <2>1 DEF Exposed, Live, Placing
  <1>5. ASSUME NEW t \in Tasks, UNCHANGED <<placed, venue, orphans, mode>>, pc'[t] # "place",
               \A u \in Tasks : u # t => pc'[u] = pc[u] /\ rec'[u] = rec[u]
        PROVE  Exposed(e)
    BY <1>5 DEF Exposed, Live, Placing
  <1>6. ASSUME NEW t \in Dispatchers, NEW i, StartProcess(t, i), UNCHANGED <<placed, venue, orphans, mode>>
        PROVE  Exposed(e)
    <2>1. pc'[t] # "place" /\ \A u \in Tasks : u # t => pc'[u] = pc[u] /\ rec'[u] = rec[u]
      BY <1>0, <1>6 DEF StartProcess, LocalTypes
    <2> QED BY <1>0, <1>5, <1>6, <2>1
  <1>7. CASE Dispatch \/ \E i \in Entries : DispatchClaimed(i)
    BY <1>6, <1>7 DEF Dispatch, DispatchClaimed, Dispatchers, broker
  <1>8. CASE ReconcileNext
    <2>1. /\ pc'["reconcile"] # "place" /\ UNCHANGED <<placed, venue, orphans, mode>>
          /\ \A u \in Tasks : u # "reconcile" => pc'[u] = pc[u] /\ rec'[u] = rec[u]
      BY <1>0, <1>8 DEF ReconcileNext, HandleExisting, Return, Dispatchers, broker, LocalTypes
    <2> QED BY <1>0, <1>5, <2>1
  <1>9. ASSUME UNCHANGED <<placed, venue, orphans, pc, rec, mode>> PROVE Exposed(e)
    BY <1>9 DEF Exposed, Live, Placing
  <1> QED
    BY <1>1, <1>2, <1>3, <1>4, <1>7, <1>8, <1>9
       DEF Next, ReadGroup, Reclaim, SnapshotPending, GrowOld, broker, locals, vars

(* Only what the venue or the adapter refused is about to be recorded as refused.   *)
LEMMA RefusalTask ==
    ASSUME Base, Audits, Once, PlainVenue, Keys, NEW t \in Tasks, TaskStep(t),
           NEW e \in Events, Refusing(t, e)'
    PROVE  ~Exposed(e)'
  <1>0. /\ LocalTypes /\ placed \in [Events -> Nat] /\ mode \in Modes
        /\ venue \in [Events -> (Reports \ {"missing"}) \cup {"none"}]
        /\ pc[t] \in RecordLabels => rec[t].event \in Events
        /\ \A u \in Tasks : u # t => pc'[u] = pc[u] /\ rec'[u] = rec[u]
        /\ pc'[t] = "mark" /\ verdict'[t].status = "REJECTED" /\ rec'[t].event = e
    BY TaskFrame DEF Base, TypeOK, BrokerTypes, Control, Refusing
  <1>1. PaperPlace(t) \/ PlaceRefused(t) \/ AnswerAccepted(t) \/ FetchFound(t)
    <2>1. AttemptSubmit(t) \/ FetchRaises(t) \/ FetchNone(t) \/ AttemptUnresolved(t)
          => verdict'[t].status # "REJECTED" \/ pc'[t] # "mark"
      BY <1>0 DEF AttemptSubmit, FetchRaises, FetchNone, AttemptUnresolved, Goto, Write, Return, LocalTypes
    <2>2. DeadLetter(t) \/ Ack(t) \/ RecordInvalid(t) \/ Deny(t) \/ GetByEvent(t) \/ GetByDedupe(t) \/ RiskGate(t)
          \/ InsertIntent(t) \/ VenueAccepts(t) \/ PlaceTimesOut(t) \/ AnswerLost(t) \/ MarkStatus(t) \/ HandlerRaises(t)
          => pc'[t] # "mark"
      BY <1>0 DEF DeadLetter, Ack, RecordInvalid, Deny, GetByEvent, GetByDedupe, RiskGate, InsertIntent, VenueAccepts,
         PlaceTimesOut, AnswerLost, MarkStatus, HandlerRaises, Goto, Return, HandleExisting, OnTransientError, LocalTypes
    <2> QED BY <1>0, <2>1, <2>2 DEF TaskStep
  <1>2. pc[t] \in RecordLabels /\ rec[t].event = e
    BY <1>0, <1>1 DEF PaperPlace, PlaceRefused, AnswerAccepted, FetchFound, RecordLabels, Write, Forget, LocalTypes
  <1>3. UNCHANGED <<placed, venue, orphans, mode>>
    BY <1>1 DEF PaperPlace, PlaceRefused, AnswerAccepted, FetchFound, broker
  <1>4. mode = "live"
    BY <1>0, <1>2, SettingsAssumption DEF Audits, AuditLabels, PlainVenue, RecordLabels
  <1>5. \A u \in Tasks : Placing(u, e)' => u # t /\ Placing(u, e)
    BY <1>0, <1>3 DEF Placing
  <1>6. CASE PlaceRefused(t)
    <2>1. Placing(t, e)
      BY <1>2, <1>4, <1>6 DEF PlaceRefused, PlainVenue, Placing
    <2>2. placed[e] = 0 /\ e \notin orphans /\ \A u \in Tasks : Placing(u, e) => u = t
      BY <1>2, <2>1 DEF Once, Fresh, Alone, PlainVenue
    <2> QED BY <1>2, <1>3, <1>5, <2>2 DEF Exposed, Live
  <1>7. CASE AnswerAccepted(t) \/ FetchFound(t)
    <2>1. venue[e] = "rejected"
      BY <1>0, <1>2, <1>4, <1>7 DEF AnswerAccepted, FetchFound, Write, MapStatus, Reports, LocalTypes
    <2>2. placed[e] > 0
      BY <1>2, <2>1 DEF Keys, Traded
    <2>3. e \notin orphans /\ \A u \in Tasks : ~Placing(u, e)
      BY <1>0, <1>2, <2>2 DEF Once, Fresh, LostOnce, PlainVenue
    <2> QED BY <1>2, <1>3, <1>5, <2>1, <2>3 DEF Exposed, Live
  <1> QED BY <1>1, <1>2, <1>4, <1>6, <1>7 DEF PaperPlace

(* And a refusal that was about to be recorded stays one of an event that is not exposed. *)
LEMMA RefusalStep ==
    ASSUME Base, Audits, Once, PlainVenue, Keys, [Next]_vars, NEW t \in Tasks,
           NEW e \in Events, Refusing(t, e)'
    PROVE  ~Exposed(e)'
  <1>0. LocalTypes /\ Dispatchers \subseteq Tasks /\ "reconcile" \in Tasks
    BY DEF Base, TypeOK, Dispatchers, Tasks
  <1>1. CASE TaskStep(t)
    BY <1>1, RefusalTask
  <1>2. CASE pc[t] = "mark" /\ rec'[t] = rec[t] /\ verdict'[t] = verdict[t]
    <2>1. rec[t].event = e /\ pc[t] \in RecordLabels /\ Refusing(t, e)
      BY <1>2 DEF Refusing, RecordLabels
    <2>2. HasRow(e) /\ ~Exposed(e)
      BY <2>1 DEF Keys, Refusals, Base, Control
    <2> QED BY <2>2, ExposureStep
  <1>3. ASSUME NEW u \in Tasks, TaskStep(u), u # t
        PROVE  pc[t] = "mark" /\ rec'[t] = rec[t] /\ verdict'[t] = verdict[t]
    BY <1>0, <1>3, TaskFrame DEF Refusing
  <1>4. ASSUME NEW u \in Dispatchers, NEW i, StartProcess(u, i)
        PROVE  pc[t] = "mark" /\ rec'[t] = rec[t] /\ verdict'[t] = verdict[t]
    BY <1>0, <1>4 DEF StartProcess, LocalTypes, Refusing
  <1>5. CASE Dispatch \/ \E i \in Entries : DispatchClaimed(i)
    BY <1>2, <1>4, <1>5 DEF Dispatch, DispatchClaimed, Dispatchers
  <1>6. CASE ReconcileNext
    <2>1. pc[t] = "mark" /\ rec'[t] = rec[t] /\ verdict'[t] = verdict[t]
      BY <1>0, <1>6 DEF ReconcileNext, HandleExisting, Return, Dispatchers, LocalTypes, Refusing
    <2> QED BY <1>2, <2>1
  <1>7. ~Crash
    BY DEF Crash, Refusing
  <1>8. CASE UNCHANGED locals
    BY <1>2, <1>8 DEF locals, Refusing
  <1> QED BY <1>1, <1>2, <1>3, <1>5, <1>6, <1>7, <1>8
       DEF Next, ReadGroup, Reclaim, SnapshotPending, OrphanAccepted, VenueSettles, GrowOld, locals, vars

(* The venue has a status for what it has created. *)
LEMMA TradedStep == ASSUME Base, Traded, [Next]_vars PROVE Traded'
  <1>0. placed \in [Events -> Nat] /\ venue \in [Events -> (Reports \ {"missing"}) \cup {"none"}]
    BY DEF Base, TypeOK, BrokerTypes
  <1>1. ASSUME UNCHANGED <<placed, venue>> PROVE Traded'
    BY <1>1 DEF Traded
  <1>2. ASSUME NEW e, e \in Events, Create(e) PROVE Traded'
    BY <1>0, <1>2 DEF Create, Traded
  <1>3. ASSUME NEW e \in Events, VenueSettles(e) PROVE Traded'
    BY <1>0, <1>3 DEF VenueSettles, Traded
  <1>4. ASSUME NEW t \in Tasks, VenueAccepts(t) PROVE Traded'
    <2>1. rec[t].event \in Events
      BY <1>4 DEF VenueAccepts, Base, Control, RecordLabels
    <2> QED BY <1>2, <1>4, <2>1 DEF VenueAccepts
  <1>5. ASSUME NEW t \in Tasks, TaskStep(t), ~VenueAccepts(t) PROVE UNCHANGED <<placed, venue>>
    BY <1>5 DEF TaskStep, DeadLetter, Ack, RecordInvalid, Deny, GetByEvent, GetByDedupe, RiskGate, InsertIntent,
         PaperPlace, PlaceTimesOut, PlaceRefused, AnswerLost, AnswerAccepted, AttemptSubmit, MarkStatus,
         FetchFound, FetchRaises, FetchNone, AttemptUnresolved, HandlerRaises, broker
  <1> QED BY <1>1, <1>2, <1>3, <1>4, <1>5
       DEF Next, ReadGroup, Dispatch, Reclaim, DispatchClaimed, SnapshotPending, ReconcileNext, Crash,
           OrphanAccepted, GrowOld, broker, vars

(* Keys is inductive relative to Base, Audits and Once. *)
LEMMA KeysStep ==
    ASSUME Base, Audits, Once, PlainVenue, Keys, [Next]_vars
    PROVE  Keys'
  <1>1. Held'
    <2> SUFFICES ASSUME NEW e \in Events, Exposed(e)' PROVE HoldsKey(e)'
      BY DEF Held
    <2>1. CASE orders'[e].status = "INTENT"
      BY <2>1 DEF HoldsKey
    <2>2. CASE orders'[e].status # "INTENT"
      <3>1. Exposed(e) /\ HoldsKey(e)
        BY <2>2, ExposureStep DEF Keys, Held
      <3>2. CASE orders'[e].status = orders[e].status
        BY <3>1, <3>2 DEF HoldsKey
      <3>3. CASE RowMarked(e)
        <4>1. PICK t \in Tasks : pc[t] = "mark" /\ rec[t].event = e /\ orders'[e].status = verdict[t].status
          BY <3>3 DEF RowMarked
        <4>2. verdict[t].status # "REJECTED" /\ verdict[t].status # "NONE"
          BY <3>1, <4>1 DEF Keys, Refusals, Refusing, Base, Control
        <4> QED BY <4>1, <4>2 DEF HoldsKey
      <3>4. ~RowMade(e)
        BY <3>1 DEF RowMade, HoldsKey, HasRow
      <3> QED BY <3>2, <3>3, <3>4, TableChange
    <2> QED BY <2>1, <2>2
  <1>2. Refusals'
    BY RefusalStep DEF Refusals
  <1>3. Traded'
    BY TradedStep DEF Keys
  <1>4. Indexed'
    <2>1. CASE \A d \in Events : orders'[d].status = orders[d].status
      BY <2>1 DEF Keys, Indexed, HoldsKey
    <2>2. ASSUME NEW e \in Events, \A d \in Events \ {e} : orders'[d].status = orders[d].status,
                 RowMade(e) \/ RowMarked(e)
          PROVE  Indexed'
      <3>1. HoldsKey(e)' => KeyHolders(e) \subseteq {e}
        BY <2>2 DEF RowMade, RowMarked, HoldsKey
      <3>2. \A d \in Events \ {e} : HoldsKey(d)' => HoldsKey(d)
        BY <2>2 DEF HoldsKey
      <3> QED BY <3>1, <3>2 DEF Keys, Indexed, KeyHolders
    <2> QED BY <2>1, <2>2, TableChange
  <1> QED BY <1>1, <1>2, <1>3, <1>4 DEF Keys

(* Keys holds initially. *)
LEMMA KeysInit == Init => Keys
  BY DEF Init, Keys, Held, Refusals, Refusing, Traded, Indexed, Exposed, Live, Placing, HoldsKey, NoRow

(* A live order always has a row that holds its key, at a venue whose refusals mean   *)
(* what they say and that is not asked for the same order again.                   *)
THEOREM LiveOrdersHoldTheirKey ==
    ASSUME PlainVenue
    PROVE  Spec => []LiveOrderHoldsKey
  <1>1. Init => Base /\ Audits /\ Once /\ Keys
    BY BaseInit, OnceInit, KeysInit DEF Init, Audits, AuditLabels
  <1>2. Base /\ Audits /\ Once /\ Keys /\ [Next]_vars => (Base /\ Audits /\ Once /\ Keys)'
    BY BaseStep, AuditsStay, OnceStep, KeysStep
  <1>3. Keys => LiveOrderHoldsKey
    BY DEF Keys, Held, Exposed, LiveOrderHoldsKey
  <1> QED BY <1>1, <1>2, <1>3, PTL DEF Spec

(* And no two events of one dedupe window are ever both live: the partial unique     *)
(* index, the status written after a failure and the venue agree.                   *)
THEOREM OneLiveOrderAWindow ==
    ASSUME PlainVenue
    PROVE  Spec => []OneLiveOrderPerKey
  <1>1. Init => Base /\ Audits /\ Once /\ Keys
    BY BaseInit, OnceInit, KeysInit DEF Init, Audits, AuditLabels
  <1>2. Base /\ Audits /\ Once /\ Keys /\ [Next]_vars => (Base /\ Audits /\ Once /\ Keys)'
    BY BaseStep, AuditsStay, OnceStep, KeysStep
  <1>3. Keys => OneLiveOrderPerKey
    BY DEF Keys, Held, Indexed, Exposed, OneLiveOrderPerKey
  <1> QED BY <1>1, <1>2, <1>3, PTL DEF Spec

-----------------------------------------------------------------------------
(* The state as OrderContract sees it. *)
RowsOf == {e \in Events : HasRow(e)}
OrdersOf == [e \in Events |-> [made |-> placed[e], status |-> venue[e]]]
AnsweredOf == {i \in SignalEntries : i <= delivered /\ i \notin pel}
Mapped == <<RowsOf, OrdersOf, AnsweredOf>>

(* A request that reaches the venue places the event's first order, and its row was  *)
(* there before; a venue that recognises the order id does nothing.               *)
LEMMA CreateRefines ==
    ASSUME Base, Once, Traded, NEW e \in Events, Create(e), HasRow(e), UNCHANGED <<RowsOf, AnsweredOf>>,
           ~AssumeIdempotency => placed[e] = 0
    PROVE  Contract!Place(e) \/ UNCHANGED Mapped
  <1>0. placed \in [Events -> Nat] /\ venue \in [Events -> (Reports \ {"missing"}) \cup {"none"}]
    BY DEF Base, TypeOK, BrokerTypes
  <1>1. CASE AssumeIdempotency /\ placed[e] > 0
    BY <1>1 DEF Create, Mapped, OrdersOf
  <1>2. CASE ~(AssumeIdempotency /\ placed[e] > 0)
    <2>1. placed[e] = 0 /\ venue[e] = "none"
      BY <1>0, <1>2, SettingsAssumption DEF Traded
    <2>2. OrdersOf[e] = [made |-> 0, status |-> "none"]
      BY <2>1 DEF OrdersOf
    <2>3. /\ placed'[e] = 1 /\ venue'[e] = "open"
          /\ \A d \in Events \ {e} : placed'[d] = placed[d] /\ venue'[d] = venue[d]
      BY <1>0, <1>2, <2>1 DEF Create
    <2>4. OrdersOf' = [OrdersOf EXCEPT ![e] = [made |-> 1, status |-> "open"]]
      BY <2>3 DEF OrdersOf
    <2> QED BY <2>2, <2>4 DEF Contract!Place, Contract!Unplaced, OrdersOf, RowsOf, AnsweredOf
  <1> QED BY <1>1, <1>2

(* The venue settles the one order there is. *)
LEMMA SettleRefines ==
    ASSUME Base, Once, Traded, NEW e \in Events, VenueSettles(e), UNCHANGED <<RowsOf, AnsweredOf>>
    PROVE  Contract!Settle(e)
  <1>0. placed \in [Events -> Nat] /\ venue \in [Events -> (Reports \ {"missing"}) \cup {"none"}]
    BY DEF Base, TypeOK, BrokerTypes
  <1>1. PICK s \in VenueOutcomes : venue' = [venue EXCEPT ![e] = s]
    BY DEF VenueSettles
  <1>2. placed[e] = 1 /\ placed' = placed /\ venue[e] = "open"
    BY <1>0 DEF VenueSettles, Once, AtMostOneOrder, Traded
  <1>3. OrdersOf[e].status = "open"
    BY <1>2 DEF OrdersOf
  <1>4. OrdersOf' = [OrdersOf EXCEPT ![e] = [made |-> 1, status |-> s]]
    BY <1>0, <1>1, <1>2 DEF OrdersOf
  <1> QED BY <1>3, <1>4 DEF Contract!Settle, OrdersOf, RowsOf, AnsweredOf

(* A step of the table writes one row at most, and deletes none. *)
LEMMA TableRefines ==
    ASSUME Base, [Next]_vars, UNCHANGED <<OrdersOf, AnsweredOf>>
    PROVE  (\E e \in Events : Contract!Write(e)) \/ UNCHANGED Mapped
  <1>1. CASE \A d \in Events : orders'[d].status = orders[d].status
    BY <1>1 DEF Mapped, RowsOf, HasRow
  <1>2. ASSUME NEW e \in Events, \A d \in Events \ {e} : orders'[d].status = orders[d].status, RowMade(e)
        PROVE  Contract!Write(e)
    <2>1. e \notin RowsOf /\ RowsOf' = RowsOf \cup {e}
      BY <1>2 DEF RowsOf, HasRow, RowMade
    <2> QED BY <2>1 DEF Contract!Write, OrdersOf, RowsOf, AnsweredOf
  <1>3. ASSUME NEW e \in Events, \A d \in Events \ {e} : orders'[d].status = orders[d].status, RowMarked(e)
        PROVE  UNCHANGED Mapped
    <2>1. RowsStay
      BY TableStep DEF Base
    <2> QED BY <1>3, <2>1 DEF Mapped, RowsOf, HasRow, RowMarked, RowsStay
  <1> QED BY <1>1, <1>2, <1>3, TableChange

(* An entry that is acknowledged was accounted for by a row. *)
LEMMA AckRefines ==
    ASSUME Base, Accounts, NEW t \in Tasks, Ack(t)
    PROVE  (\E i \in SignalEntries : Contract!Answer(i)) \/ UNCHANGED Mapped
  <1>0. entry[t] \in Entries /\ pc[t] = "ack" /\ t \in Dispatchers
    BY StreamAssumption DEF Ack, Base, TypeOK, Control, LocalTypes, EntryLabels, Entries
  <1>1. PICK mine \in Entries : mine = entry[t]
    BY <1>0
  <1>2. UNCHANGED <<RowsOf, OrdersOf, delivered>> /\ pel' \in {pel, pel \ {mine}}
    BY <1>1 DEF Ack, RowsOf, OrdersOf, HasRow, store, broker
  <1>3. Accounted(mine)
    BY <1>0, <1>1 DEF Accounts, Answering
  <1>4. CASE mine \in SignalEntries /\ mine <= delivered /\ mine \in pel /\ pel' = pel \ {mine}
    <2>1. mine \notin AnsweredOf /\ AnsweredOf' = AnsweredOf \cup {mine}
      BY <1>2, <1>4 DEF AnsweredOf
    <2>2. PICK e \in Events : KeyOf[e] = KeyOf[EventOf[mine]] /\ HasRow(e)
      BY <1>3, <1>4 DEF Accounted, SignalEntries
    <2>3. Contract!Answer(mine)
      BY <1>2, <1>4, <2>1, <2>2 DEF Contract!Answer, OrdersOf, RowsOf, AnsweredOf
    <2> QED BY <1>4, <2>3
  <1>5. CASE ~(mine \in SignalEntries /\ mine <= delivered /\ mine \in pel /\ pel' = pel \ {mine})
    <2>1. AnsweredOf' = AnsweredOf
      BY <1>2, <1>5 DEF AnsweredOf
    <2> QED BY <1>2, <2>1 DEF Mapped
  <1> QED BY <1>4, <1>5

(* Delivering entries answers none of them and takes no answer back. *)
LEMMA DeliveryRefines ==
    ASSUME Base, ReadGroup
    PROVE  UNCHANGED Mapped
  <1>1. PICK last \in (delivered + 1)..NumEntries : delivered' = last /\ pel' = pel \cup ((delivered + 1)..last)
    BY DEF ReadGroup
  <1>2. delivered \in Nat /\ NumEntries \in Nat /\ SignalEntries \subseteq Nat
    BY StreamAssumption DEF Base, TypeOK, StreamTypes, SignalEntries, Entries
  <1>3. \A i \in SignalEntries : (i <= delivered' /\ i \notin pel') <=> (i <= delivered /\ i \notin pel)
    BY <1>1, <1>2
  <1>4. AnsweredOf' = AnsweredOf
    BY <1>3 DEF AnsweredOf
  <1>5. UNCHANGED <<RowsOf, OrdersOf>>
    BY DEF ReadGroup, RowsOf, OrdersOf, HasRow, store, broker
  <1> QED BY <1>5, <1>4 DEF Mapped

(* Every step of the engine and its surroundings is one step of the contract at most. *)
LEMMA StepRefines ==
    ASSUME Base, Once, Traded, Accounts, [Next]_vars
    PROVE  Contract!Next \/ UNCHANGED Mapped
  <1>1. ASSUME UNCHANGED <<placed, venue, delivered, pel>> PROVE Contract!Next \/ UNCHANGED Mapped
    BY <1>1, TableRefines DEF Contract!Next, OrdersOf, AnsweredOf
  <1>2. ASSUME UNCHANGED <<orders, delivered, pel>> PROVE UNCHANGED <<RowsOf, AnsweredOf>>
    BY <1>2 DEF RowsOf, AnsweredOf, HasRow
  <1>3. ASSUME NEW t \in Tasks, VenueAccepts(t) PROVE Contract!Next \/ UNCHANGED Mapped
    <2>1. rec[t].event \in Events /\ HasRow(rec[t].event) /\ Placing(t, rec[t].event)
      BY <1>3 DEF VenueAccepts, Base, Control, RecordLabels, Placing
    <2>2. Create(rec[t].event) /\ UNCHANGED <<orders, delivered, pel>>
      BY <1>3 DEF VenueAccepts, store, stream
    <2>3. ~AssumeIdempotency => placed[rec[t].event] = 0
      BY <2>1 DEF Once, Fresh
    <2> QED BY <1>2, <2>1, <2>2, <2>3, CreateRefines DEF Contract!Next
  <1>4. ASSUME NEW e \in Events, OrphanAccepted(e) PROVE Contract!Next \/ UNCHANGED Mapped
    <2>1. e \in orphans /\ Create(e) /\ UNCHANGED <<orders, delivered, pel>>
      BY <1>4 DEF OrphanAccepted, store, stream
    <2>2. HasRow(e) /\ (~AssumeIdempotency => placed[e] = 0)
      BY <2>1 DEF Once, WriteAhead, LostOnce
    <2> QED BY <1>2, <2>1, <2>2, CreateRefines DEF Contract!Next
  <1>5. ASSUME NEW e \in Events, VenueSettles(e) PROVE Contract!Next
    <2>1. UNCHANGED <<orders, delivered, pel>>
      BY <1>5 DEF VenueSettles, store, stream
    <2> QED BY <1>2, <1>5, <2>1, SettleRefines DEF Contract!Next
  <1>6. ASSUME NEW t \in Tasks, Ack(t) PROVE Contract!Next \/ UNCHANGED Mapped
    BY <1>6, AckRefines DEF Contract!Next
  <1>7. ASSUME NEW t \in Tasks, TaskStep(t), ~Ack(t), ~VenueAccepts(t)
        PROVE  UNCHANGED <<placed, venue, delivered, pel>>
    BY <1>7 DEF TaskStep, DeadLetter, RecordInvalid, Deny, GetByEvent, GetByDedupe, RiskGate, InsertIntent,
         PaperPlace, PlaceTimesOut, PlaceRefused, AnswerLost, AnswerAccepted, AttemptSubmit, MarkStatus,
         FetchFound, FetchRaises, FetchNone, AttemptUnresolved, HandlerRaises, broker, stream
  <1>8. ASSUME NEW t \in Tasks, TaskStep(t) PROVE Contract!Next \/ UNCHANGED Mapped
    BY <1>1, <1>3, <1>6, <1>7, <1>8
  <1>9. \/ ReadGroup \/ (\E t \in Tasks : TaskStep(t))
        \/ (\E e \in Events : OrphanAccepted(e) \/ VenueSettles(e))
        \/ UNCHANGED <<placed, venue, delivered, pel>>
    BY DEF Next, Dispatch, Reclaim, DispatchClaimed, SnapshotPending, ReconcileNext, Crash, GrowOld,
         broker, stream, vars
  <1> QED BY <1>1, <1>4, <1>5, <1>8, <1>9, DeliveryRefines

(* The gateway implements OrderContract, for any number of events, entries, faults   *)
(* and restarts, in every mode and with every venue: an event's row is written before *)
(* its one order is placed, no row is deleted and no answer is taken back.          *)
THEOREM GatewayHonoursContract == Spec => SubmitsAsPromised
  <1>1. Init => Base /\ Once /\ Traded /\ Accounts
    BY BaseInit, OnceInit, KeysInit DEF Keys, Init, Accounts, Answering, InvalidLabels, RecordLabels, Dispatchers, Tasks
  <1>2. Init => Contract!Init
    BY StreamAssumption DEF Init, Contract!Init, Contract!Unplaced, HasRow, NoRow, SignalEntries, Entries
  <1>3. Base /\ Once /\ Traded /\ Accounts /\ [Next]_vars => (Base /\ Once /\ Traded /\ Accounts)'
    BY BaseStep, OnceStep, TradedStep, AccountsStep
  <1>4. Base /\ Once /\ Traded /\ Accounts /\ [Next]_vars => [Contract!Next]_(Contract!contractVars)
    BY StepRefines DEF Mapped, RowsOf, OrdersOf, AnsweredOf, Contract!contractVars
  <1> QED BY <1>1, <1>2, <1>3, <1>4, PTL DEF Spec, SubmitsAsPromised, Contract!Spec
=============================================================================
