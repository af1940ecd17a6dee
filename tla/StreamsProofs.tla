----------------------------- MODULE StreamsProofs -----------------------------
(***************************************************************************)
(* Proofs about the way of a stream to a page: the bridge to Pocket Option *)
(* with its readers, and the page's knowledge that its stream is alive,    *)
(* for any pairs, budgets and thresholds.                                  *)
(*                                                                         *)
(* BudgetKept is inductive together with the readers' types: a step adds   *)
(* no client and no handshake, or is the one of a reader that has seen,    *)
(* within the same step, that there is room, or that makes room by an      *)
(* eviction.  The bridge's types rest on BridgeInv: the configured pair    *)
(* never connects a client of its own.  The page's types rest on WatchInv: *)
(* a sweep is due on a connection only.  SilenceIsBounded counts the beats *)
(* to the watchdog's next round with the age of the last packet.           *)
(***************************************************************************)
EXTENDS MCStreams,
        FiniteSetTheorems, WellFoundedInduction, SequenceTheorems, TLAPS

-----------------------------------------------------------------------------
(* The budget.                                                                 *)

ReadersTyped == reader \in [Pairs -> ReaderStates] /\ own \subseteq Pairs

(* Spawning leaves readers typed, and none of those it starts is connecting. *)
LEMMA SpawnedReaders ==
  ASSUME NEW r \in [Pairs -> ReaderStates], NEW set
  PROVE  /\ Spawned(r, set) \in [Pairs -> ReaderStates]
         /\ \A x \in Pairs : Spawned(r, set)[x] = "shake" => r[x] = "shake"
  BY DEF Spawned, ReaderStates

(* The clients that count are finitely many. *)
LEMMA FewSecondaries ==
  ASSUME ReadersTyped
  PROVE  /\ Secondaries \subseteq Pairs /\ IsFiniteSet(Secondaries)
         /\ Cardinality(Secondaries) \in Nat
<1>1. Secondaries \subseteq Pairs
  BY DEF Secondaries, ReadersTyped
<1>2. IsFiniteSet(Secondaries)
  BY <1>1, BridgeAssumption, FS_Subset DEF BridgeAssumption
<1> QED BY <1>1, <1>2, FS_CardinalityType

(* A step that adds no client and starts no handshake keeps the budget. *)
LEMMA NoneAdded ==
  ASSUME ReadersTyped, BudgetKept, own' \subseteq own,
         \A x \in Pairs : reader'[x] = "shake" => reader[x] = "shake"
  PROVE  BudgetKept'
<1>1. Secondaries' \subseteq Secondaries
  BY DEF Secondaries
<1>2. Cardinality(Secondaries') <= Cardinality(Secondaries)
  BY <1>1, FewSecondaries, FS_Subset
<1>3. IsFiniteSet(Secondaries') /\ Cardinality(Secondaries') \in Nat
  BY <1>1, FewSecondaries, FS_Subset, FS_CardinalityType
<1> QED BY <1>2, <1>3, FewSecondaries, BridgeAssumption DEF BudgetKept, BridgeAssumption

(* Nor does a step that leaves the readers and their clients as they are. *)
LEMMA NoneTouched ==
  ASSUME ReadersTyped, BudgetKept, UNCHANGED <<reader, own>>
  PROVE  BudgetKept'
  BY NoneAdded

(* A client that takes the place of others, fewer than the budget, fits. *)
LEMMA OneFits ==
  ASSUME NEW s \in Pairs, NEW others \in SUBSET Pairs,
         Cardinality(others) < Slots, Secondaries' \subseteq others \cup {s}
  PROVE  BudgetKept'
<1>1. IsFiniteSet(others) /\ Cardinality(others) \in Nat
  BY BridgeAssumption, FS_Subset, FS_CardinalityType DEF BridgeAssumption
<1>2. IsFiniteSet(others \cup {s}) /\ Cardinality(others \cup {s}) <= Cardinality(others) + 1
  BY <1>1, FS_AddElement
<1>3. Cardinality(others \cup {s}) \in Nat
  BY <1>2, FS_CardinalityType
<1>4. IsFiniteSet(Secondaries') /\ Cardinality(Secondaries') <= Cardinality(others \cup {s})
  BY <1>2, FS_Subset
<1>5. Cardinality(Secondaries') \in Nat
  BY <1>4, FS_CardinalityType
<1> QED BY <1>1, <1>2, <1>3, <1>4, <1>5, BridgeAssumption DEF BudgetKept, BridgeAssumption

(* GetClient: the slot is reserved before the handshake, with room for it. *)
LEMMA GetClientBudget ==
  ASSUME ReadersTyped, BudgetKept, NEW s \in Pairs, GetClient(s)
  PROVE  BudgetKept'
<1> DEFINE others == Secondaries \ {s}
<1>0. reader \in [Pairs -> ReaderStates] /\ own \subseteq Pairs /\ reader[s] = "get"
  BY DEF ReadersTyped, GetClient
<1>1. others \in SUBSET Pairs
  BY FewSecondaries
<1>2. CASE UseOwn(s)
  BY <1>0, <1>2, NoneAdded DEF UseOwn, Streams, Go
<1>3. CASE Cardinality(others) < Slots /\ Reserve(s)
  <2>1. Secondaries' \subseteq others \cup {s}
    BY <1>0, <1>3 DEF Reserve, Go, Secondaries
  <2> HIDE DEF others
  <2> QED BY <1>1, <1>3, <2>1, OneFits
<1>4. ASSUME NEW v \in own \ {s}, Evict(s, v)
      PROVE  BudgetKept'
  <2> DEFINE rest == others \ {v}
  <2>1. v \in others /\ v \in Secondaries /\ rest \in SUBSET Pairs
    BY <1>1, <1>4 DEF Secondaries
  <2>2. Cardinality(rest) < Cardinality(Secondaries)
    <3>1. IsFiniteSet(others) /\ Cardinality(others) <= Cardinality(Secondaries)
      BY FewSecondaries, FS_Subset
    <3>2. Cardinality(rest) = Cardinality(others) - 1
      BY <2>1, <3>1, FS_RemoveElement
    <3>3. Cardinality(others) \in Nat
      BY <3>1, FS_CardinalityType
    <3> QED BY <3>1, <3>2, <3>3, FewSecondaries
  <2>3. Cardinality(rest) \in Nat
    BY <2>1, BridgeAssumption, FS_Subset, FS_CardinalityType DEF BridgeAssumption
  <2>4. Cardinality(rest) < Slots
    BY <2>2, <2>3, FewSecondaries, BridgeAssumption DEF BudgetKept, BridgeAssumption
  <2>5. Secondaries' \subseteq rest \cup {s}
    BY <1>0, <1>4 DEF Evict, Secondaries
  <2> HIDE DEF rest
  <2> QED BY <2>1, <2>4, <2>5, OneFits
<1>5. CASE Park(s)
  BY <1>0, <1>5, NoneAdded DEF Park, Go
<1> QED BY <1>2, <1>3, <1>4, <1>5 DEF GetClient

(* Shake: the reservation becomes the client. *)
LEMMA ShakeBudget ==
  ASSUME ReadersTyped, BudgetKept, NEW s \in Pairs, Shake(s)
  PROVE  BudgetKept'
<1>0. reader \in [Pairs -> ReaderStates] /\ own \subseteq Pairs /\ reader[s] = "shake"
  BY DEF ReadersTyped, Shake
<1>1. CASE Streams(s) /\ own' = own \cup {s}
  <2>1. Secondaries' = Secondaries
    BY <1>0, <1>1 DEF Streams, Go, Secondaries
  <2> QED BY <2>1 DEF BudgetKept
<1>2. CASE Go(s, "wait") /\ Released(s)
  BY <1>0, <1>2, NoneAdded DEF Go, Released
<1> QED BY <1>1, <1>2 DEF Shake

(* A handler that comes back to a subscribe adds readers that wait, at most. *)
LEMMA AnswerBudget ==
  ASSUME ReadersTyped, BudgetKept, NEW a, AnswerSubscribe(a)
  PROVE  BudgetKept'
<1>0. reader \in [Pairs -> ReaderStates] /\ own' = own
  BY DEF ReadersTyped, AnswerSubscribe
<1>1. CASE Armed(a)
  <2> DEFINE once == Spawned(reader, {a.sym})
  <2>1. /\ once \in [Pairs -> ReaderStates]
        /\ \A x \in Pairs : once[x] = "shake" => reader[x] = "shake"
    BY <1>0, SpawnedReaders
  <2>2. reader' = once \/ reader' = Spawned(once, dynamic)
    BY <1>1 DEF Armed, Connected, Connects
  <2> HIDE DEF once
  <2>3. \A x \in Pairs : Spawned(once, dynamic)[x] = "shake" => once[x] = "shake"
    BY <2>1, SpawnedReaders
  <2> QED BY <1>0, <2>1, <2>2, <2>3, NoneAdded
<1>2. CASE NotArmed(a) \/ Expired(a)
  BY <1>0, <1>2, NoneTouched DEF NotArmed, Expired
<1> QED BY <1>1, <1>2 DEF AnswerSubscribe

(* So does a reader that wakes, whatever its connection comes to. *)
LEMMA WakeBudget ==
  ASSUME ReadersTyped, BudgetKept, NEW s \in Pairs, Wake(s)
  PROVE  BudgetKept'
<1> DEFINE going == [reader EXCEPT ![s] = "get"]
<1>0. reader \in [Pairs -> ReaderStates] /\ own' = own
  BY DEF ReadersTyped, Wake
<1>1. going \in [Pairs -> ReaderStates] /\ \A x \in Pairs : going[x] = "shake" => reader[x] = "shake"
  BY <1>0 DEF ReaderStates
<1>2. CASE Connected(going) \/ Connects(going)
  <2>1. reader' = going \/ reader' = Spawned(going, dynamic)
    BY <1>2 DEF Connected, Connects
  <2> HIDE DEF going
  <2>2. \A x \in Pairs : Spawned(going, dynamic)[x] = "shake" => going[x] = "shake"
    BY <1>1, SpawnedReaders
  <2> QED BY <1>0, <1>1, <2>1, <2>2, NoneAdded
<1>3. CASE UNCHANGED reader
  BY <1>0, <1>3, NoneTouched
<1>4. CASE Go(s, "none") \/ Go(s, "refresh")
  BY <1>0, <1>4, NoneAdded DEF Go
<1> QED BY <1>2, <1>3, <1>4 DEF Wake

(* The other steps of a reader give up what they hold, or keep it. *)
LEMMA ReaderBudget ==
  ASSUME ReadersTyped, BudgetKept, NEW s \in Pairs,
         Recycle(s) \/ ReaderRefreshes(s) \/ GetPrimary \/ Silence(s)
  PROVE  BudgetKept'
<1>0. reader \in [Pairs -> ReaderStates] /\ own \subseteq Pairs
  BY DEF ReadersTyped
<1>1. CASE Recycle(s)
  <2>1. own' \subseteq own
    BY <1>1 DEF Recycle, Released
  <2>2. \A x \in Pairs : reader'[x] = "shake" => reader[x] = "shake"
    BY <1>0, <1>1 DEF Recycle, Go
  <2> QED BY <2>1, <2>2, NoneAdded
<1>2. CASE ReaderRefreshes(s)
  BY <1>0, <1>2, NoneAdded DEF ReaderRefreshes
<1>3. CASE GetPrimary
  <2>1. own' \subseteq own
    BY <1>3 DEF GetPrimary, Released
  <2>2. \A x \in Pairs : reader'[x] = "shake" => reader[x] = "shake"
    BY <1>0, <1>3 DEF GetPrimary, Go, Streams
  <2> QED BY <2>1, <2>2, NoneAdded
<1>4. CASE Silence(s)
  BY <1>0, <1>4, NoneAdded DEF Silence, Go
<1> QED BY <1>1, <1>2, <1>3, <1>4

(* The watcher of the session file, once it connects, adds readers that wait. *)
LEMMA RejoinBudget ==
  ASSUME ReadersTyped, BudgetKept, Rejoin
  PROVE  BudgetKept'
<1> DEFINE going == Spawned(reader, {Primary})
<1>0. reader \in [Pairs -> ReaderStates] /\ own' = own
  BY DEF ReadersTyped, Rejoin
<1>1. going \in [Pairs -> ReaderStates] /\ \A x \in Pairs : going[x] = "shake" => reader[x] = "shake"
  BY <1>0, SpawnedReaders
<1>2. reader' = reader \/ reader' = going \/ reader' = Spawned(going, dynamic)
  BY DEF Rejoin, Connected, Connects
<1> HIDE DEF going
<1>3. \A x \in Pairs : Spawned(going, dynamic)[x] = "shake" => going[x] = "shake"
  BY <1>1, SpawnedReaders
<1> QED BY <1>0, <1>1, <1>2, <1>3, NoneAdded

(* A bridge that starts, reloads or dies begins with no client of another pair. *)
LEMMA RestartBudget ==
  ASSUME ReadersTyped, BudgetKept, Reload \/ Boot \/ BridgeCrashes
  PROVE  BudgetKept'
<1>1. NoReaders \in [Pairs -> ReaderStates] /\ \A x \in Pairs : NoReaders[x] # "shake"
  BY DEF NoReaders, ReaderStates
<1>2. \A set : \A x \in Pairs : Spawned(NoReaders, set)[x] # "shake"
  BY <1>1, SpawnedReaders
<1>3. \A x \in Pairs : reader'[x] # "shake"
  BY <1>1, <1>2 DEF Reload, Boot, BridgeCrashes
<1>4. own' \subseteq own
  BY DEF Reload, Boot, BridgeCrashes
<1> QED BY <1>3, <1>4, NoneAdded

(* Every step keeps the budget. *)
LEMMA NextBudget ==
  ASSUME ReadersTyped, BudgetKept, [BridgeNext]_bridgeVars
  PROVE  BudgetKept'
<1>0. Primary \in Pairs
  BY BridgeAssumption DEF BridgeAssumption
<1>1. CASE UNCHANGED bridgeVars
  BY <1>0, <1>1, NoneTouched DEF bridgeVars, readers
<1>2. ASSUME NEW s \in Asked, Want(s) \/ Leave(s) PROVE BudgetKept'
  BY <1>0, <1>2, NoneTouched DEF Want, Leave, readers
<1>3. CASE Backend
  BY <1>0, <1>3, NoneTouched DEF Backend, SocketOpens, HandleReady, FallbackElapses, readers
<1>4. CASE Relay
  <2>1. CASE Greet \/ TakeSubscribe
    BY <1>0, <2>1, NoneTouched DEF Greet, TakeSubscribe, readers
  <2>2. CASE TakeUnsubscribe
    <3>1. own' \subseteq own
      BY <2>2 DEF TakeUnsubscribe, Released, readers
    <3>2. \A x \in Pairs : reader'[x] = "shake" => reader[x] = "shake"
      BY <1>0, <2>2 DEF TakeUnsubscribe, ReadersTyped, readers
    <3> QED BY <1>0, <3>1, <3>2, NoneAdded
  <2> QED BY <1>4, <2>1, <2>2 DEF Relay
<1>5. ASSUME NEW a \in asking, AnswerSubscribe(a) \/ AnswerExpired(a) PROVE BudgetKept'
  <2>1. CASE AnswerSubscribe(a)
    BY <1>0, <2>1, AnswerBudget
  <2>2. CASE AnswerExpired(a)
    BY <1>0, <2>2, NoneTouched DEF AnswerExpired, readers
  <2> QED BY <1>5, <2>1, <2>2
<1>6. CASE Keepers \/ BridgeCrashes
  <2>1. CASE ReloadRefreshes
    BY <2>1, NoneTouched DEF ReloadRefreshes, readers
  <2> QED BY <1>6, <2>1, RestartBudget, RejoinBudget DEF Keepers
<1>7. ASSUME NEW s \in Pairs, Reading(s) \/ Silence(s) PROVE BudgetKept'
  BY <1>0, <1>7, WakeBudget, GetClientBudget, ShakeBudget, ReaderBudget DEF Reading
<1>8. CASE Capture \/ RefreshLoop \/ SocketDrops \/ BrokerReturns \/ SessionExpires
  BY <1>0, <1>8, NoneTouched DEF Capture, RefreshLoop, SocketDrops, BrokerReturns, SessionExpires, readers
<1>9. CASE BrokerFalls
  BY <1>0, <1>9, NoneAdded DEF BrokerFalls, ReadersTyped
<1> QED BY <1>1, <1>2, <1>3, <1>4, <1>5, <1>6, <1>7, <1>8, <1>9 DEF BridgeNext, Handlers

(* Every step leaves the readers typed.                                        *)
LEMMA NextReaders ==
  ASSUME ReadersTyped, [BridgeNext]_bridgeVars
  PROVE  ReadersTyped'
<1>0. reader \in [Pairs -> ReaderStates] /\ own \subseteq Pairs
  BY DEF ReadersTyped
<1>1. \A set : Spawned(NoReaders, set) \in [Pairs -> ReaderStates]
  BY SpawnedReaders DEF NoReaders, ReaderStates
<1>2. CASE UNCHANGED <<reader, own>>
  BY <1>0, <1>2 DEF ReadersTyped
<1>3. CASE Relay
  BY <1>0, <1>2, <1>3 DEF Relay, Greet, TakeSubscribe, TakeUnsubscribe, Released,
    ReadersTyped, ReaderStates, readers
<1>4. ASSUME NEW a \in asking, AnswerSubscribe(a) PROVE ReadersTyped'
  <2>1. own' = own
    BY <1>4 DEF AnswerSubscribe
  <2>2. Spawned(reader, {a.sym}) \in [Pairs -> ReaderStates]
    BY <1>0, SpawnedReaders
  <2>3. Spawned(Spawned(reader, {a.sym}), dynamic) \in [Pairs -> ReaderStates]
    BY <2>2, SpawnedReaders
  <2> QED BY <1>0, <1>4, <2>1, <2>2, <2>3
       DEF AnswerSubscribe, Armed, NotArmed, Expired, Connected, Connects, ReadersTyped
<1>5. ASSUME NEW s \in Pairs, Wake(s) PROVE ReadersTyped'
  <2> DEFINE going == [reader EXCEPT ![s] = "get"]
  <2>1. own' = own /\ going \in [Pairs -> ReaderStates]
    BY <1>0, <1>5 DEF Wake, ReaderStates
  <2>2. Spawned(going, dynamic) \in [Pairs -> ReaderStates]
    BY <2>1, SpawnedReaders
  <2>3. CASE reader' \in {reader, going, Spawned(going, dynamic)}
    BY <1>0, <2>1, <2>2, <2>3 DEF ReadersTyped
  <2>4. CASE Go(s, "none") \/ Go(s, "refresh")
    BY <1>0, <2>1, <2>4 DEF Go, ReadersTyped, ReaderStates
  <2> QED BY <1>5, <2>3, <2>4 DEF Wake, Connected, Connects
<1>6. ASSUME NEW s \in Pairs, GetClient(s) \/ Shake(s) \/ (s = Primary /\ GetPrimary)
      PROVE  ReadersTyped'
  <2>1. own' \subseteq own \cup {s}
    BY <1>6 DEF GetClient, UseOwn, Reserve, Evict, Park, Shake, GetPrimary, Released
  <2>2. reader' \in [Pairs -> ReaderStates]
    BY <1>0, <1>6 DEF GetClient, UseOwn, Reserve, Evict, Park, Shake, GetPrimary, Streams, Go,
      ReaderStates
  <2> QED BY <1>0, <2>1, <2>2 DEF ReadersTyped
<1>7. ASSUME NEW s \in Pairs, Recycle(s) \/ ReaderRefreshes(s) \/ Silence(s)
      PROVE  ReadersTyped'
  <2>1. own' \subseteq own
    BY <1>7 DEF Recycle, ReaderRefreshes, Silence, Released
  <2>2. reader' \in [Pairs -> ReaderStates]
    BY <1>0, <1>7 DEF Recycle, ReaderRefreshes, Silence, Go, ReaderStates
  <2> QED BY <1>0, <2>1, <2>2 DEF ReadersTyped
<1>8. CASE Reload \/ Boot \/ BridgeCrashes \/ BrokerFalls
  BY <1>0, <1>1, <1>8 DEF Reload, Boot, BridgeCrashes, BrokerFalls, ReadersTyped,
    NoReaders, ReaderStates
<1>12. CASE Rejoin
  <2> DEFINE going == Spawned(reader, {Primary})
  <2>1. going \in [Pairs -> ReaderStates]
    BY <1>0, SpawnedReaders
  <2>2. own' = own /\ (reader' = reader \/ reader' = going \/ reader' = Spawned(going, dynamic))
    BY <1>12 DEF Rejoin, Connected, Connects
  <2> HIDE DEF going
  <2>3. Spawned(going, dynamic) \in [Pairs -> ReaderStates]
    BY <2>1, SpawnedReaders
  <2> QED BY <1>0, <2>1, <2>2, <2>3 DEF ReadersTyped
<1>9. CASE Backend \/ Capture \/ RefreshLoop \/ ReloadRefreshes \/ SocketDrops \/ BrokerReturns
           \/ SessionExpires \/ UNCHANGED bridgeVars
  BY <1>2, <1>9 DEF Backend, SocketOpens, HandleReady, FallbackElapses, Capture, RefreshLoop,
    ReloadRefreshes, SocketDrops, BrokerReturns, SessionExpires, bridgeVars, readers
<1>10. ASSUME NEW s \in Asked, Want(s) \/ Leave(s) PROVE ReadersTyped'
  BY <1>2, <1>10 DEF Want, Leave, readers
<1>11. ASSUME NEW a \in asking, AnswerExpired(a) PROVE ReadersTyped'
  BY <1>2, <1>11 DEF AnswerExpired, readers
<1> QED BY <1>3, <1>4, <1>5, <1>6, <1>7, <1>8, <1>9, <1>10, <1>11, <1>12
     DEF BridgeNext, Handlers, Reading, Keepers

(* The venue never sees more clients of other pairs at once, connected or      *)
(* connecting, than the budget (_ensure_reader_client, _live_slots_in_use).    *)
THEOREM BudgetAlwaysKept == BridgeSpec => []BudgetKept
<1>1. BridgeInit => ReadersTyped /\ BudgetKept
  <2> SUFFICES ASSUME BridgeInit PROVE ReadersTyped /\ BudgetKept
    OBVIOUS
  <2>1. ReadersTyped
    BY DEF BridgeInit, ReadersTyped, NoReaders, ReaderStates
  <2>2. Secondaries = {}
    BY DEF BridgeInit, Secondaries, NoReaders
  <2> QED BY <2>1, <2>2, FS_EmptySet, BridgeAssumption DEF BudgetKept, BridgeAssumption
<1>2. ReadersTyped /\ BudgetKept /\ [BridgeNext]_bridgeVars => ReadersTyped' /\ BudgetKept'
  BY NextReaders, NextBudget
<1> QED BY <1>1, <1>2, PTL DEF BridgeSpec

-----------------------------------------------------------------------------
(* The types of the bridge.                                                    *)

Sent == [sub : BOOLEAN, sym : Pairs]
Controls == [live : BOOLEAN, assets : BOOLEAN, loaded : BOOLEAN]
Credentials == [cred : {"absent", "bad", "good"}, fresh : BOOLEAN, stopped : BOOLEAN,
                reload : {"no", "connect", "refresh"}]
Askers == [sym : Pairs, old : BOOLEAN, refreshing : BOOLEAN]

EndsTyped ==
    /\ wanted \subseteq Pairs
    /\ node \in [open : BOOLEAN, ready : BOOLEAN, timer : BOOLEAN]
    /\ line \in [greeted : BOOLEAN, ready : BOOLEAN]
    /\ frames \in Seq(Sent)

ProcessTyped ==
    /\ running \in BOOLEAN /\ broker \in BOOLEAN
    /\ control \in Controls /\ session \in Credentials

(* The configured pair streams on the control client: it never connects one of   *)
(* its own, and so never comes to have one.                                      *)
HoldingsTyped ==
    /\ subs \subseteq Pairs /\ own \subseteq Pairs \ {Primary} /\ reader[Primary] # "shake"
    /\ dynamic \subseteq Pairs /\ parked \subseteq Pairs /\ refused \subseteq Pairs

BoundsTyped == bounds \in [asks : 0..MaxAsks, upsets : 0..MaxUpsets]

BridgeInv ==
    /\ ReadersTyped /\ EndsTyped /\ ProcessTyped /\ HoldingsTyped /\ BoundsTyped
    /\ asking \subseteq Askers

LEMMA BridgeInvTypes == BridgeInv => BridgeTypeOK
  BY DEF BridgeInv, BridgeTypeOK, ReadersTyped, EndsTyped, ProcessTyped, HoldingsTyped,
         BoundsTyped, Sent, Askers, Controls, Credentials

(* What is staged goes out as one subscribe per pair.                            *)
LEMMA FlushTyped ==
  ASSUME frames \in Seq(Sent), NEW staged \in SUBSET Pairs, Flush(staged)
  PROVE  frames' \in Seq(Sent)
<1>1. IsFiniteSet(staged) /\ Cardinality(staged) \in Nat
  BY BridgeAssumption, FS_Subset, FS_CardinalityType DEF BridgeAssumption
<1>2. PICK order \in SetToSeqs(staged) :
        frames' = frames \o [i \in DOMAIN order |-> [sub |-> TRUE, sym |-> order[i]]]
  BY DEF Flush
<1>3. order \in [1..Cardinality(staged) -> staged]
  BY <1>2 DEF SetToSeqs
<1> DEFINE sent == [i \in DOMAIN order |-> [sub |-> TRUE, sym |-> order[i]]]
<1>4. sent \in [1..Cardinality(staged) -> Sent]
  BY <1>3 DEF Sent
<1>5. sent \in Seq(Sent)
  BY <1>1, <1>4, SeqDef
<1> HIDE DEF sent
<1>6. frames' = frames \o sent
  BY <1>2 DEF sent
<1> QED BY <1>5, <1>6, ConcatProperties

LEMMA TailSent ==
  ASSUME frames \in Seq(Sent), frames # <<>>
  PROVE  frames[1] \in Sent /\ Tail(frames) \in Seq(Sent)
<1>1. Head(frames) = frames[1]
  OBVIOUS
<1> QED BY <1>1, HeadTailProperties

LEMMA EndsKept ==
  ASSUME BridgeInv, [BridgeNext]_bridgeVars
  PROVE  EndsTyped'
<1>1. EndsTyped /\ Asked \subseteq Pairs
  BY BridgeAssumption DEF BridgeInv, BridgeAssumption
<1>2. CASE UNCHANGED ends
  BY <1>1, <1>2 DEF EndsTyped, ends
<1>3. ASSUME UNCHANGED <<wanted, node, frames>>, line' = [line EXCEPT !.ready = line'.ready],
             line'.ready \in BOOLEAN
      PROVE  EndsTyped'
  BY <1>1, <1>3 DEF EndsTyped
<1>4. ASSUME NEW r, Connected(r) \/ Connects(r)
      PROVE  line' = [line EXCEPT !.ready = line'.ready] /\ line'.ready \in BOOLEAN
  BY <1>1, <1>4 DEF Connected, Connects, EndsTyped, BridgeInv, ProcessTyped, Controls
<1>5. ASSUME UNCHANGED line PROVE line' = [line EXCEPT !.ready = line'.ready] /\ line'.ready \in BOOLEAN
  BY <1>1, <1>5 DEF EndsTyped
<1>6. ASSUME Severed PROVE EndsTyped'
  BY <1>1, <1>6 DEF Severed, EndsTyped, NoSocket, NoLine
<1>7. ASSUME NEW s \in Asked, Want(s) PROVE EndsTyped'
  <2>1. wanted' \subseteq Pairs
    BY <1>1, <1>7 DEF Want, EndsTyped
  <2>2. frames' \in Seq(Sent)
    BY <1>1, <1>7, <2>1, FlushTyped DEF Want, EndsTyped
  <2> QED BY <1>1, <1>7, <2>1, <2>2 DEF Want, EndsTyped
<1>8. ASSUME NEW s \in Asked, Leave(s) PROVE EndsTyped'
  <2>1. [sub |-> FALSE, sym |-> s] \in Sent
    BY <1>1 DEF Sent
  <2>2. frames' \in Seq(Sent)
    BY <1>1, <1>8, <2>1, AppendProperties DEF Leave, EndsTyped
  <2> QED BY <1>1, <1>8, <2>2 DEF Leave, EndsTyped
<1>9. CASE SocketOpens
  BY <1>1, <1>9 DEF SocketOpens, EndsTyped
<1>10. CASE HandleReady \/ FallbackElapses
  <2>1. frames' \in Seq(Sent)
    BY <1>1, <1>10, FlushTyped DEF HandleReady, FallbackElapses, EndsTyped
  <2> QED BY <1>1, <1>10, <2>1 DEF HandleReady, FallbackElapses, EndsTyped
<1>11. CASE Greet
  BY <1>1, <1>11 DEF Greet, EndsTyped, BridgeInv, ProcessTyped, Controls
<1>12. CASE TakeSubscribe \/ TakeUnsubscribe
  <2>1. frames # <<>> /\ frames' = Tail(frames) /\ UNCHANGED <<wanted, node, line>>
    BY <1>12 DEF TakeSubscribe, TakeUnsubscribe
  <2> QED BY <1>1, <2>1, TailSent DEF EndsTyped
<1>13. ASSUME NEW a \in asking, AnswerSubscribe(a) PROVE EndsTyped'
  <2>1. UNCHANGED <<wanted, node, frames>>
    BY <1>13 DEF AnswerSubscribe
  <2>2. UNCHANGED line \/ \E r : Connected(r) \/ Connects(r)
    BY <1>13 DEF AnswerSubscribe, Armed, NotArmed, Expired, Unlisted, Unreached, Rejected, Rejects
  <2> QED BY <1>3, <1>4, <1>5, <2>1, <2>2
<1>14. ASSUME NEW s \in Pairs, Wake(s) PROVE EndsTyped'
  <2>1. UNCHANGED <<wanted, node, frames>>
    BY <1>14 DEF Wake
  <2>2. UNCHANGED line \/ \E r : Connected(r) \/ Connects(r)
    BY <1>14 DEF Wake, Unlisted, Unreached, Rejected, Rejects
  <2> QED BY <1>3, <1>4, <1>5, <2>1, <2>2
<1>15. CASE Rejoin
  <2>1. UNCHANGED <<wanted, node, frames>>
    BY <1>15 DEF Rejoin
  <2>2. UNCHANGED line \/ \E r : Connected(r) \/ Connects(r)
    BY <1>15 DEF Rejoin, Unlisted, Unreached, Rejects
  <2> QED BY <1>3, <1>4, <1>5, <2>1, <2>2
<1>16. CASE SocketDrops \/ BridgeCrashes
  BY <1>6, <1>16 DEF SocketDrops, BridgeCrashes
<1>17. ASSUME NEW s \in Pairs,
              GetClient(s) \/ Shake(s) \/ Recycle(s) \/ ReaderRefreshes(s) \/ GetPrimary \/ Silence(s)
       PROVE  EndsTyped'
  BY <1>2, <1>17 DEF GetClient, Shake, Recycle, ReaderRefreshes, GetPrimary, Silence
<1>18. ASSUME NEW a \in asking, AnswerExpired(a) PROVE EndsTyped'
  BY <1>2, <1>18 DEF AnswerExpired
<1>19. CASE \/ Reload \/ ReloadRefreshes \/ Boot \/ Capture \/ RefreshLoop \/ BrokerFalls
            \/ BrokerReturns \/ SessionExpires \/ UNCHANGED bridgeVars
  BY <1>2, <1>19 DEF Reload, ReloadRefreshes, Boot, Capture, RefreshLoop, BrokerFalls, BrokerReturns, SessionExpires, bridgeVars
<1> QED BY <1>7, <1>8, <1>9, <1>10, <1>11, <1>12, <1>13, <1>14, <1>15, <1>16, <1>17, <1>18, <1>19
     DEF BridgeNext, Backend, Relay, Handlers, Reading, Keepers

LEMMA ProcessKept ==
  ASSUME BridgeInv, [BridgeNext]_bridgeVars
  PROVE  ProcessTyped'
<1>1. ProcessTyped
  BY DEF BridgeInv
<1>0. /\ session' = session => session' \in Credentials
      /\ control' = control => control' \in Controls
      /\ session \in Credentials /\ control.live \in BOOLEAN
      /\ \A b \in BOOLEAN : [session EXCEPT !.stopped = b] \in Credentials
      /\ \A b \in BOOLEAN, r \in {"no", "connect", "refresh"} :
            /\ [session EXCEPT !.reload = r] \in Credentials
            /\ [session EXCEPT !.stopped = b, !.reload = r] \in Credentials
            /\ [session EXCEPT !.fresh = FALSE, !.stopped = b, !.reload = r] \in Credentials
      /\ \A b \in BOOLEAN : [control EXCEPT !.live = b] \in Controls
      /\ \A k \in {"absent", "bad", "good"}, b \in BOOLEAN :
            [session EXCEPT !.cred = k] \in Credentials /\ [session EXCEPT !.cred = k, !.fresh = b] \in Credentials
  BY <1>1 DEF ProcessTyped, Credentials, Controls
<1>2. CASE UNCHANGED <<running, broker, control, session>>
  BY <1>1, <1>2 DEF ProcessTyped
<1>20. ASSUME NEW old \in Credentials, Refreshes(old) PROVE session' \in Credentials
  <2>1. \A b \in BOOLEAN : [old EXCEPT !.cred = "good", !.fresh = b, !.stopped = FALSE] \in Credentials
    BY DEF Credentials
  <2>2. ASSUME NEW written \in BOOLEAN,
               session' = [old EXCEPT !.cred = "good", !.fresh = @ \/ written, !.stopped = FALSE]
        PROVE  session' \in Credentials
    <3>1. (old.fresh \/ written) \in BOOLEAN
      OBVIOUS
    <3> QED BY <2>1, <2>2, <3>1
  <2> QED BY <1>20, <2>2 DEF Refreshes
<1>3. ASSUME UNCHANGED <<running, broker, control>>, Refreshed PROVE ProcessTyped'
  <2>1. session' \in Credentials
    BY <1>0, <1>3, <1>20 DEF Refreshed
  <2> QED BY <1>1, <1>3, <2>1 DEF ProcessTyped
<1>4. [live |-> TRUE, assets |-> TRUE, loaded |-> TRUE] \in Controls
  BY DEF Controls
<1>5. ASSUME UNCHANGED <<running, broker>>, session' \in Credentials,
             (\E r : Connected(r) \/ Connects(r)) \/ Unlisted \/ Unreached \/ Rejects
      PROVE  ProcessTyped'
  <2>1. CASE \E r : Connected(r) \/ Connects(r)
    BY <1>1, <1>4, <1>5, <2>1 DEF Connected, Connects, ProcessTyped
  <2>2. CASE Unlisted \/ Unreached \/ Rejects
    BY <1>0, <1>1, <1>5, <2>2 DEF Unlisted, Unreached, Rejects, ProcessTyped
  <2> QED BY <1>5, <2>1, <2>2
<1>6. ASSUME NEW s \in Asked, Want(s) \/ Leave(s) PROVE ProcessTyped'
  BY <1>2, <1>6 DEF Want, Leave
<1>7. CASE Backend \/ Greet \/ TakeSubscribe \/ SocketDrops \/ UNCHANGED bridgeVars
  BY <1>2, <1>7 DEF Backend, SocketOpens, HandleReady, FallbackElapses, Greet, TakeSubscribe,
    SocketDrops, bridgeVars
<1>8. CASE TakeUnsubscribe
  BY <1>1, <1>8 DEF TakeUnsubscribe, Released, ProcessTyped, Controls
<1>9. ASSUME NEW a \in asking, AnswerSubscribe(a) PROVE ProcessTyped'
  <2>1. UNCHANGED <<running, broker>>
    BY <1>9 DEF AnswerSubscribe
  <2>2. session' \in Credentials
    BY <1>0, <1>9 DEF AnswerSubscribe, Armed, NotArmed, Expired, Rejected
  <2>3. (\E r : Connected(r) \/ Connects(r)) \/ Unlisted \/ Unreached \/ Rejects
    BY <1>9 DEF AnswerSubscribe, Armed, NotArmed, Expired, Rejected
  <2> QED BY <1>5, <2>1, <2>2, <2>3
<1>10. ASSUME NEW a \in asking, AnswerExpired(a) PROVE ProcessTyped'
  BY <1>3, <1>10 DEF AnswerExpired
<1>11. ASSUME NEW s \in Pairs, Wake(s) PROVE ProcessTyped'
  <2>1. UNCHANGED <<running, broker>>
    BY <1>11 DEF Wake
  <2>2. CASE UNCHANGED <<control, session>>
    BY <1>2, <2>1, <2>2
  <2>3. session' \in Credentials
    BY <1>0, <1>11 DEF Wake, Rejected
  <2>4. \/ UNCHANGED <<control, session>>
        \/ (\E r : Connected(r) \/ Connects(r)) \/ Unlisted \/ Unreached \/ Rejects
    BY <1>11 DEF Wake, Rejected
  <2> QED BY <1>5, <2>1, <2>2, <2>3, <2>4
<1>12. ASSUME NEW s \in Pairs, ReaderRefreshes(s) PROVE ProcessTyped'
  BY <1>3, <1>12 DEF ReaderRefreshes
<1>13. ASSUME NEW s \in Pairs, GetClient(s) \/ Silence(s) PROVE ProcessTyped'
  BY <1>2, <1>13 DEF GetClient, Silence
<1>14. ASSUME NEW s \in Pairs, Shake(s) \/ Recycle(s) \/ GetPrimary PROVE ProcessTyped'
  BY <1>1, <1>14 DEF Shake, Recycle, GetPrimary, Released, ProcessTyped,
    Controls, Credentials
<1>15. CASE Rejoin
  <2>1. UNCHANGED <<running, broker>>
    BY <1>15 DEF Rejoin
  <2>2. session' \in Credentials
    BY <1>0, <1>15 DEF Rejoin
  <2>3. (\E r : Connected(r) \/ Connects(r)) \/ Unlisted \/ Unreached \/ Rejects
    BY <1>15 DEF Rejoin
  <2> QED BY <1>5, <2>1, <2>2, <2>3
<1>19. CASE ReloadRefreshes
  <2>1. session' \in Credentials
    BY <1>0, <1>19, <1>20 DEF ReloadRefreshes
  <2> QED BY <1>1, <1>19, <2>1 DEF ReloadRefreshes, ProcessTyped
<1>21. CASE RefreshLoop
  BY <1>3, <1>21 DEF RefreshLoop
<1>16. CASE Boot \/ Capture \/ SessionExpires
  BY <1>0, <1>1, <1>16 DEF Boot, Capture, SessionExpires, ProcessTyped
<1>17. CASE BridgeCrashes \/ Reload
  <2>1. NoControl \in Controls
    BY DEF NoControl, Controls
  <2> QED BY <1>0, <1>1, <1>17, <2>1 DEF BridgeCrashes, Reload, ProcessTyped
<1>18. CASE BrokerFalls \/ BrokerReturns
  BY <1>0, <1>1, <1>18 DEF BrokerFalls, BrokerReturns, ProcessTyped
<1> QED BY <1>6, <1>7, <1>8, <1>9, <1>10, <1>11, <1>12, <1>13, <1>14, <1>15, <1>16, <1>17, <1>18,
           <1>19, <1>21
     DEF BridgeNext, Relay, Handlers, Reading, Keepers

LEMMA HoldingsKept ==
  ASSUME BridgeInv, [BridgeNext]_bridgeVars
  PROVE  HoldingsTyped'
<1>1. HoldingsTyped /\ Asked \subseteq Pairs /\ Primary \in Pairs /\ reader \in [Pairs -> ReaderStates]
  BY BridgeAssumption DEF BridgeInv, ReadersTyped, BridgeAssumption
<1>2. CASE UNCHANGED <<readers, refused>>
  BY <1>1, <1>2 DEF HoldingsTyped, readers
<1>3. ASSUME NEW s \in Asked, Want(s) \/ Leave(s) PROVE HoldingsTyped'
  BY <1>2, <1>3 DEF Want, Leave
<1>4. CASE \/ HandleReady \/ FallbackElapses \/ Greet \/ SocketDrops \/ Capture \/ RefreshLoop
           \/ ReloadRefreshes \/ BrokerReturns \/ SessionExpires \/ UNCHANGED bridgeVars
  BY <1>2, <1>4 DEF HandleReady, FallbackElapses, Greet, SocketDrops, Capture, RefreshLoop,
    ReloadRefreshes, BrokerReturns, SessionExpires, bridgeVars
<1>5. CASE SocketOpens
  BY <1>1, <1>5 DEF SocketOpens, HoldingsTyped, readers
<1>6. CASE TakeSubscribe
  <2>1. frames[1].sym \in Pairs
    BY <1>6, TailSent DEF TakeSubscribe, BridgeInv, EndsTyped, Sent
  <2>2. refused' \subseteq refused \cup {frames[1].sym} /\ UNCHANGED readers
    BY <1>6 DEF TakeSubscribe
  <2> QED BY <1>1, <2>1, <2>2 DEF HoldingsTyped, readers
<1>7. CASE TakeUnsubscribe
  <2>1. UNCHANGED readers \/ \E s : reader' = [reader EXCEPT ![s] = "none"]
    BY <1>7 DEF TakeUnsubscribe
  <2>2. reader'[Primary] # "shake"
    BY <1>1, <2>1 DEF HoldingsTyped, readers
  <2>3. /\ subs' \subseteq subs /\ own' \subseteq own /\ dynamic' \subseteq dynamic
        /\ parked' = parked /\ refused' = refused
    BY <1>7 DEF TakeUnsubscribe, Released, readers
  <2> QED BY <1>1, <2>2, <2>3 DEF HoldingsTyped
<1>8. ASSUME NEW r \in [Pairs -> ReaderStates], r[Primary] # "shake", NEW set
      PROVE  Spawned(r, set)[Primary] # "shake"
  BY <1>1, <1>8, SpawnedReaders
<1>9. ASSUME NEW a \in asking, AnswerSubscribe(a) PROVE HoldingsTyped'
  <2>1. a.sym \in Pairs
    BY DEF BridgeInv, Askers
  <2>2. /\ subs' = subs /\ own' = own /\ dynamic' \subseteq dynamic \cup {a.sym}
        /\ parked' \subseteq parked /\ refused' \subseteq refused \cup {a.sym}
    BY <1>9 DEF AnswerSubscribe, Armed, NotArmed, Expired
  <2> DEFINE once == Spawned(reader, {a.sym})
  <2>3. once \in [Pairs -> ReaderStates] /\ once[Primary] # "shake"
    BY <1>1, <1>8, SpawnedReaders DEF HoldingsTyped
  <2>4. reader' = reader \/ reader' = once \/ reader' = Spawned(once, dynamic)
    BY <1>9 DEF AnswerSubscribe, Armed, NotArmed, Expired, Connected, Connects
  <2> HIDE DEF once
  <2>5. reader'[Primary] # "shake"
    BY <1>1, <1>8, <2>3, <2>4 DEF HoldingsTyped
  <2> QED BY <1>1, <2>1, <2>2, <2>5 DEF HoldingsTyped
<1>10. ASSUME NEW a \in asking, AnswerExpired(a) PROVE HoldingsTyped'
  <2>1. a.sym \in Pairs
    BY DEF BridgeInv, Askers
  <2> QED BY <1>1, <1>10, <2>1 DEF AnswerExpired, HoldingsTyped, readers
<1>11. ASSUME NEW s \in Pairs, Wake(s) PROVE HoldingsTyped'
  <2> DEFINE going == [reader EXCEPT ![s] = "get"]
  <2>1. going \in [Pairs -> ReaderStates] /\ going[Primary] # "shake"
    BY <1>1 DEF HoldingsTyped, ReaderStates
  <2>2. \/ reader' = reader \/ reader' = going \/ reader' = Spawned(going, dynamic)
        \/ Go(s, "none") \/ Go(s, "refresh")
    BY <1>11 DEF Wake, Connected, Connects
  <2> HIDE DEF going
  <2>3. reader'[Primary] # "shake"
    BY <1>1, <1>8, <2>1, <2>2 DEF HoldingsTyped, Go
  <2> QED BY <1>1, <1>11, <2>3 DEF Wake, HoldingsTyped
<1>12. CASE GetPrimary
  BY <1>1, <1>12 DEF GetPrimary, Streams, Go, Released, HoldingsTyped
<1>13. ASSUME NEW s \in Pairs, GetClient(s) PROVE HoldingsTyped'
  <2>1. s # Primary /\ own \subseteq Pairs /\ UNCHANGED <<dynamic, refused>>
    BY <1>1, <1>13 DEF GetClient, HoldingsTyped
  <2>2. /\ subs' \subseteq subs \cup {s} /\ own' \subseteq own
        /\ \E v \in own \cup {s} : parked' \subseteq parked \cup {v}
    BY <1>13 DEF GetClient, UseOwn, Reserve, Evict, Park, Streams
  <2>3. \/ \E state : Go(s, state)
        \/ \E v : reader' = [reader EXCEPT ![v] = "none", ![s] = "shake"]
    BY <1>13 DEF GetClient, UseOwn, Reserve, Evict, Park, Streams
  <2>4. reader'[Primary] # "shake"
    BY <1>1, <2>1, <2>3 DEF HoldingsTyped, Go
  <2> QED BY <1>1, <2>1, <2>2, <2>4 DEF HoldingsTyped
<1>14. ASSUME NEW s \in Pairs, Shake(s) PROVE HoldingsTyped'
  <2>1. s # Primary
    BY <1>1, <1>14 DEF Shake, HoldingsTyped
  <2> QED BY <1>1, <1>14, <2>1 DEF Shake, Streams, Go, Released, HoldingsTyped
<1>15. ASSUME NEW s \in Pairs, Silence(s) \/ Recycle(s) \/ ReaderRefreshes(s) PROVE HoldingsTyped'
  <2>1. /\ subs' \subseteq subs /\ own' \subseteq own
        /\ UNCHANGED <<dynamic, parked, refused>>
    BY <1>15 DEF Silence, Recycle, ReaderRefreshes, Released
  <2>2. reader'[Primary] # "shake"
    BY <1>1, <1>15 DEF Silence, Recycle, ReaderRefreshes, Go, HoldingsTyped
  <2> QED BY <1>1, <2>1, <2>2 DEF HoldingsTyped
<1>16. CASE Reload \/ Boot \/ BridgeCrashes
  <2>1. NoReaders \in [Pairs -> ReaderStates] /\ NoReaders[Primary] # "shake"
    BY <1>1 DEF NoReaders, ReaderStates
  <2>2. reader' = NoReaders \/ \E set : reader' = Spawned(NoReaders, set)
    BY <1>16 DEF Reload, Boot, BridgeCrashes
  <2>3. reader'[Primary] # "shake"
    BY <1>8, <2>1, <2>2
  <2>4. /\ subs' \subseteq subs /\ own' \subseteq own /\ dynamic' \subseteq dynamic
        /\ parked' \subseteq parked /\ refused' = refused
    BY <1>16 DEF Reload, Boot, BridgeCrashes
  <2> QED BY <1>1, <2>3, <2>4 DEF HoldingsTyped
<1>18. CASE Rejoin
  <2> DEFINE going == Spawned(reader, {Primary})
  <2>1. going \in [Pairs -> ReaderStates] /\ going[Primary] # "shake"
    BY <1>1, <1>8, SpawnedReaders DEF HoldingsTyped
  <2>2. reader' = reader \/ reader' = going \/ reader' = Spawned(going, dynamic)
    BY <1>18 DEF Rejoin, Connected, Connects
  <2> HIDE DEF going
  <2>3. reader'[Primary] # "shake"
    BY <1>1, <1>8, <2>1, <2>2 DEF HoldingsTyped
  <2> QED BY <1>1, <1>18, <2>3 DEF Rejoin, HoldingsTyped
<1>17. CASE BrokerFalls
  <2>1. reader'[Primary] # "shake"
    BY <1>1, <1>17 DEF BrokerFalls, HoldingsTyped
  <2> QED BY <1>1, <1>17, <2>1 DEF BrokerFalls, HoldingsTyped
<1> QED BY <1>3, <1>4, <1>5, <1>6, <1>7, <1>9, <1>10, <1>11, <1>12, <1>13, <1>14, <1>15, <1>16, <1>17, <1>18
     DEF BridgeNext, Backend, Relay, Handlers, Reading, Keepers

LEMMA AskersKept ==
  ASSUME BridgeInv, [BridgeNext]_bridgeVars
  PROVE  asking' \subseteq Askers
<1>1. asking \subseteq Askers
  BY DEF BridgeInv
<1>2. CASE TakeSubscribe
  <2>1. frames[1].sym \in Pairs
    BY <1>2, TailSent DEF TakeSubscribe, BridgeInv, EndsTyped, Sent
  <2>2. [sym |-> frames[1].sym, old |-> FALSE, refreshing |-> FALSE] \in Askers
    BY <2>1 DEF Askers
  <2> QED BY <1>1, <1>2, <2>2 DEF TakeSubscribe
<1>3. ASSUME NEW a \in asking, AnswerSubscribe(a) PROVE asking' \subseteq Askers
  <2>1. [a EXCEPT !.refreshing = TRUE] \in Askers
    BY <1>1 DEF Askers
  <2> QED BY <1>1, <1>3, <2>1 DEF AnswerSubscribe, Armed, NotArmed, Expired
<1>4. ASSUME NEW a \in asking, AnswerExpired(a) PROVE asking' \subseteq Askers
  BY <1>1, <1>4 DEF AnswerExpired
<1>5. CASE SocketDrops
  <2>1. \A a \in asking : [a EXCEPT !.old = TRUE] \in Askers
    BY <1>1 DEF Askers
  <2> QED BY <1>5, <2>1 DEF SocketDrops
<1>6. CASE BridgeCrashes
  BY <1>6 DEF BridgeCrashes
<1>7. ASSUME NEW s \in Asked, Want(s) \/ Leave(s) PROVE asking' \subseteq Askers
  BY <1>1, <1>7 DEF Want, Leave
<1>8. CASE Backend \/ Greet \/ TakeUnsubscribe \/ Keepers \/ UNCHANGED bridgeVars
  BY <1>1, <1>8 DEF Backend, SocketOpens, HandleReady, FallbackElapses, Greet, TakeUnsubscribe,
    Keepers, Reload, Rejoin, ReloadRefreshes, Boot, bridgeVars
<1>9. ASSUME NEW s \in Pairs, Reading(s) \/ Silence(s) PROVE asking' \subseteq Askers
  BY <1>1, <1>9 DEF Reading, Wake, GetClient, Shake, Recycle, ReaderRefreshes, GetPrimary, Silence
<1>10. CASE Capture \/ RefreshLoop \/ BrokerFalls \/ BrokerReturns \/ SessionExpires
  BY <1>1, <1>10 DEF Capture, RefreshLoop, BrokerFalls, BrokerReturns, SessionExpires
<1> QED BY <1>2, <1>3, <1>4, <1>5, <1>6, <1>7, <1>8, <1>9, <1>10 DEF BridgeNext, Relay, Handlers

LEMMA BoundsKept ==
  ASSUME BridgeInv, [BridgeNext]_bridgeVars
  PROVE  BoundsTyped'
<1>1. BoundsTyped /\ MaxAsks \in Nat /\ MaxUpsets \in Nat
  BY BridgeAssumption DEF BridgeInv, BridgeAssumption
<1>2. CASE Asks \/ Upset
  BY <1>1, <1>2 DEF Asks, Upset, BoundsTyped
<1>3. CASE UNCHANGED bounds
  BY <1>1, <1>3 DEF BoundsTyped
<1>4. ASSUME NEW s \in Asked, Want(s) \/ Leave(s) PROVE BoundsTyped'
  BY <1>2, <1>4 DEF Want, Leave
<1>5. CASE Backend \/ Relay \/ Keepers \/ Capture \/ BrokerReturns \/ UNCHANGED bridgeVars
  BY <1>3, <1>5 DEF Backend, SocketOpens, HandleReady, FallbackElapses, Relay, Greet, TakeSubscribe,
    TakeUnsubscribe, Keepers, Reload, Rejoin, ReloadRefreshes, Boot, Capture, BrokerReturns, bridgeVars
<1>6. CASE RefreshLoop \/ SocketDrops \/ BridgeCrashes \/ BrokerFalls \/ SessionExpires
  BY <1>2, <1>6 DEF RefreshLoop, SocketDrops, BridgeCrashes, BrokerFalls, SessionExpires
<1>7. CASE Handlers
  BY <1>3, <1>7 DEF Handlers, AnswerSubscribe, AnswerExpired
<1>8. ASSUME NEW s \in Pairs, Reading(s) \/ Silence(s) PROVE BoundsTyped'
  BY <1>2, <1>3, <1>8 DEF Reading, Wake, GetClient, Shake, Recycle, ReaderRefreshes, GetPrimary, Silence
<1> QED BY <1>4, <1>5, <1>6, <1>7, <1>8 DEF BridgeNext

LEMMA BridgeStarts == BridgeInit => BridgeInv
<1> SUFFICES ASSUME BridgeInit PROVE BridgeInv
  OBVIOUS
<1>1. ReadersTyped /\ reader[Primary] # "shake"
  BY BridgeAssumption DEF BridgeInit, ReadersTyped, NoReaders, ReaderStates, BridgeAssumption
<1>2. EndsTyped
  BY DEF BridgeInit, EndsTyped, NoSocket, NoLine
<1>3. ProcessTyped
  BY DEF BridgeInit, ProcessTyped, NoControl, Controls, Credentials
<1>4. BoundsTyped
  BY BridgeAssumption DEF BridgeInit, BoundsTyped, BridgeAssumption
<1> QED BY <1>1, <1>2, <1>3, <1>4 DEF BridgeInit, BridgeInv, HoldingsTyped

LEMMA BridgeKeeps == BridgeInv /\ [BridgeNext]_bridgeVars => BridgeInv'
<1> SUFFICES ASSUME BridgeInv, [BridgeNext]_bridgeVars PROVE BridgeInv'
  OBVIOUS
<1>1. ReadersTyped'
  BY NextReaders DEF BridgeInv
<1> QED BY <1>1, EndsKept, ProcessKept, HoldingsKept, AskersKept, BoundsKept DEF BridgeInv

(* Whatever browsers ask for and however the session, the broker and the         *)
(* processes fail, the bridge keeps its books in their types; the configured     *)
(* pair, in particular, is never among the pairs with a client of their own.     *)
THEOREM BridgeTypes == BridgeSpec => []BridgeTypeOK
  BY BridgeStarts, BridgeKeeps, BridgeInvTypes, PTL DEF BridgeSpec

-----------------------------------------------------------------------------
(* The page.                                                                   *)

(* Of a few numbers one is the greatest, and of two one is the least. *)
LEMMA GreatestOfSix ==
  ASSUME NEW a \in Nat, NEW b \in Nat, NEW c \in Nat, NEW d \in Nat, NEW e \in Nat, NEW f \in Nat
  PROVE  Max({a, b, c, d, e, f}) \in Nat /\ \A x \in {a, b, c, d, e, f} : Max({a, b, c, d, e, f}) >= x
<1> DEFINE S == {a, b, c, d, e, f}
<1>1. \E x \in S : \A y \in S : x >= y
  OBVIOUS
<1>2. Max(S) \in S /\ \A y \in S : Max(S) >= y
  BY <1>1 DEF Max
<1> QED BY <1>2

LEMMA LeastOfTwo ==
  ASSUME NEW a \in Nat, NEW b \in Nat
  PROVE  Min({a, b}) \in {a, b} /\ Min({a, b}) <= a /\ Min({a, b}) <= b
<1>1. \E x \in {a, b} : \A y \in {a, b} : x <= y
  OBVIOUS
<1>2. Min({a, b}) \in {a, b} /\ \A y \in {a, b} : Min({a, b}) <= y
  BY <1>1 DEF Min
<1> QED BY <1>2

(* An age grows by one beat, as far as any threshold can tell. *)
LEMMA AgesGrow ==
  /\ Eldest \in Nat /\ None \in Nat /\ 0 \in 0..None /\ None \in 0..None
  /\ \A n \in 0..None : Older(n) \in 0..None /\ Older(n) <= n + 1 /\ Older(n) \in Nat
<1>1. Eldest \in Nat
  <2>1. /\ PriceOld \in Nat /\ TickOld \in Nat /\ StatusOld \in Nat
        /\ HardAfter \in Nat /\ PacketOld \in Nat /\ RetryOld \in Nat
    BY WatchAssumption DEF WatchAssumption
  <2>2. Max({PriceOld, TickOld, StatusOld, HardAfter, PacketOld, RetryOld}) \in Nat
    BY <2>1, GreatestOfSix
  <2> QED BY <2>2 DEF Eldest
<1>2. None \in Nat /\ Eldest <= None /\ 0 \in 0..None /\ None \in 0..None
  BY <1>1 DEF None
<1>3. ASSUME NEW n \in 0..None PROVE Older(n) \in 0..None /\ Older(n) <= n + 1 /\ Older(n) \in Nat
  <2>1. n + 1 \in Nat
    BY <1>2
  <2>2. Older(n) \in {n + 1, Eldest} /\ Older(n) <= n + 1 /\ Older(n) <= Eldest
    BY <1>1, <2>1, LeastOfTwo DEF Older
  <2> QED BY <1>1, <1>2, <2>1, <2>2
<1> QED BY <1>1, <1>2, <1>3

AgesTyped == age \in [Clocks -> 0..None]
MarksTyped == shown \in [stalled : BOOLEAN, stale : BOOLEAN, feed : {"live", "other", "disconnected"}]
TimersTyped == timers \in [sweep : BOOLEAN, watch : 0..WatchEvery]

(* A sweep is due on a connection only: a page without one warns of nothing. *)
WatchInv ==
    /\ WatchTypeOK /\ SilenceIsBounded
    /\ timers.sweep => transport = "on"

LEMMA WatchStarts == WatchInit => WatchInv
<1> SUFFICES ASSUME WatchInit PROVE WatchInv
  OBVIOUS
<1>1. AgesTyped
  BY AgesGrow DEF WatchInit, AgesTyped
<1>2. WatchEvery \in 0..WatchEvery /\ MaxResets \in 0..MaxResets
  BY WatchAssumption DEF WatchAssumption
<1> QED BY <1>1, <1>2 DEF WatchInit, WatchInv, WatchTypeOK, SilenceIsBounded, AgesTyped

(* The clocks that a frame or a call sets start again, the others go on. *)
LEMMA FreshTyped ==
  ASSUME AgesTyped, NEW clocks, NEW n \in 0..None
  PROVE  /\ Fresh(clocks) \in [Clocks -> 0..None]
         /\ [Fresh(clocks) EXCEPT !["onset"] = n] \in [Clocks -> 0..None]
         /\ Fresh(clocks)["packet"] = (IF "packet" \in clocks THEN 0 ELSE age["packet"])
         /\ [Fresh(clocks) EXCEPT !["onset"] = n]["packet"] = (IF "packet" \in clocks THEN 0 ELSE age["packet"])
  BY AgesGrow DEF Fresh, AgesTyped, Clocks

LEMMA TimersSet ==
  ASSUME NEW t \in [sweep : BOOLEAN, watch : 0..WatchEvery]
  PROVE  /\ \A b \in BOOLEAN : /\ [t EXCEPT !.sweep = b] \in [sweep : BOOLEAN, watch : 0..WatchEvery]
                              /\ [t EXCEPT !.sweep = b].watch = t.watch /\ [t EXCEPT !.sweep = b].sweep = b
         /\ [t EXCEPT !.watch = WatchEvery] \in [sweep : BOOLEAN, watch : 0..WatchEvery]
         /\ [t EXCEPT !.watch = WatchEvery].watch = WatchEvery
         /\ [t EXCEPT !.watch = WatchEvery].sweep = t.sweep
<1>1. WatchEvery \in 0..WatchEvery
  BY WatchAssumption DEF WatchAssumption
<1> QED BY <1>1

LEMMA WatchKeeps == WatchInv /\ [WatchNext]_watchVars => WatchInv'
<1> SUFFICES ASSUME WatchInv, [WatchNext]_watchVars PROVE WatchInv'
  OBVIOUS
<1>0. /\ AgesTyped /\ MarksTyped /\ TimersTyped /\ resets \in 0..MaxResets /\ MaxResets \in Nat
      /\ WatchEvery \in Nat /\ PacketOld \in Nat
      /\ transport \in {"on", "down"} /\ dead \in BOOLEAN
      /\ transport = "down" => ~dead /\ ~shown.stalled /\ ~shown.stale
      /\ timers.sweep => transport = "on"
      /\ SilenceIsBounded
  BY WatchAssumption DEF WatchAssumption, WatchInv, WatchTypeOK, AgesTyped, MarksTyped, TimersTyped
<1>1. /\ timers.watch \in 0..WatchEvery /\ age["packet"] \in 0..None /\ age["onset"] \in 0..None
      /\ shown.stalled \in BOOLEAN /\ shown.stale \in BOOLEAN /\ shown.feed \in {"live", "other", "disconnected"}
      /\ None \in 0..None /\ 0 \in 0..None
  BY <1>0, AgesGrow DEF AgesTyped, MarksTyped, TimersTyped, Clocks
<1>2. MarksTyped /\ Unflagged \in [stalled : BOOLEAN, stale : BOOLEAN, feed : {"live", "other", "disconnected"}]
      /\ ~Unflagged.stalled /\ ~Unflagged.stale
  BY <1>0 DEF MarksTyped, Unflagged
<1>3. ASSUME AgesTyped', MarksTyped', TimersTyped', resets' \in 0..MaxResets,
             transport' = "down", dead' = FALSE, ~shown'.stalled, ~shown'.stale, ~timers'.sweep
      PROVE  WatchInv'
  BY <1>3 DEF WatchInv, WatchTypeOK, SilenceIsBounded, AgesTyped, MarksTyped, TimersTyped
<1>4. ASSUME AgesTyped', MarksTyped', TimersTyped', resets' \in 0..MaxResets,
             transport' = "on", dead' \in BOOLEAN, age'["packet"] + timers'.watch <= PacketOld + WatchEvery
      PROVE  WatchInv'
  BY <1>4 DEF WatchInv, WatchTypeOK, SilenceIsBounded, AgesTyped, MarksTyped, TimersTyped
<1>5. /\ [timers EXCEPT !.sweep = TRUE] \in [sweep : BOOLEAN, watch : 0..WatchEvery]
      /\ [timers EXCEPT !.sweep = FALSE] \in [sweep : BOOLEAN, watch : 0..WatchEvery]
      /\ [timers EXCEPT !.watch = WatchEvery] \in [sweep : BOOLEAN, watch : 0..WatchEvery]
      /\ [timers EXCEPT !.sweep = TRUE].watch = timers.watch
      /\ [timers EXCEPT !.sweep = FALSE].watch = timers.watch /\ ~[timers EXCEPT !.sweep = FALSE].sweep
      /\ [timers EXCEPT !.watch = WatchEvery].watch = WatchEvery
      /\ [timers EXCEPT !.watch = WatchEvery].sweep = timers.sweep
  BY <1>0, TimersSet DEF TimersTyped
<1>6. CASE Attach
  <2>1. AgesTyped' /\ age'["packet"] = 0
    BY <1>0, <1>1, <1>6, FreshTyped DEF Attach, AgesTyped
  <2>2. age'["packet"] + timers'.watch <= PacketOld + WatchEvery
    BY <1>0, <1>1, <1>5, <1>6, <2>1 DEF Attach
  <2> QED BY <1>0, <1>2, <1>4, <1>5, <1>6, <2>1, <2>2 DEF Attach, MarksTyped, TimersTyped
<1>7. ASSUME NEW clocks, Goes(clocks), resets' \in 0..MaxResets PROVE WatchInv'
  <2>1. AgesTyped'
    BY <1>0, <1>1, <1>7, FreshTyped DEF Goes, AgesTyped
  <2> QED BY <1>2, <1>3, <1>5, <1>7, <2>1 DEF Goes, MarksTyped, TimersTyped
<1>8. CASE Closes \/ TabIsShown
  BY <1>0, <1>7, <1>8 DEF Closes, TabIsShown
<1>9. CASE Dies
  BY <1>0, <1>4, <1>9 DEF Dies, AgesTyped, MarksTyped, TimersTyped, SilenceIsBounded
<1>10. CASE HardReset
  <2>1. AgesTyped'
    BY <1>0, <1>1, <1>10, FreshTyped DEF HardReset, AgesTyped
  <2>2. resets' \in 0..MaxResets
    BY <1>0, <1>10 DEF HardReset
  <2>3. MarksTyped' /\ TimersTyped' /\ ~shown'.stalled /\ ~shown'.stale /\ ~timers'.sweep
    BY <1>2, <1>5, <1>10 DEF HardReset, MarksTyped, TimersTyped
  <2> QED BY <1>3, <1>10, <2>1, <2>2, <2>3 DEF HardReset
<1>11. ASSUME NEW kind \in DOMAIN Stamps, Frame(kind) PROVE WatchInv'
  <2>1. AgesTyped' /\ age'["packet"] <= age["packet"] /\ age'["packet"] \in Nat
    <3> DEFINE clocks == Stamps[kind]
    <3>1. age' = [Fresh(clocks) EXCEPT !["onset"] = None] \/ age' = Fresh(clocks)
      BY <1>11 DEF Frame
    <3> HIDE DEF clocks
    <3>2. 0 <= age["packet"] /\ 0 \in Nat /\ age["packet"] \in Nat
      BY <1>1, AgesGrow
    <3>3. age'["packet"] = (IF "packet" \in clocks THEN 0 ELSE age["packet"]) /\ age' \in [Clocks -> 0..None]
      <4>1. AgesTyped /\ None \in 0..None
        BY <1>0, <1>1
      <4>2. CASE age' = [Fresh(clocks) EXCEPT !["onset"] = None]
        BY <4>1, <4>2, FreshTyped
      <4>3. CASE age' = Fresh(clocks)
        BY <4>1, <4>3, FreshTyped
      <4> QED BY <3>1, <4>2, <4>3
    <3> QED BY <3>2, <3>3 DEF AgesTyped
  <2>2. MarksTyped'
    BY <1>1, <1>11 DEF Frame, MarksTyped
  <2>3. age'["packet"] + timers'.watch <= PacketOld + WatchEvery
    BY <1>0, <1>1, <1>11, <2>1, AgesGrow DEF Frame, Receives, SilenceIsBounded
  <2> QED BY <1>0, <1>4, <1>11, <2>1, <2>2, <2>3 DEF Frame, Receives, TimersTyped
<1>12. CASE Beat
  <2>1. AgesTyped' /\ age'["packet"] <= age["packet"] + 1 /\ age'["packet"] \in Nat
    <3>1. \A k \in Clocks : age[k] \in 0..None
      BY <1>0 DEF AgesTyped
    <3>2. \A n \in 0..None : Older(n) \in 0..None /\ Older(n) <= n + 1 /\ Older(n) \in Nat /\ n \in Nat
      BY AgesGrow
    <3>3. age' = [k \in Clocks |-> IF age[k] = None THEN None ELSE Older(age[k])]
      BY <1>12 DEF Beat
    <3>4. AgesTyped'
      BY <1>1, <3>1, <3>2, <3>3 DEF AgesTyped
    <3>5. "packet" \in Clocks /\ age'["packet"] = IF age["packet"] = None THEN age["packet"] ELSE Older(age["packet"])
      BY <3>3 DEF Clocks
    <3> QED BY <1>1, <3>2, <3>4, <3>5
  <2>2. timers'.watch = timers.watch - 1 /\ timers'.watch \in 0..WatchEvery /\ timers'.sweep = (transport = "on")
        /\ TimersTyped'
    BY <1>0, <1>1, <1>12 DEF Beat, TimersTyped
  <2>3. CASE transport = "on"
    <3>1. age'["packet"] + timers'.watch <= PacketOld + WatchEvery
      BY <1>0, <1>1, <2>1, <2>2, <2>3, AgesGrow DEF SilenceIsBounded
    <3> QED BY <1>0, <1>4, <1>12, <2>1, <2>2, <2>3, <3>1 DEF Beat, MarksTyped
  <2>4. CASE transport = "down"
    BY <1>0, <1>3, <1>12, <2>1, <2>2, <2>4 DEF Beat, MarksTyped
  <2> QED BY <1>0, <2>3, <2>4
<1>13. CASE Sweep
  <2> DEFINE stalled == age["tick"] > TickOld
             seen == [stalled |-> stalled, stale |-> age["price"] > PriceOld,
                      feed |-> IF age["status"] > StatusOld THEN "disconnected" ELSE shown.feed]
             onset == IF age["onset"] = None THEN 0 ELSE age["onset"]
  <2>1. /\ transport = "on" /\ TimersTyped' /\ timers'.watch = timers.watch /\ ~timers'.sweep /\ resets' = resets
    BY <1>0, <1>5, <1>13 DEF Sweep, TimersTyped
  <2>2. seen \in [stalled : BOOLEAN, stale : BOOLEAN, feed : {"live", "other", "disconnected"}]
    BY <1>1
  <2>3. onset \in 0..None
    BY <1>1
  <2>4. /\ \A n \in 0..None : /\ [age EXCEPT !["onset"] = n] \in [Clocks -> 0..None]
                              /\ [age EXCEPT !["onset"] = n]["packet"] = age["packet"]
    BY <1>0 DEF AgesTyped, Clocks
  <2>5. (IF stalled # shown.stalled THEN Recover(stalled, seen)
         ELSE shown' = seen /\ UNCHANGED <<transport, dead, age>>)
    BY <1>13 DEF Sweep
  <2>6. \/ transport' = "down" /\ dead' = FALSE /\ age' = [age EXCEPT !["onset"] = onset]
            /\ shown' = [seen EXCEPT !.stalled = FALSE, !.stale = FALSE]
        \/ /\ UNCHANGED <<transport, dead>> /\ shown' = seen
           /\ age' = age \/ age' = [age EXCEPT !["onset"] = onset] \/ age' = [age EXCEPT !["onset"] = None]
    BY <2>5 DEF Recover
  <2> HIDE DEF stalled, seen, onset
  <2>7. AgesTyped' /\ age'["packet"] = age["packet"]
    BY <1>0, <1>1, <2>3, <2>4, <2>6 DEF AgesTyped
  <2>8. CASE UNCHANGED <<transport, dead>> /\ shown' = seen
    BY <1>0, <1>4, <2>1, <2>2, <2>7, <2>8 DEF MarksTyped, SilenceIsBounded
  <2>9. CASE transport' = "down" /\ dead' = FALSE /\ shown' = [seen EXCEPT !.stalled = FALSE, !.stale = FALSE]
    <3>1. MarksTyped' /\ ~shown'.stalled /\ ~shown'.stale
      BY <2>2, <2>9 DEF MarksTyped
    <3> QED BY <1>0, <1>3, <2>1, <2>7, <2>9, <3>1
  <2> QED BY <2>6, <2>8, <2>9
<1>14. CASE Watch
  <2>1. TimersTyped' /\ timers'.watch = WatchEvery /\ ~timers'.sweep /\ resets' = resets
    BY <1>5, <1>14 DEF Watch, TimersTyped
  <2>2. CASE transport' = "down" /\ dead' = FALSE /\ age' = Fresh({"packet"}) /\ shown' = Unflagged
    <3>1. AgesTyped'
      BY <1>0, <1>1, <2>2, FreshTyped DEF AgesTyped
    <3> QED BY <1>0, <1>2, <1>3, <2>1, <2>2, <3>1 DEF MarksTyped
  <2>3. CASE transport = "on" /\ ~(age["packet"] > PacketOld) /\ UNCHANGED <<transport, dead, age, shown>>
    <3>1. age["packet"] \in Nat /\ age'["packet"] + timers'.watch <= PacketOld + WatchEvery
      BY <1>0, <1>1, <2>1, <2>3, AgesGrow
    <3> QED BY <1>0, <1>4, <2>1, <2>3, <3>1 DEF AgesTyped, MarksTyped
  <2>4. CASE transport = "down" /\ UNCHANGED <<transport, dead, age, shown>>
    BY <1>0, <1>3, <2>1, <2>4 DEF AgesTyped, MarksTyped
  <2> QED BY <1>0, <1>14, <2>2, <2>3, <2>4 DEF Watch
<1>15. CASE UNCHANGED watchVars
  BY <1>15 DEF watchVars, WatchInv, WatchTypeOK, SilenceIsBounded
<1> QED BY <1>6, <1>8, <1>9, <1>10, <1>11, <1>12, <1>13, <1>14, <1>15 DEF WatchNext

(* No connection is kept that has brought no packet for longer than the limit of  *)
(* the provider's watchdog and one of its rounds, whatever the thresholds are and  *)
(* however often the user, the tab or the hook's sweep come in between.          *)
THEOREM SilenceAlwaysBounded == WatchSpec => []SilenceIsBounded
<1>1. WatchInv => SilenceIsBounded
  BY DEF WatchInv
<1> QED BY <1>1, WatchStarts, WatchKeeps, PTL DEF WatchSpec

(* Both parts keep their types, for any pairs, budgets, thresholds and troubles. *)
THEOREM StreamsTyped == StreamsSpec => []StreamsTypeOK
<1>1. StreamsInit => BridgeInv /\ WatchInv
  BY BridgeStarts, WatchStarts DEF StreamsInit
<1>2. [StreamsNext]_<<part, bridgeVars, watchVars>> => [BridgeNext]_bridgeVars /\ [WatchNext]_watchVars
  BY DEF StreamsNext
<1>3. BridgeInv /\ WatchInv /\ [StreamsNext]_<<part, bridgeVars, watchVars>> => (BridgeInv /\ WatchInv)'
  BY <1>2, BridgeKeeps, WatchKeeps
<1>4. BridgeInv /\ WatchInv => StreamsTypeOK
  BY BridgeInvTypes DEF WatchInv, StreamsTypeOK
<1> QED BY <1>1, <1>3, <1>4, PTL DEF StreamsSpec
=============================================================================
