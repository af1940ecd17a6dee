------------------------------- MODULE PoBridge -------------------------------
(***************************************************************************)
(* Who reads which pair of Pocket Option for the platform: the client of   *)
(* core-backend, which stages what browsers ask for                        *)
(* (pocketOptionBridge.service.ts), the relay between the two processes    *)
(* (pocket-bridge, relay.py) and the bridge with its readers (bridge.py).  *)
(* A step of the bridge ends where a coroutine waits for the broker, for a *)
(* lock or for its backoff.                                                *)
(***************************************************************************)
EXTENDS Naturals, Sequences, FiniteSets, SequencesExt

CONSTANTS
    Pairs,          \* pairs the broker lists
    Asked,          \* pairs that browsers ask for
    Primary,        \* the one configured pair, read on the control client
    Slots,          \* MAX_LIVE_STREAMS - 1: clients for one other pair each
    MaxAsks,        \* bound: subscriptions and unsubscriptions by browsers
    MaxUpsets       \* bound: drops, crashes, outages, silences, expiries, scheduled refreshes

ASSUME BridgeAssumption ==
    /\ IsFiniteSet(Pairs) /\ Asked \subseteq Pairs /\ Primary \in Pairs /\ Slots \in Nat
    /\ MaxAsks \in Nat /\ MaxUpsets \in Nat

VARIABLES
    wanted,     \* poArmedByClient
    node,       \* the backend's end: socket open, assetsReady, the fallback timer
    line,       \* the relay's end: the newcomer greeted, a `ready` on its way
    frames,     \* subscribes and unsubscribes on their way
    asking,     \* subscribes under way, of this socket or an older one
    running,    \* the bridge process
    control,    \* the control client lives; _assets_ready; the registry is loaded
    session,    \* the credential, a new file, _retry_stopped, the watcher's reload
    reader,     \* the reader task of each pair
    subs,       \* _subs
    own,        \* _reader_clients
    dynamic,    \* _dynamic_symbols
    parked,     \* _buffered, and pairs skipped for want of a slot
    broker,     \* Pocket Option is reachable
    refused,    \* pairs whose last subscribe was answered "NOT armed"
    bounds      \* what is left of the bounds

ends == <<wanted, node, line, frames>>
readers == <<reader, subs, own, dynamic, parked>>
bridgeVars == <<ends, asking, running, control, session, readers, broker, refused, bounds>>

(* A task waits (for its backoff or the lock), awaits a refresh under the lock *)
(* or before it gives up, has the connection, awaits its own client's, streams *)
(* ticks, or holds a stream that has fallen silent.                            *)
ReaderStates == {"none", "wait", "refresh", "giveup", "get", "shake", "stream", "silent"}
NoSocket == [open |-> FALSE, ready |-> FALSE, timer |-> FALSE]
NoLine == [greeted |-> FALSE, ready |-> FALSE]
NoControl == [live |-> FALSE, assets |-> FALSE, loaded |-> FALSE]
NoReaders == [s \in Pairs |-> "none"]

BridgeTypeOK ==
    /\ wanted \subseteq Pairs
    /\ node \in [open : BOOLEAN, ready : BOOLEAN, timer : BOOLEAN]
    /\ line \in [greeted : BOOLEAN, ready : BOOLEAN]
    /\ frames \in Seq([sub : BOOLEAN, sym : Pairs])
    /\ asking \subseteq [sym : Pairs, old : BOOLEAN, refreshing : BOOLEAN]
    /\ running \in BOOLEAN /\ broker \in BOOLEAN
    /\ control \in [live : BOOLEAN, assets : BOOLEAN, loaded : BOOLEAN]
    /\ session \in [cred : {"absent", "bad", "good"}, fresh : BOOLEAN, stopped : BOOLEAN,
                    reload : {"no", "connect", "refresh"}]
    /\ reader \in [Pairs -> ReaderStates]
    /\ subs \subseteq Pairs /\ own \subseteq Pairs \ {Primary}
    /\ dynamic \subseteq Pairs /\ parked \subseteq Pairs /\ refused \subseteq Pairs
    /\ bounds \in [asks : 0..MaxAsks, upsets : 0..MaxUpsets]

BridgeInit ==
    /\ wanted = {} /\ node = NoSocket /\ line = NoLine /\ frames = <<>>
    /\ asking = {} /\ running = FALSE /\ control = NoControl
    /\ session \in [cred : {"absent", "bad", "good"}, fresh : {FALSE}, stopped : {FALSE},
                    reload : {"no"}]
    /\ reader = NoReaders /\ subs = {} /\ own = {} /\ dynamic = {} /\ parked = {}
    /\ broker \in BOOLEAN /\ refused = {}
    /\ bounds = [asks |-> MaxAsks, upsets |-> MaxUpsets]

Upset == bounds.upsets > 0 /\ bounds' = [bounds EXCEPT !.upsets = @ - 1]
Asks == bounds.asks > 0 /\ bounds' = [bounds EXCEPT !.asks = @ - 1]

-----------------------------------------------------------------------------
(* The client of core-backend.                                                 *)

(* flushStagedSubscriptions *)
Flush(staged) ==
    \E order \in SetToSeqs(staged) :
        frames' = frames \o [i \in DOMAIN order |-> [sub |-> TRUE, sym |-> order[i]]]

(* requestSymbolSubscription *)
Want(s) ==
    /\ Asks
    /\ wanted' = wanted \cup {s}
    /\ IF node.ready THEN Flush(wanted') ELSE UNCHANGED frames
    /\ UNCHANGED <<node, line, asking, running, control, session, readers, broker, refused>>

(* requestSymbolUnsubscription *)
Leave(s) ==
    /\ s \in wanted /\ Asks
    /\ wanted' = wanted \ {s}
    /\ frames' = IF node.open THEN Append(frames, [sub |-> FALSE, sym |-> s]) ELSE frames
    /\ UNCHANGED <<node, line, asking, running, control, session, readers, broker, refused>>

(* The socket opens, and the relay has registered it.  The fallback is armed   *)
(* only if something is staged.                                                *)
SocketOpens ==
    /\ running /\ ~node.open
    /\ node' = [open |-> TRUE, ready |-> FALSE, timer |-> wanted # {}]
    /\ refused' = {}
    /\ UNCHANGED <<wanted, line, frames, asking, running, control, session, readers, broker, bounds>>

(* mutant: what was staged waits for a later subscribe *)
ReadyWithoutFlush ==
    /\ node.open /\ line.ready
    /\ line' = [line EXCEPT !.ready = FALSE]
    /\ node' = [node EXCEPT !.ready = TRUE, !.timer = FALSE]
    /\ UNCHANGED <<wanted, frames, asking, running, control, session, readers, broker, refused, bounds>>

(* handleReady *)
HandleReady ==
    /\ node.open /\ line.ready
    /\ line' = [line EXCEPT !.ready = FALSE]
    /\ node' = [node EXCEPT !.ready = TRUE, !.timer = FALSE]
    /\ IF node.ready THEN UNCHANGED frames ELSE Flush(wanted)
    /\ UNCHANGED <<wanted, asking, running, control, session, readers, broker, refused, bounds>>

(* armReadinessFallback's timer *)
FallbackElapses ==
    /\ node.timer
    /\ node' = [node EXCEPT !.ready = TRUE, !.timer = FALSE]
    /\ Flush(wanted)
    /\ UNCHANGED <<wanted, line, asking, running, control, session, readers, broker, refused, bounds>>

(* The socket closes: what was on its way is lost.                             *)
Severed ==
    /\ node' = NoSocket /\ line' = NoLine /\ frames' = <<>>
    /\ UNCHANGED wanted

(* A handler that awaits the bridge goes on without its socket.                *)
SocketDrops ==
    /\ node.open /\ Upset
    /\ Severed
    /\ asking' = {[a EXCEPT !.old = TRUE] : a \in asking}
    /\ UNCHANGED <<running, control, session, readers, broker, refused>>

-----------------------------------------------------------------------------
(* The control client and the session.                                         *)

(* _spawn_reader: a pair has one task at most.                                 *)
Spawned(r, set) == [s \in Pairs |-> IF s \in set /\ r[s] = "none" THEN "wait" ELSE r[s]]

(* mutant: the pairs browsers asked for are not armed again *)
ConnectsAlone(r) ==
    /\ broker /\ session.cred = "good" /\ reader' = r
    /\ control' = [live |-> TRUE, assets |-> TRUE, loaded |-> TRUE]
    /\ line' = [line EXCEPT !.ready = @ \/ (node.open /\ ~control.assets)]

(* What _ensure_connected may come to, for a caller that leaves the readers r: *)
(* it connects, broadcasts `ready` unless that was done, and arms the pairs    *)
(* browsers asked for again;                                                   *)
Connects(r) ==
    /\ broker /\ session.cred = "good" /\ reader' = Spawned(r, dynamic)
    /\ control' = [live |-> TRUE, assets |-> TRUE, loaded |-> TRUE]
    /\ line' = [line EXCEPT !.ready = @ \/ (node.open /\ ~control.assets)]

(* it is connected;                                                            *)
Connected(r) == control.live /\ control.assets /\ reader' = r /\ UNCHANGED <<control, line>>

(* its registry is still empty;                                                *)
Unlisted ==
    /\ ~control.assets /\ ~control.loaded
    /\ control.live \/ (broker /\ session.cred = "good")
    /\ control' = [control EXCEPT !.live = TRUE] /\ UNCHANGED line

(* nothing answers, or there is nothing to connect with;                       *)
Unreached == ~control.live /\ (~broker \/ session.cred = "absent") /\ UNCHANGED <<control, line>>

(* or the session is rejected (_enter_session_expired).                        *)
Rejects == ~control.live /\ broker /\ session.cred = "bad" /\ UNCHANGED <<control, line>>
Rejected == Rejects /\ session' = [session EXCEPT !.stopped = TRUE]

(* _connect_lock is held during the refresh.                                   *)
Locked ==
    \/ session.reload = "refresh" \/ \E a \in asking : a.refreshing
    \/ \E s \in Pairs : reader[s] = "refresh"

(* _run_refresh_once fails, or the new session is adopted; it is also written  *)
(* to the file, unless that is mounted read-only, as it is in a container.     *)
Refreshes(old) ==
    \/ session' = old
    \/ \E written \in BOOLEAN :
        session' = [old EXCEPT !.cred = "good", !.fresh = @ \/ written, !.stopped = FALSE]
Refreshed == Refreshes(session)

ReaderRefreshes(s) ==
    /\ reader[s] \in {"refresh", "giveup"}
    /\ Refreshed
    /\ reader' = [reader EXCEPT ![s] = IF @ = "refresh" THEN "wait" ELSE "none"]
    /\ UNCHANGED <<ends, asking, running, control, subs, own, dynamic, parked, broker, refused, bounds>>

(* Somebody captures a session.                                                *)
Capture ==
    /\ session.cred # "good"
    /\ session' = [session EXCEPT !.cred = "good", !.fresh = running]
    /\ UNCHANGED <<ends, asking, running, control, readers, broker, refused, bounds>>

(* _refresh_loop, and the refresh at startup, when they change anything.       *)
RefreshLoop ==
    /\ running /\ session.cred # "absent" /\ Upset
    /\ Refreshed /\ session' # session
    /\ UNCHANGED <<ends, asking, running, control, readers, broker, refused>>

(* _watch_session_file: whatever the broker does, every reader and client is    *)
(* torn down;                                                                  *)
Reload ==
    /\ running /\ session.fresh /\ session.reload = "no"
    /\ session' = [session EXCEPT !.fresh = FALSE, !.stopped = FALSE, !.reload = "connect"]
    /\ reader' = NoReaders /\ subs' = {} /\ own' = {} /\ control' = NoControl
    /\ UNCHANGED <<ends, asking, running, dynamic, parked, broker, refused, bounds>>

(* then it connects, when it has the lock, and if the bridge is connected now   *)
(* the configured reader is started as well; or it is rejected;                *)
Rejoin ==
    /\ session.reload = "connect" /\ ~Locked
    /\ LET going == Spawned(reader, {Primary})
           over == session' = [session EXCEPT !.reload = "no"]
       IN \/ over /\ Connected(going)
          \/ over /\ ~(control.live /\ control.assets) /\ Connects(going)
          \/ over /\ Unlisted /\ reader' = going
          \/ over /\ Unreached /\ UNCHANGED reader
          \/ /\ Rejects /\ UNCHANGED reader
             /\ session' = [session EXCEPT !.stopped = TRUE, !.reload = "refresh"]
    /\ UNCHANGED <<wanted, node, frames, asking, running, subs, own, dynamic, parked, broker, refused, bounds>>

(* and whatever its refresh comes to, it is not connected.                     *)
ReloadRefreshes ==
    /\ session.reload = "refresh" /\ Refreshes([session EXCEPT !.reload = "no"])
    /\ UNCHANGED <<ends, asking, running, control, readers, broker, refused, bounds>>

-----------------------------------------------------------------------------
(* The relay's handler of one socket, and request_subscription.                *)

(* After the snapshots, a newcomer is told `ready` if the bridge is.           *)
Greet ==
    /\ node.open /\ ~line.greeted
    /\ line' = [greeted |-> TRUE, ready |-> line.ready \/ control.assets]
    /\ UNCHANGED <<wanted, node, frames, asking, running, control, session, readers, broker, refused, bounds>>

(* The clients that count against the budget, with those reserved.             *)
Secondaries == own \cup {s \in Pairs : reader[s] = "shake"}

(* _live_stream_slots_available *)
HasSlot(s) ==
    \/ s = Primary \/ s \in own \/ reader[s] # "none"
    \/ Cardinality(Secondaries) < Slots \/ own \ {s} # {}

(* A subscribe is refused, or confirmed, or in need of a connection.           *)
TakeSubscribe ==
    /\ line.greeted /\ frames # <<>> /\ frames[1].sub /\ \A a \in asking : a.old
    /\ frames' = Tail(frames)
    /\ LET s == frames[1].sym
           hopeless == session.cred = "absent" \/ (s \notin subs /\ ~HasSlot(s))
       IN /\ refused' = IF hopeless THEN refused \cup {s} ELSE refused \ {s}
          /\ asking' = IF hopeless \/ s \in subs THEN asking
                       ELSE asking \cup {[sym |-> s, old |-> FALSE, refreshing |-> FALSE]}
    /\ UNCHANGED <<wanted, node, line, running, control, session, readers, broker, bounds>>

(* The rest of request_subscription.  Unless the control client lives, it      *)
(* needs the lock.                                                             *)
Armed(a) ==
    /\ \/ Connected(Spawned(reader, {a.sym}))
       \/ ~control.live /\ ~Locked /\ Connects(Spawned(reader, {a.sym}))
    /\ dynamic' = dynamic \cup {a.sym} /\ parked' = parked \ {a.sym}
    /\ asking' = asking \ {a} /\ UNCHANGED <<session, refused>>

NotArmed(a) ==
    /\ Unlisted \/ Unreached
    /\ control.live \/ ~Locked
    /\ asking' = asking \ {a} /\ refused' = refused \cup {a.sym}
    /\ UNCHANGED <<session, reader, dynamic, parked>>

Expired(a) ==
    /\ ~Locked /\ Rejected
    /\ asking' = (asking \ {a}) \cup {[a EXCEPT !.refreshing = TRUE]}
    /\ UNCHANGED <<refused, reader, dynamic, parked>>

AnswerSubscribe(a) ==
    /\ a \in asking /\ ~a.refreshing /\ (Armed(a) \/ NotArmed(a) \/ Expired(a))
    /\ UNCHANGED <<wanted, node, frames, running, subs, own, broker, bounds>>

(* Whatever the refresh came to, the bridge is not connected.                  *)
AnswerExpired(a) ==
    /\ a \in asking /\ a.refreshing /\ Refreshed
    /\ asking' = asking \ {a} /\ refused' = refused \cup {a.sym}
    /\ UNCHANGED <<ends, running, control, readers, broker, bounds>>

(* _release_reader_client *)
Released(s) ==
    /\ subs' = subs \ {s} /\ own' = own \ {s}
    /\ control' = IF s = Primary THEN [control EXCEPT !.live = FALSE, !.assets = FALSE] ELSE control

(* request_unsubscription: a pair no browser armed is left alone.              *)
TakeUnsubscribe ==
    /\ line.greeted /\ frames # <<>> /\ ~frames[1].sub /\ \A a \in asking : a.old
    /\ frames' = Tail(frames)
    /\ LET s == frames[1].sym
       IN IF s \in dynamic
          THEN /\ Released(s) /\ reader' = [reader EXCEPT ![s] = "none"]
               /\ dynamic' = dynamic \ {s} /\ UNCHANGED parked
          ELSE UNCHANGED <<readers, control>>
    /\ UNCHANGED <<wanted, node, line, asking, running, session, broker, refused, bounds>>

-----------------------------------------------------------------------------
(* The readers.                                                                *)

Go(s, state) == reader' = [reader EXCEPT ![s] = state]

(* The loop begins again: it ends if retries are stopped, else it needs a      *)
(* connection, and waits again if there is none.                               *)
Wake(s) ==
    /\ reader[s] = "wait"
    /\ \/ session.stopped /\ Go(s, "none") /\ UNCHANGED <<line, control, session>>
       \/ /\ ~session.stopped /\ ~Locked
          /\ LET going == [reader EXCEPT ![s] = "get"]
             IN \/ Connected(going) /\ UNCHANGED session
                \/ ~(control.live /\ control.assets) /\ Connects(going) /\ UNCHANGED session
                \/ (Unlisted \/ Unreached) /\ UNCHANGED <<reader, session>>
                \/ Rejected /\ Go(s, "refresh")
    /\ UNCHANGED <<wanted, node, frames, asking, running, subs, own, dynamic, parked, broker, refused, bounds>>

Streams(s) == Go(s, "stream") /\ subs' = subs \cup {s} /\ parked' = parked \ {s}

(* The primary pair streams on the control client; if that has gone it is      *)
(* dropped, and if the broker does not answer the reader tries again.          *)
GetPrimary ==
    /\ reader[Primary] = "get"
    /\ \/ control.live /\ broker /\ Streams(Primary) /\ UNCHANGED <<own, control>>
       \/ control.live /\ ~broker /\ Go(Primary, "wait") /\ UNCHANGED <<subs, own, parked, control>>
       \/ ~control.live /\ Go(Primary, "wait") /\ Released(Primary) /\ UNCHANGED parked
    /\ UNCHANGED <<ends, asking, running, session, dynamic, broker, refused, bounds>>

(* A client that lives is used again; a dead one is dropped first.             *)
UseOwn(s) == s \in own /\ broker /\ Streams(s) /\ UNCHANGED own

Reserve(s) == Go(s, "shake") /\ own' = own \ {s} /\ UNCHANGED <<subs, parked>>

(* _evict_lru_reader, of the pair active longest ago: any, as the times of     *)
(* ticks are left out.                                                         *)
Evict(s, v) ==
    /\ reader' = [reader EXCEPT ![v] = "none", ![s] = "shake"]
    /\ subs' = subs \ {v} /\ own' = own \ {s, v} /\ parked' = parked \cup {v}

(* ReaderCapReached *)
Park(s) == Go(s, "none") /\ own' = own \ {s} /\ parked' = parked \cup {s} /\ UNCHANGED subs

(* mutant: a handshake under way does not count against the budget *)
GetClientUnreserved(s) ==
    /\ s # Primary /\ reader[s] = "get"
    /\ LET others == own \ {s}
       IN \/ UseOwn(s)
          \/ Cardinality(others) < Slots /\ Reserve(s)
          \/ Cardinality(others) >= Slots /\ \E v \in others : Evict(s, v)
          \/ Cardinality(others) >= Slots /\ others = {} /\ Park(s)
    /\ UNCHANGED <<ends, asking, running, control, session, dynamic, broker, refused, bounds>>

(* mutant: the primary pair takes a client of its own *)
GetClientAny(s) ==
    /\ reader[s] = "get" /\ Cardinality(Secondaries \ {s}) < Slots /\ Reserve(s)
    /\ UNCHANGED <<ends, asking, running, control, session, dynamic, broker, refused, bounds>>

(* _ensure_reader_client *)
GetClient(s) ==
    /\ s # Primary /\ reader[s] = "get"
    /\ LET others == Secondaries \ {s}
       IN \/ UseOwn(s)
          \/ Cardinality(others) < Slots /\ Reserve(s)
          \/ Cardinality(others) >= Slots /\ \E v \in own \ {s} : Evict(s, v)
          \/ Cardinality(others) >= Slots /\ own \ {s} = {} /\ Park(s)
    /\ UNCHANGED <<ends, asking, running, control, session, dynamic, broker, refused, bounds>>

(* The client of its own connects and subscribes, or the reader backs off.     *)
Shake(s) ==
    /\ reader[s] = "shake"
    /\ IF broker /\ session.cred = "good"
       THEN Streams(s) /\ own' = own \cup {s} /\ UNCHANGED control
       ELSE Go(s, "wait") /\ Released(s) /\ UNCHANGED parked
    /\ UNCHANGED <<ends, asking, running, session, dynamic, broker, refused, bounds>>

(* A stream falls silent.                                                      *)
Silence(s) ==
    /\ reader[s] = "stream" /\ Upset /\ Go(s, "silent")
    /\ UNCHANGED <<ends, asking, running, control, session, subs, own, dynamic, parked, broker, refused>>

(* A silent stream crashes or is recycled by the watchdog, which spawns no     *)
(* reader while retries are stopped; or it ends in order, and the loop begins  *)
(* again with what it holds; or silence is taken for a rejected session.       *)
Recycle(s) ==
    /\ reader[s] = "silent"
    /\ \/ Released(s) /\ Go(s, IF session.stopped THEN "none" ELSE "wait") /\ UNCHANGED session
       \/ Go(s, "wait") /\ UNCHANGED <<subs, own, control, session>>
       \/ /\ Go(s, "giveup") /\ session' = [session EXCEPT !.stopped = TRUE]
          /\ UNCHANGED <<subs, own, control>>
    /\ UNCHANGED <<ends, asking, running, dynamic, parked, broker, refused, bounds>>

-----------------------------------------------------------------------------
(* The world.                                                                  *)

(* The bridge is spawned; its configured reader starts if there is a session.  *)
Boot ==
    /\ ~running /\ running' = TRUE
    /\ reader' = IF session.cred = "absent" THEN NoReaders ELSE Spawned(NoReaders, {Primary})
    /\ UNCHANGED <<ends, asking, control, session, subs, own, dynamic, parked, broker, refused, bounds>>

BridgeCrashes ==
    /\ running /\ Upset
    /\ running' = FALSE /\ asking' = {} /\ control' = NoControl
    /\ session' = [session EXCEPT !.fresh = FALSE, !.stopped = FALSE, !.reload = "no"]
    /\ reader' = NoReaders /\ subs' = {} /\ own' = {} /\ dynamic' = {} /\ parked' = {}
    /\ Severed
    /\ UNCHANGED <<broker, refused>>

(* Every stream falls silent; the sockets close, or seem to be open until the  *)
(* broker is back.                                                             *)
BrokerFalls ==
    /\ broker /\ Upset
    /\ broker' = FALSE
    /\ control' \in {control, [control EXCEPT !.live = FALSE]}
    /\ reader' = [s \in Pairs |-> IF reader[s] = "stream" THEN "silent" ELSE reader[s]]
    /\ UNCHANGED <<ends, asking, running, session, subs, own, dynamic, parked, refused>>

BrokerReturns ==
    /\ ~broker /\ broker' = TRUE
    /\ control' = [control EXCEPT !.live = FALSE]
    /\ UNCHANGED <<ends, asking, running, session, readers, refused, bounds>>

(* The session is rejected when it is used the next time.                      *)
SessionExpires ==
    /\ session.cred = "good" /\ ~session.fresh /\ Upset
    /\ session' = [session EXCEPT !.cred = "bad"]
    /\ UNCHANGED <<ends, asking, running, control, readers, broker, refused>>

(* What each process does by itself: the backend, the relay with its handlers, *)
(* a reader, and the watcher of the file and what keeps the bridge alive.      *)
Backend == SocketOpens \/ HandleReady \/ FallbackElapses
Relay == Greet \/ TakeSubscribe \/ TakeUnsubscribe
Handlers == \E a \in asking : AnswerSubscribe(a) \/ AnswerExpired(a)
Reading(s) ==
    \/ Wake(s) \/ GetClient(s) \/ Shake(s) \/ Recycle(s) \/ ReaderRefreshes(s)
    \/ s = Primary /\ GetPrimary
Keepers == Reload \/ Rejoin \/ ReloadRefreshes \/ Boot

BridgeNext ==
    \/ \E s \in Asked : Want(s) \/ Leave(s)
    \/ Backend \/ Relay \/ Handlers \/ Keepers
    \/ \E s \in Pairs : Reading(s) \/ Silence(s)
    \/ Capture \/ RefreshLoop \/ SocketDrops \/ BridgeCrashes \/ BrokerFalls \/ BrokerReturns \/ SessionExpires

(* The processes run on and timers fire; the broker comes back, and answers a  *)
(* client it lets in with its list in the end.                                 *)
BridgeFairness ==
    /\ WF_bridgeVars(Backend) /\ WF_bridgeVars(Relay) /\ WF_bridgeVars(Handlers)
    /\ WF_bridgeVars(Keepers) /\ WF_bridgeVars(BrokerReturns)
    /\ \A s \in Pairs : WF_bridgeVars(Reading(s) /\ reader'[s] # reader[s])

BridgeSpec == BridgeInit /\ [][BridgeNext]_bridgeVars /\ BridgeFairness

-----------------------------------------------------------------------------
(* Clients of other pairs, those that are connecting among them, never exceed  *)
(* the budget beyond which the venue throttles every login.                    *)
BudgetKept == Cardinality(Secondaries) <= Slots

(* While the bridge is ready, whatever browsers want is answered in the end:   *)
(* no subscribe stays staged or is lost with its socket.                       *)
WantedIsAnswered ==
    \A s \in Asked : s \in wanted ~>
        (s \notin wanted \/ s \in refused \cup dynamic \cup subs \/ ~control.assets)

(* Who will start the reader of an armed pair again: itself, while it goes on;  *)
(* another that is about to connect; or the watcher of the session file.       *)
Attended(s) ==
    \/ reader[s] \notin {"none", "giveup"}
    \/ /\ reader[s] = "none" /\ ~control.assets
       /\ session.reload = "connect" \/ \E r \in Pairs : reader[r] = "wait"
    \/ session.fresh

(* After crashes, silences, outages, refreshes and reloads in any order, an    *)
(* attended pair that browsers armed streams again, unless it was left or lost  *)
(* its slot, or the session is rejected, or a reload found the broker away and *)
(* no reader is left at all.  (Those two are not "keeping readers armed for    *)
(* retry" and "only a successful refresh re-arms the bridge": a pair that is    *)
(* not attended waits for a subscribe.)                                        *)
ArmedComesBack ==
    \A s \in Asked : s \in dynamic /\ Attended(s) ~>
        \/ reader[s] = "stream" \/ s \notin dynamic \/ s \in parked
        \/ session.stopped \/ session.cred # "good"
        \/ session.reload = "no" /\ \A r \in Pairs : reader[r] = "none"

(* A pair that browsers want is armed once a valid session and the broker are  *)
(* there ("the backend re-sends staged subscribes on `ready`").                *)
WantedIsArmed ==
    \A s \in Asked : s \in wanted ~>
        (s \notin wanted \/ s \in dynamic \cup subs \/ session.stopped \/ session.cred # "good")
=============================================================================
