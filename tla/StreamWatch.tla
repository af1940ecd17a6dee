------------------------------ MODULE StreamWatch ------------------------------
(***************************************************************************)
(* How a page of the client knows that its stream is alive: the clocks of  *)
(* frames received and the sweep of hooks/useWebSocket.ts, which shows a   *)
(* stalled stream, a stale price and a feed that is gone, and the watchdog *)
(* of hooks/useSocket.tsx, which replaces a connection that has died       *)
(* without a close: a half-open pipe, which socket.io is not taken to      *)
(* notice.  Time goes by in beats; a clock is an age in beats.             *)
(***************************************************************************)
EXTENDS Naturals, FiniteSetsExt

CONSTANTS
    PriceOld,       \* STALE_PRICE_MS
    TickOld,        \* STALL_MS of the hook
    StatusOld,      \* FEED_STATUS_STALE_MS
    HardAfter,      \* HARD_RECONNECT_MS
    PacketOld,      \* STALL_MS of the provider
    RetryOld,       \* PRIMARY_RETRY_MS
    WatchEvery,     \* LIVENESS_INTERVAL_MS, in sweeps
    MaxResets       \* bound: resets by the user, tabs shown again

ASSUME WatchAssumption ==
    /\ {PriceOld, TickOld, StatusOld, HardAfter, PacketOld, RetryOld, WatchEvery} \subseteq Nat \ {0}
    /\ MaxResets \in Nat

VARIABLES
    transport,  \* of the client: "on", "down"
    dead,       \* whether the connection has died without its knowledge
    age,        \* of the last frames; and of the onset of a stall
    shown,      \* what the page shows
    timers,     \* what is due in this beat
    resets

watchVars == <<transport, dead, age, shown, timers, resets>>

Clocks == {"tick", "price", "status", "packet", "onset"}
Eldest == 1 + Max({PriceOld, TickOld, StatusOld, HardAfter, PacketOld, RetryOld})
Older(n) == Min({n + 1, Eldest})
None == Eldest + 1                  \* an onset that is not set

Fresh(clocks) == [k \in Clocks |-> IF k \in clocks THEN 0 ELSE age[k]]

WatchTypeOK ==
    /\ transport \in {"on", "down"} /\ dead \in BOOLEAN
    /\ age \in [Clocks -> 0..None]
    /\ shown \in [stalled : BOOLEAN, stale : BOOLEAN, feed : {"live", "other", "disconnected"}]
    /\ timers \in [sweep : BOOLEAN, watch : 0..WatchEvery]
    /\ resets \in 0..MaxResets
    /\ transport = "down" => ~dead /\ ~shown.stalled /\ ~shown.stale

(* The hook's clocks start with the page; the provider's with the connection.    *)
WatchInit ==
    /\ transport = "down" /\ dead = FALSE
    /\ age = [k \in Clocks |-> IF k = "onset" THEN None ELSE 0]
    /\ shown = [stalled |-> FALSE, stale |-> FALSE, feed |-> "disconnected"]
    /\ timers = [sweep |-> FALSE, watch |-> WatchEvery]
    /\ resets = MaxResets

-----------------------------------------------------------------------------
(* The connection.                                                             *)

Unflagged == [shown EXCEPT !.stalled = FALSE, !.stale = FALSE]

(* A connection is contact: the clocks of ticks and prices start again, and so   *)
(* does the sweep; that of the feed's status does not.                         *)
Attach ==
    /\ transport = "down"
    /\ transport' = "on" /\ dead' = FALSE
    /\ age' = [Fresh({"tick", "price", "packet"}) EXCEPT !["onset"] = None]
    /\ shown' = Unflagged
    /\ timers' = [timers EXCEPT !.sweep = TRUE]
    /\ UNCHANGED resets

Goes(clocks) ==
    /\ transport' = "down" /\ dead' = FALSE
    /\ age' = Fresh(clocks) /\ shown' = Unflagged
    /\ timers' = [timers EXCEPT !.sweep = FALSE]

Closes ==
    /\ transport = "on" /\ Goes({})
    /\ UNCHANGED resets

Dies ==
    /\ transport = "on" /\ ~dead /\ dead' = TRUE
    /\ UNCHANGED <<transport, age, shown, timers, resets>>

(* The tab is shown again, or the network is back: forceReconnect.               *)
TabIsShown ==
    /\ resets > 0 /\ resets' = resets - 1
    /\ Goes({"packet"})

(* hardResetLiveData: disconnect, connect, and the marks are wiped.              *)
HardReset ==
    /\ resets > 0 /\ resets' = resets - 1
    /\ transport' = "down" /\ dead' = FALSE
    /\ age' = [Fresh({"tick", "price"}) EXCEPT !["onset"] = None]
    /\ shown' = Unflagged
    /\ timers' = [timers EXCEPT !.sweep = FALSE]

-----------------------------------------------------------------------------
(* Frames.  Each kind sets its clocks; the provider listens to other kinds than   *)
(* the hook.                                                                   *)

Stamps ==
    [live_tick |-> {"tick", "price", "packet"}, symbol_update |-> {"tick", "price"},
     new_signal |-> {"tick"}, history |-> {"tick", "price"},
     candle |-> {"packet"}, feed_status |-> {"status", "packet"}]

Receives == transport = "on" /\ ~dead

(* The ticks of `history` set the clock of prices, but leave the warning to the   *)
(* sweep.                                                                      *)
Frame(kind) ==
    /\ Receives
    /\ age' = IF "tick" \in Stamps[kind] THEN [Fresh(Stamps[kind]) EXCEPT !["onset"] = None]
              ELSE Fresh(Stamps[kind])
    /\ \E feed \in IF kind = "feed_status" THEN {"live", "other"} ELSE {shown.feed} :
        shown' = [stalled |-> shown.stalled /\ "tick" \notin Stamps[kind],
                  stale |-> shown.stale /\ (kind = "history" \/ "price" \notin Stamps[kind]),
                  feed |-> feed]
    /\ UNCHANGED <<transport, dead, timers, resets>>

-----------------------------------------------------------------------------
(* Time.                                                                       *)

Beat ==
    /\ ~timers.sweep /\ timers.watch > 0
    /\ age' = [k \in Clocks |-> IF age[k] = None THEN None ELSE Older(age[k])]
    /\ timers' = [sweep |-> transport = "on", watch |-> timers.watch - 1]
    /\ UNCHANGED <<transport, dead, shown, resets>>

(* The effect that runs when the flag changes: a stall is met by one soft         *)
(* recovery, another subscribe, and by a new connection if it began long ago.    *)
Recover(stalled, seen) ==
    LET onset == IF age["onset"] = None THEN 0 ELSE age["onset"]
    IN IF stalled /\ onset >= HardAfter
       THEN /\ transport' = "down" /\ dead' = FALSE
            /\ age' = [age EXCEPT !["onset"] = onset]
            /\ shown' = [seen EXCEPT !.stalled = FALSE, !.stale = FALSE]
       ELSE /\ shown' = seen
            /\ age' = [age EXCEPT !["onset"] = IF stalled THEN onset ELSE None]
            /\ UNCHANGED <<transport, dead>>

(* The sweep of the hook.                                                       *)
Sweep ==
    /\ timers.sweep
    /\ timers' = [timers EXCEPT !.sweep = FALSE]
    /\ LET stalled == age["tick"] > TickOld
           seen == [stalled |-> stalled, stale |-> age["price"] > PriceOld,
                    feed |-> IF age["status"] > StatusOld THEN "disconnected" ELSE shown.feed]
       IN IF stalled # shown.stalled THEN Recover(stalled, seen)
          ELSE shown' = seen /\ UNCHANGED <<transport, dead, age>>
    /\ UNCHANGED resets

(* mutant: the watchdog looks after connections that are down alone             *)
WatchDown ==
    /\ timers.watch = 0 /\ ~timers.sweep
    /\ age' = IF transport = "down" /\ age["packet"] > RetryOld THEN Fresh({"packet"}) ELSE age
    /\ timers' = [timers EXCEPT !.watch = WatchEvery]
    /\ UNCHANGED <<transport, dead, shown, resets>>

(* The watchdog of the provider.                                                *)
Watch ==
    /\ timers.watch = 0 /\ ~timers.sweep
    /\ IF age["packet"] > (IF transport = "on" THEN PacketOld ELSE RetryOld)
       THEN /\ transport' = "down" /\ dead' = FALSE
            /\ age' = Fresh({"packet"}) /\ shown' = Unflagged
       ELSE UNCHANGED <<transport, dead, age, shown>>
    /\ timers' = [timers EXCEPT !.watch = WatchEvery]
    /\ UNCHANGED resets

WatchNext ==
    \/ Attach \/ Closes \/ Dies \/ TabIsShown \/ HardReset
    \/ \E kind \in DOMAIN Stamps : Frame(kind)
    \/ Beat \/ Sweep \/ Watch

WatchFairness == WF_watchVars(Beat \/ Sweep \/ Watch)

WatchSpec == WatchInit /\ [][WatchNext]_watchVars /\ WatchFairness

-----------------------------------------------------------------------------
(* A connection that has died without a word is given up.                        *)
DeadLinkIsReplaced == dead ~> ~dead

(* And how soon: none is kept that has brought no packet for longer than the       *)
(* watchdog's limit and one of its rounds, however often the tab, the user or the  *)
(* sweep of the hook come in between.                                             *)
SilenceIsBounded ==
    transport = "on" => age["packet"] + timers.watch <= PacketOld + WatchEvery
=============================================================================
