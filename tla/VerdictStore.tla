----------------------------- MODULE VerdictStore ------------------------------
(***************************************************************************)
(* The verdict the panel shows, and the /predict requests behind it        *)
(* (client-app store/useTradingStore.ts, lib/signalLock.ts).               *)
(*                                                                         *)
(* The operator selects a symbol, a frame (the AI channel a chart frame is *)
(* coerced to) and a horizon.  A request is identified by these three; at  *)
(* most one of a key is under way, only the newest of all of them is       *)
(* listened to, and a recoverable failure arms a retry timer of its key.   *)
(* Dispatches come over the socket meanwhile, and a confident one commits  *)
(* its direction in a lock of one slot until the expiry.                   *)
(*                                                                         *)
(* The debounce of 5 seconds and the expiry of the lock are time left open *)
(* to chance; the expiry selected and the filters that are also part of a  *)
(* key are left alone.                                                     *)
(***************************************************************************)
EXTENDS Naturals

CONSTANTS
    Symbols, Frames, Horizons,
    Daily,          \* the frame a signal widget asks for
    MaxChoices      \* bound on the choices of the operator

ASSUME VerdictAssumption == Daily \in Frames /\ MaxChoices \in Nat

VARIABLES
    active, frame, horizon,     \* what is selected
    fetches,    \* requests: under way, the newest, the timers, the two flags
    shown,      \* predictionData
    snaps,      \* predictionBySymbol
    lock,       \* signalLock
    choices     \* number of choices made

storeVars == <<active, frame, horizon, fetches, shown, snaps, lock, choices>>

Nothing == [sym |-> "none"]
Unsynced == "raw"       \* a verdict that only dispatches made names a chart frame

Keys == Symbols \X Frames \X Horizons
Dirs == {"BUY", "SELL"}
Verdict == [sym : Symbols, frame : Frames \cup {Unsynced}, dir : Dirs]
Locked == [sym : Symbols, horizon : Horizons, dir : Dirs]

Fetches == [inFlight : SUBSET Keys,         \* predictionInFlight
            newest : Keys \cup {Nothing},   \* the request of _lastRequestId
            retries : SUBSET Keys,          \* predictionRetryTimers
            loading : BOOLEAN,              \* isLoading
            waiting : BOOLEAN]              \* quoteStreamWaiting

Selected == <<active, frame, horizon>>

StoreTypeOK ==
    /\ active \in Symbols /\ frame \in Frames /\ horizon \in Horizons
    /\ fetches \in Fetches
    /\ shown \in Verdict \cup {Nothing}
    /\ snaps \in [Symbols -> Verdict \cup {Nothing}]
    /\ lock \in Locked \cup {Nothing}
    /\ choices \in 0..MaxChoices

StoreInit ==
    /\ active \in Symbols /\ frame \in Frames /\ horizon \in Horizons
    /\ fetches = [inFlight |-> {}, newest |-> Nothing, retries |-> {},
                  loading |-> FALSE, waiting |-> FALSE]
    /\ shown = Nothing
    /\ snaps = [s \in Symbols |-> Nothing]
    /\ lock = Nothing
    /\ choices = 0

-----------------------------------------------------------------------------
(* mutant: the spinner is set before the request is shared *)
AskSpinning(f, k, skipped) ==
    IF k \in f.inFlight THEN [f EXCEPT !.loading = TRUE]
    ELSE IF skipped THEN [f EXCEPT !.loading = @ /\ f.inFlight # {}]
    ELSE [inFlight |-> f.inFlight \cup {k}, newest |-> k,
          retries |-> f.retries \ {k}, loading |-> TRUE, waiting |-> FALSE]

(* getPrediction, up to its first await.  A caller whose key is under way      *)
(* shares that request; a skipped one began less than 5 seconds after the last *)
(* of its key, and is not forced.                                              *)
Ask(f, k, skipped) ==
    CASE k \in f.inFlight -> f
      [] k \notin f.inFlight /\ skipped ->
            [f EXCEPT !.loading = @ /\ f.inFlight # {}]
      [] OTHER ->
            [inFlight |-> f.inFlight \cup {k}, newest |-> k,
             retries |-> f.retries \ {k}, loading |-> TRUE, waiting |-> FALSE]

Chooses == choices < MaxChoices /\ choices' = choices + 1

(* setActiveSymbol.  The snapshot of the symbol comes back if it is of the     *)
(* frame selected.  The timer it clears is of a key that none has: the key is  *)
(* made of the chart frame, and timers are of the channel.                     *)
Activate(s) ==
    /\ Chooses
    /\ active' = s
    /\ shown' = IF snaps[s] # Nothing /\ snaps[s].frame = frame
                THEN snaps[s] ELSE Nothing
    /\ lock' = Nothing
    /\ UNCHANGED <<frame, horizon, snaps>>

SelectSymbol(s) ==
    /\ Activate(s)
    /\ fetches' = Ask([fetches EXCEPT !.waiting = FALSE], <<s, frame, horizon>>, FALSE)

(* A click on a signal widget: setActiveSymbol, then a request of the day frame. *)
OpenWidget(s) ==
    /\ Activate(s)
    /\ \E skipped \in BOOLEAN :
        fetches' = Ask(Ask([fetches EXCEPT !.waiting = FALSE],
                           <<s, frame, horizon>>, FALSE),
                       <<s, Daily, horizon>>, skipped)

RejectSymbol ==
    /\ fetches' = [fetches EXCEPT !.loading = FALSE]
    /\ UNCHANGED <<active, frame, horizon, shown, snaps, lock, choices>>

(* setSelectedTimeframe *)
SelectFrame(fr) ==
    /\ Chooses
    /\ frame' = fr
    /\ shown' = Nothing
    /\ fetches' = Ask([fetches EXCEPT !.retries = @ \ {Selected}, !.waiting = FALSE],
                      <<active, fr, horizon>>, FALSE)
    /\ UNCHANGED <<active, horizon, snaps, lock>>

(* setSelectedHorizonMinutes *)
SelectHorizon(h) ==
    /\ h # horizon
    /\ Chooses
    /\ horizon' = h
    /\ shown' = Nothing
    /\ lock' = Nothing
    /\ fetches' = Ask([fetches EXCEPT !.retries = @ \ {Selected}],
                      <<active, frame, h>>, FALSE)
    /\ UNCHANGED <<active, frame, snaps>>

(* A candle closes, the socket reconnects or the page asks.                    *)
AskAgain ==
    /\ \E skipped \in BOOLEAN : fetches' = Ask(fetches, Selected, skipped)
    /\ UNCHANGED <<active, frame, horizon, shown, snaps, lock, choices>>

-----------------------------------------------------------------------------
(* mutant: the retry does not forget when its key was last asked *)
FireRetryDebounced(k) ==
    /\ k \in fetches.retries
    /\ LET f == [fetches EXCEPT !.retries = @ \ {k}]
       IN fetches' = IF active = k[1] THEN Ask(f, Selected, TRUE) ELSE f
    /\ UNCHANGED <<active, frame, horizon, shown, snaps, lock, choices>>

(* The retry timer of a key, which the debounce does not hold back.            *)
FireRetry(k) ==
    /\ k \in fetches.retries
    /\ LET f == [fetches EXCEPT !.retries = @ \ {k}]
       IN fetches' = IF active = k[1] THEN Ask(f, Selected, FALSE) ELSE f
    /\ UNCHANGED <<active, frame, horizon, shown, snaps, lock, choices>>

(* signalLock.current: the lock of a symbol under the horizon selected.        *)
HeldFor(s) == lock # Nothing /\ lock.sym = s /\ lock.horizon = horizon

Ended(k) == [fetches EXCEPT !.inFlight = @ \ {k}]

Superseded(k) ==
    /\ k \in fetches.inFlight /\ k # fetches.newest
    /\ fetches' = Ended(k)
    /\ UNCHANGED <<active, frame, horizon, shown, snaps, lock, choices>>

(* mutant: the answer does not read the lock *)
AnswerOverLock(k) ==
    /\ k \in fetches.inFlight /\ k = fetches.newest
    /\ \E dir \in Dirs :
        LET verdict == [sym |-> k[1], frame |-> k[2], dir |-> dir]
        IN shown' = verdict /\ snaps' = [snaps EXCEPT ![k[1]] = verdict]
    /\ fetches' = [Ended(k) EXCEPT !.loading = FALSE, !.waiting = FALSE,
                                   !.retries = @ \ {k}]
    /\ UNCHANGED <<active, frame, horizon, lock, choices>>

Answer(k) ==
    /\ k \in fetches.inFlight /\ k = fetches.newest
    /\ \E dir \in Dirs :
        LET verdict == [sym |-> k[1], frame |-> k[2],
                        dir |-> IF HeldFor(k[1]) THEN lock.dir ELSE dir]
        IN shown' = verdict /\ snaps' = [snaps EXCEPT ![k[1]] = verdict]
    /\ fetches' = [Ended(k) EXCEPT !.loading = FALSE, !.waiting = FALSE,
                                   !.retries = @ \ {k}]
    /\ UNCHANGED <<active, frame, horizon, lock, choices>>

(* 503, 429, a timeout, no connection: schedulePredictionRetry.                *)
FailForNow(k) ==
    /\ k \in fetches.inFlight /\ k = fetches.newest
    /\ fetches' = [Ended(k) EXCEPT !.loading = FALSE, !.waiting = TRUE,
                                   !.retries = @ \cup {k}]
    /\ UNCHANGED <<active, frame, horizon, shown, snaps, lock, choices>>

FailForGood(k) ==
    /\ k \in fetches.inFlight /\ k = fetches.newest
    /\ fetches' = [Ended(k) EXCEPT !.loading = FALSE, !.waiting = FALSE,
                                   !.retries = @ \ {k}]
    /\ UNCHANGED <<active, frame, horizon, shown, snaps, lock, choices>>

-----------------------------------------------------------------------------
(* applyLiveSignal of the active symbol (the others are not applied): a held   *)
(* lock gives its direction, else a confident dispatch with a price commits    *)
(* its own.  The verdict shown is merged with, its symbol and frame included.  *)
Dispatch ==
    \E dir \in Dirs, commits \in BOOLEAN :
        LET told == IF HeldFor(active) THEN lock.dir ELSE dir
            merged == IF shown # Nothing THEN [shown EXCEPT !.dir = told]
                      ELSE [sym |-> active, frame |-> Unsynced, dir |-> told]
        IN /\ shown' = merged
           /\ snaps' = [snaps EXCEPT ![active] = merged]
           /\ lock' = IF commits /\ ~HeldFor(active)
                      THEN [sym |-> active, horizon |-> horizon, dir |-> dir]
                      ELSE lock
           /\ UNCHANGED <<active, frame, horizon, fetches, choices>>

(* A dispatch that only waits renews the snapshot of what is shown.            *)
DispatchWaiting ==
    /\ shown # Nothing
    /\ snaps' = [snaps EXCEPT ![active] = shown]
    /\ UNCHANGED <<active, frame, horizon, fetches, shown, lock, choices>>

LockMatures ==
    /\ lock # Nothing /\ lock' = Nothing
    /\ UNCHANGED <<active, frame, horizon, fetches, shown, snaps, choices>>

StoreNext ==
    \/ \E s \in Symbols : SelectSymbol(s) \/ OpenWidget(s)
    \/ \E fr \in Frames : SelectFrame(fr)
    \/ \E h \in Horizons : SelectHorizon(h)
    \/ RejectSymbol
    \/ AskAgain
    \/ \E k \in Keys :
        \/ FireRetry(k) \/ Superseded(k)
        \/ Answer(k) \/ FailForNow(k) \/ FailForGood(k)
    \/ Dispatch \/ DispatchWaiting \/ LockMatures

StoreSpec == StoreInit /\ [][StoreNext]_storeVars

-----------------------------------------------------------------------------
(* While a direction is committed for what is selected, the panel shows no     *)
(* other of that symbol, whichever of the socket and /predict wrote last.      *)
(* (store/__tests__/predictVsSocketLock.dom.test.tsx)                          *)
LockedVerdictShown ==
    HeldFor(active) /\ shown # Nothing /\ shown.sym = active => shown.dir = lock.dir

(* A spinner is owed by a request that is still under way and that will be     *)
(* listened to: it never turns for ever because the answer was dropped.        *)
SpinnerIsOwed == fetches.loading => fetches.newest \in fetches.inFlight

(* The banner "waiting for live asset stream" of the request that is selected  *)
(* is never left without the timer that will ask again, and the attempts of a  *)
(* key form one chain: none is asked and waited for at once.                   *)
WaitingIsRetried ==
    /\ fetches.waiting /\ fetches.newest = Selected => Selected \in fetches.retries
    /\ fetches.retries \cap fetches.inFlight = {}

(* "A committed verdict belongs to the pair it was graded for" (line 1148): the *)
(* panel never shows the verdict of another symbol than the active one.         *)
VerdictOfActiveSymbol == shown # Nothing => shown.sym = active
=============================================================================
