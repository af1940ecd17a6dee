----------------------------- MODULE ClientProofs ------------------------------
(***************************************************************************)
(* Proofs about the client's verdict store, its trade panel and its market *)
(* page, for any symbols, frames, horizons, clicks, cards and refreshes.   *)
(*                                                                         *)
(* A retry timer cannot be lost to another request because the banner is   *)
(* only up while the newest request is over (part of Owed), which makes    *)
(* WaitingIsRetried inductive; the other invariants of the two are         *)
(* inductive once the types are known.  A batch of the market page that is *)
(* still asked for finds the cards as its post left them (Awaited), for no *)
(* click, and no change of tier, came between.                             *)
(***************************************************************************)
EXTENDS VerdictStore, TradePanel, MarketGrid, Integers, TLAPS

-----------------------------------------------------------------------------
(* The verdict store.                                                          *)

(* Nothing is no verdict and no lock: it has no direction. *)
LEMMA NothingApart == Nothing \notin Verdict /\ Nothing \notin Locked
<1>1. DOMAIN Nothing = {"sym"}
  BY DEF Nothing
<1>2. \A v \in Verdict : "dir" \in DOMAIN v
  BY DEF Verdict
<1>3. \A v \in Locked : "dir" \in DOMAIN v
  BY DEF Locked
<1> QED BY <1>1, <1>2, <1>3

(* The requests as they are owed: the spinner by one that is under way, the     *)
(* banner by one that is over; a key is waited for or asked, not both.          *)
Owed(f) ==
    /\ f.loading => f.newest \in f.inFlight
    /\ f.waiting => f.newest \notin f.inFlight
    /\ f.retries \cap f.inFlight = {}

Retried(f, selected) == f.waiting /\ f.newest = selected => selected \in f.retries

StoreInv == StoreTypeOK /\ Owed(fetches) /\ Retried(fetches, Selected) /\ LockedVerdictShown

(* Asking, shared, skipped or not, keeps all this... *)
LEMMA AskKeeps ==
  ASSUME NEW f \in Fetches, NEW k \in Keys, NEW skipped \in BOOLEAN, Owed(f)
  PROVE  /\ Ask(f, k, skipped) \in Fetches
         /\ Owed(Ask(f, k, skipped))
         /\ \A selected : Retried(f, selected) => Retried(Ask(f, k, skipped), selected)
<1>1. CASE k \in f.inFlight
  BY <1>1 DEF Ask
<1>2. CASE k \notin f.inFlight /\ skipped
  <2> DEFINE g == [f EXCEPT !.loading = @ /\ f.inFlight # {}]
  <2>1. Ask(f, k, skipped) = g
    BY <1>2 DEF Ask
  <2>2. g \in Fetches /\ Owed(g) /\ \A selected : Retried(f, selected) => Retried(g, selected)
    BY <1>2 DEF Fetches, Owed, Retried
  <2> QED BY <2>1, <2>2
<1>3. CASE k \notin f.inFlight /\ ~skipped
  BY <1>3 DEF Ask, Fetches, Owed, Retried
<1> QED BY <1>1, <1>2, <1>3

(* ...and a request that is asked, and not skipped, needs no timer. *)
LEMMA AskedIsRetried ==
  ASSUME NEW f \in Fetches, NEW k \in Keys, Owed(f)
  PROVE  Retried(Ask(f, k, FALSE), k)
<1>1. CASE k \in f.inFlight
  BY <1>1 DEF Ask, Owed, Retried
<1>2. CASE k \notin f.inFlight
  BY <1>2 DEF Ask, Retried
<1> QED BY <1>1, <1>2

(* An operator's choice of another symbol. *)
LEMMA ActivateKeeps ==
  ASSUME StoreInv, NEW s \in Symbols, SelectSymbol(s) \/ OpenWidget(s)
  PROVE  StoreInv'
<1> DEFINE f == [fetches EXCEPT !.waiting = FALSE]
           key == <<s, frame, horizon>>
           g == Ask(f, key, FALSE)
<1>1. f \in Fetches /\ Owed(f) /\ key \in Keys /\ <<s, Daily, horizon>> \in Keys
  BY VerdictAssumption DEF StoreInv, StoreTypeOK, Fetches, Owed, Keys, VerdictAssumption
<1>2. Activate(s) /\ Selected' = key
  BY DEF SelectSymbol, OpenWidget, Activate, Selected
<1>3. g \in Fetches /\ Owed(g) /\ Retried(g, key)
  <2> HIDE DEF f, key
  <2> QED BY <1>1, AskKeeps, AskedIsRetried
<1>4. fetches' = g \/ \E skipped \in BOOLEAN : fetches' = Ask(g, <<s, Daily, horizon>>, skipped)
  BY DEF SelectSymbol, OpenWidget
<1>5. fetches' \in Fetches /\ Owed(fetches') /\ Retried(fetches', key)
  <2> HIDE DEF f, key, g
  <2> QED BY <1>1, <1>3, <1>4, AskKeeps
<1>6. StoreTypeOK' /\ LockedVerdictShown'
  BY <1>2, <1>5, VerdictAssumption
     DEF StoreInv, StoreTypeOK, Activate, Chooses, LockedVerdictShown, HeldFor, VerdictAssumption
<1> HIDE DEF key
<1> QED BY <1>2, <1>5, <1>6 DEF StoreInv

(* A choice of another frame or horizon, or of none: what is asked is selected. *)
LEMMA SelectKeeps ==
  ASSUME StoreInv,
         (\E fr \in Frames : SelectFrame(fr)) \/ (\E h \in Horizons : SelectHorizon(h)) \/ AskAgain
  PROVE  StoreInv'
<1>1. ASSUME NEW fr \in Frames, SelectFrame(fr) PROVE StoreInv'
  <2> DEFINE f == [fetches EXCEPT !.retries = @ \ {Selected}, !.waiting = FALSE]
             key == <<active, fr, horizon>>
  <2>1. f \in Fetches /\ Owed(f) /\ key \in Keys
    BY DEF StoreInv, StoreTypeOK, Fetches, Owed, Keys
  <2>2. fetches' = Ask(f, key, FALSE) /\ Selected' = key
    BY <1>1 DEF SelectFrame, Selected
  <2>3. fetches' \in Fetches /\ Owed(fetches') /\ Retried(fetches', key)
    <3> HIDE DEF f, key
    <3> QED BY <2>1, <2>2, AskKeeps, AskedIsRetried
  <2>4. StoreTypeOK' /\ LockedVerdictShown'
    <3>1. choices' \in 0..MaxChoices
      BY <1>1, VerdictAssumption DEF StoreInv, StoreTypeOK, SelectFrame, Chooses, VerdictAssumption
    <3> HIDE DEF f, key
    <3> QED BY <1>1, <2>3, <3>1
         DEF StoreInv, StoreTypeOK, SelectFrame, LockedVerdictShown, HeldFor
  <2> HIDE DEF key
  <2> QED BY <2>2, <2>3, <2>4 DEF StoreInv
<1>2. ASSUME NEW h \in Horizons, SelectHorizon(h) PROVE StoreInv'
  <2> DEFINE f == [fetches EXCEPT !.retries = @ \ {Selected}]
             key == <<active, frame, h>>
  <2>1. f \in Fetches /\ Owed(f) /\ key \in Keys
    BY DEF StoreInv, StoreTypeOK, Fetches, Owed, Keys
  <2>2. fetches' = Ask(f, key, FALSE) /\ Selected' = key
    BY <1>2 DEF SelectHorizon, Selected
  <2>3. fetches' \in Fetches /\ Owed(fetches') /\ Retried(fetches', key)
    <3> HIDE DEF f, key
    <3> QED BY <2>1, <2>2, AskKeeps, AskedIsRetried
  <2>4. StoreTypeOK' /\ LockedVerdictShown'
    <3>1. choices' \in 0..MaxChoices
      BY <1>2, VerdictAssumption DEF StoreInv, StoreTypeOK, SelectHorizon, Chooses, VerdictAssumption
    <3> HIDE DEF f, key
    <3> QED BY <1>2, <2>3, <3>1
         DEF StoreInv, StoreTypeOK, SelectHorizon, LockedVerdictShown, HeldFor
  <2> HIDE DEF key
  <2> QED BY <2>2, <2>3, <2>4 DEF StoreInv
<1>3. ASSUME NEW skipped \in BOOLEAN, fetches' = Ask(fetches, Selected, skipped),
             UNCHANGED <<active, frame, horizon, shown, snaps, lock, choices>>
      PROVE  StoreInv'
  <2>1. fetches \in Fetches /\ Owed(fetches) /\ Retried(fetches, Selected) /\ Selected \in Keys
    BY DEF StoreInv, StoreTypeOK, Keys, Selected
  <2>2. fetches' \in Fetches /\ Owed(fetches') /\ Retried(fetches', Selected)
    BY <1>3, <2>1, AskKeeps
  <2>3. Selected' = Selected
    BY <1>3 DEF Selected
  <2>4. StoreTypeOK' /\ LockedVerdictShown'
    BY <1>3, <2>2 DEF StoreInv, StoreTypeOK, LockedVerdictShown, HeldFor
  <2> QED BY <2>2, <2>3, <2>4 DEF StoreInv
<1> QED BY <1>1, <1>2, <1>3 DEF AskAgain

(* A retry: of the key that is selected, or of one that nobody waits for. *)
LEMMA RetryKeeps ==
  ASSUME StoreInv, NEW k \in Keys, FireRetry(k)
  PROVE  StoreInv'
<1> DEFINE f == [fetches EXCEPT !.retries = @ \ {k}]
<1>1. f \in Fetches /\ Owed(f) /\ Selected \in Keys /\ Retried(fetches, Selected)
  BY DEF StoreInv, StoreTypeOK, Fetches, Owed, Keys, Selected
<1>2. Selected' = Selected /\ (active = k[1] => fetches' = Ask(f, Selected, FALSE))
      /\ (active # k[1] => fetches' = f)
  BY DEF FireRetry, Selected
<1>3. fetches' \in Fetches /\ Owed(fetches') /\ Retried(fetches', Selected)
  <2>1. CASE active = k[1]
    <3> HIDE DEF f
    <3> QED BY <1>1, <1>2, <2>1, AskKeeps, AskedIsRetried
  <2>2. CASE active # k[1]
    <3>1. k # Selected
      BY <2>2 DEF Selected
    <3> QED BY <1>1, <1>2, <2>2, <3>1 DEF Retried, StoreInv, StoreTypeOK, Fetches
  <2> QED BY <2>1, <2>2
<1>4. StoreTypeOK' /\ LockedVerdictShown'
  BY <1>3 DEF StoreInv, StoreTypeOK, LockedVerdictShown, FireRetry, HeldFor
<1> QED BY <1>2, <1>3, <1>4 DEF StoreInv

(* A request ends. *)
LEMMA FetchEndKeeps ==
  ASSUME StoreInv, NEW k \in Keys,
         Superseded(k) \/ Answer(k) \/ FailForNow(k) \/ FailForGood(k)
  PROVE  StoreInv'
<1>1. fetches \in Fetches /\ Owed(fetches) /\ Retried(fetches, Selected)
  BY DEF StoreInv, StoreTypeOK
<1>2. Selected' = Selected
  BY DEF Superseded, Answer, FailForNow, FailForGood, Selected
<1>3. fetches' \in Fetches /\ Owed(fetches') /\ Retried(fetches', Selected)
  <2>1. CASE Superseded(k)
    BY <1>1, <2>1 DEF Superseded, Ended, Fetches, Owed, Retried
  <2>2. CASE Answer(k) \/ FailForGood(k)
    BY <1>1, <2>2 DEF Answer, FailForGood, Ended, Fetches, Owed, Retried
  <2>3. CASE FailForNow(k)
    BY <1>1, <2>3 DEF FailForNow, Ended, Fetches, Owed, Retried
  <2> QED BY <2>1, <2>2, <2>3
<1>4. StoreTypeOK' /\ LockedVerdictShown'
  <2>1. CASE Answer(k)
    <3>1. PICK dir \in Dirs :
            LET verdict == [sym |-> k[1], frame |-> k[2],
                            dir |-> IF HeldFor(k[1]) THEN lock.dir ELSE dir]
            IN shown' = verdict /\ snaps' = [snaps EXCEPT ![k[1]] = verdict]
      BY <2>1 DEF Answer
    <3>2. k[1] \in Symbols /\ k[2] \in Frames
      BY DEF Keys
    <3>3. HeldFor(k[1]) => lock.dir \in Dirs
      BY DEF HeldFor, StoreInv, StoreTypeOK, Locked
    <3>4. shown' \in Verdict
      BY <3>1, <3>2, <3>3 DEF Verdict
    <3>5. StoreTypeOK'
      BY <1>3, <2>1, <3>1, <3>2, <3>4 DEF Answer, StoreInv, StoreTypeOK
    <3>6. LockedVerdictShown'
      BY <2>1, <3>1 DEF Answer, LockedVerdictShown, HeldFor
    <3> QED BY <3>5, <3>6
  <2>2. CASE Superseded(k) \/ FailForNow(k) \/ FailForGood(k)
    BY <1>3, <2>2 DEF Superseded, FailForNow, FailForGood, StoreInv, StoreTypeOK,
      LockedVerdictShown, HeldFor
  <2> QED BY <2>1, <2>2
<1> QED BY <1>2, <1>3, <1>4 DEF StoreInv

(* A dispatch, and what leaves requests alone. *)
LEMMA DispatchKeeps ==
  ASSUME StoreInv, Dispatch \/ DispatchWaiting \/ LockMatures \/ RejectSymbol
  PROVE  StoreInv'
<1>1. Selected' = Selected
  BY DEF Dispatch, DispatchWaiting, LockMatures, RejectSymbol, Selected
<1>2. fetches' \in Fetches /\ Owed(fetches') /\ Retried(fetches', Selected)
  <2>1. fetches \in Fetches /\ Owed(fetches) /\ Retried(fetches, Selected)
    BY DEF StoreInv, StoreTypeOK
  <2>2. CASE RejectSymbol
    BY <2>1, <2>2 DEF RejectSymbol, Fetches, Owed, Retried
  <2>3. CASE UNCHANGED fetches
    BY <2>1, <2>3
  <2> QED BY <2>2, <2>3 DEF Dispatch, DispatchWaiting, LockMatures
<1>3. StoreTypeOK' /\ LockedVerdictShown'
  <2>1. CASE Dispatch
    <3>1. PICK dir \in Dirs, commits \in BOOLEAN :
            LET told == IF HeldFor(active) THEN lock.dir ELSE dir
                merged == IF shown # Nothing THEN [shown EXCEPT !.dir = told]
                          ELSE [sym |-> active, frame |-> Unsynced, dir |-> told]
            IN /\ shown' = merged
               /\ snaps' = [snaps EXCEPT ![active] = merged]
               /\ lock' = IF commits /\ ~HeldFor(active)
                          THEN [sym |-> active, horizon |-> horizon, dir |-> dir]
                          ELSE lock
               /\ UNCHANGED <<active, frame, horizon, fetches, choices>>
      BY <2>1 DEF Dispatch
    <3> DEFINE told == IF HeldFor(active) THEN lock.dir ELSE dir
    <3>2. told \in Dirs
      BY DEF HeldFor, StoreInv, StoreTypeOK, Locked
    <3>3. shown' \in Verdict /\ shown'.dir = told
      BY <3>1, <3>2 DEF Verdict, StoreInv, StoreTypeOK
    <3>4. lock' \in Locked \cup {Nothing}
      BY <3>1 DEF Locked, StoreInv, StoreTypeOK
    <3>5. StoreTypeOK'
      BY <1>2, <3>1, <3>3, <3>4 DEF StoreInv, StoreTypeOK
    <3>6. LockedVerdictShown'
      BY <3>1, <3>3 DEF LockedVerdictShown, HeldFor
    <3> QED BY <3>5, <3>6
  <2>2. CASE DispatchWaiting \/ LockMatures \/ RejectSymbol
    BY <1>2, <2>2 DEF DispatchWaiting, LockMatures, RejectSymbol, StoreInv, StoreTypeOK,
      LockedVerdictShown, HeldFor
  <2> QED BY <2>1, <2>2
<1> QED BY <1>1, <1>2, <1>3 DEF StoreInv

LEMMA StoreInitially == StoreInit => StoreInv
<1> SUFFICES ASSUME StoreInit PROVE StoreInv
  OBVIOUS
<1>1. fetches \in Fetches /\ Owed(fetches) /\ Retried(fetches, Selected)
  BY DEF StoreInit, Fetches, Owed, Retried
<1>2. StoreTypeOK /\ LockedVerdictShown
  BY <1>1, VerdictAssumption
     DEF StoreInit, StoreTypeOK, LockedVerdictShown, HeldFor, VerdictAssumption
<1> QED BY <1>1, <1>2 DEF StoreInv

LEMMA StoreInductive == StoreInv /\ [StoreNext]_storeVars => StoreInv'
<1> SUFFICES ASSUME StoreInv, [StoreNext]_storeVars PROVE StoreInv'
  OBVIOUS
<1>1. CASE UNCHANGED storeVars
  BY <1>1 DEF storeVars, StoreInv, StoreTypeOK, Selected, LockedVerdictShown, HeldFor, Owed, Retried
<1> QED BY <1>1, ActivateKeeps, SelectKeeps, RetryKeeps, FetchEndKeeps, DispatchKeeps DEF StoreNext

LEMMA StoreAlways == StoreSpec => []StoreInv
  BY StoreInitially, StoreInductive, PTL DEF StoreSpec

(* The state of the store is always of its types. *)
THEOREM StoreTypes == StoreSpec => []StoreTypeOK
<1>1. StoreInv => StoreTypeOK
  BY DEF StoreInv
<1> QED BY <1>1, StoreAlways, PTL

(* The panel never shows a direction against the one that is committed, be it  *)
(* the socket or /predict that wrote last.                                     *)
THEOREM NoFlipWhileLocked == StoreSpec => []LockedVerdictShown
<1>1. StoreInv => LockedVerdictShown
  BY DEF StoreInv
<1> QED BY <1>1, StoreAlways, PTL

(* The spinner always turns for a request that is under way and listened to.   *)
THEOREM SpinnerAlwaysOwed == StoreSpec => []SpinnerIsOwed
<1>1. StoreInv => SpinnerIsOwed
  BY DEF StoreInv, Owed, SpinnerIsOwed
<1> QED BY <1>1, StoreAlways, PTL

(* The banner of what is selected never loses its timer, and no key is asked   *)
(* and waited for at once.                                                     *)
THEOREM WaitingAlwaysRetried == StoreSpec => []WaitingIsRetried
<1>1. StoreInv => WaitingIsRetried
  BY DEF StoreInv, Owed, Retried, WaitingIsRetried
<1> QED BY <1>1, StoreAlways, PTL

-----------------------------------------------------------------------------
(* The trade panel.                                                            *)

PanelInv == PanelTypeOK /\ ActiveIsTimed

(* A trade that is over needs no interval. *)
LEMMA TradeOver ==
  ASSUME intervals \subseteq Clicks, intervals' \subseteq intervals,
         isTradeActive' = FALSE, countdown' = 0
  PROVE  /\ isTradeActive' \in BOOLEAN /\ countdown' \in 0..Seconds
         /\ intervals' \subseteq Clicks /\ ActiveIsTimed'
<1>1. isTradeActive' \in BOOLEAN /\ intervals' \subseteq Clicks /\ ActiveIsTimed'
  BY Zenon DEF ActiveIsTimed
<1>2. countdown' \in 0..Seconds
  BY TradeAssumption DEF TradeAssumption
<1> QED BY <1>1, <1>2

LEMMA PanelInductive == PanelInv /\ [PanelNext]_panelVars => PanelInv'
<1> SUFFICES ASSUME PanelInv, [PanelNext]_panelVars PROVE PanelInv'
  OBVIOUS
<1>1. at' \in [Clicks -> Places] /\ isKillSwitchLocked' \in BOOLEAN
  <2>1. at \in [Clicks -> Places] /\ isKillSwitchLocked \in BOOLEAN
    BY DEF PanelInv, PanelTypeOK
  <2>2. isKillSwitchLocked' \in BOOLEAN
    BY <2>1 DEF PanelNext, Click, RiskAnswer, RulesAnswer, CountDown, Accepted, Failed,
      KillSwitchTold, panelVars
  <2>3. at' = at \/ \E c \in Clicks, place \in Places : Reaches(c, place)
    BY DEF PanelNext, Click, RiskAnswer, RulesAnswer, CountDown, Accepted, Failed,
      KillSwitchTold, panelVars, Refused, Starts, Places
  <2> QED BY <2>1, <2>2, <2>3 DEF Reaches
<1>2. /\ isTradeActive' \in BOOLEAN /\ countdown' \in 0..Seconds
      /\ intervals' \subseteq Clicks /\ ActiveIsTimed'
  <2>1. /\ isTradeActive \in BOOLEAN /\ countdown \in 0..Seconds
        /\ intervals \subseteq Clicks /\ ActiveIsTimed
    BY DEF PanelInv, PanelTypeOK
  <2>2. CASE UNCHANGED trade
    BY <2>1, <2>2 DEF trade, ActiveIsTimed
  <2>3. ASSUME NEW c \in Clicks, Starts(c)
        PROVE  <1>2!:
    BY <2>1, <2>3, TradeAssumption DEF Starts, ActiveIsTimed, TradeAssumption
  <2>4. ASSUME NEW c \in Clicks, CountDown(c)
        PROVE  <1>2!:
    <3>1. CASE countdown <= 1
      <4>1. isTradeActive' = FALSE /\ countdown' = 0 /\ intervals' = intervals \ {c}
        BY <2>4, <3>1 DEF CountDown
      <4> QED BY <2>1, <4>1, TradeOver
    <3>2. CASE ~(countdown <= 1)
      BY <2>1, <2>4, <3>2, TradeAssumption DEF CountDown, ActiveIsTimed, TradeAssumption
    <3> QED BY <3>1, <3>2
  <2>5. ASSUME NEW c \in Clicks, Failed(c)
        PROVE  <1>2!:
    BY <2>1, <2>5, TradeOver DEF Failed
  <2> QED BY <2>2, <2>3, <2>4, <2>5
       DEF PanelNext, Click, RiskAnswer, RulesAnswer, Accepted, KillSwitchTold, panelVars, Refused, trade
<1> QED BY <1>1, <1>2 DEF PanelInv, PanelTypeOK

LEMMA PanelStarts == PanelInit => PanelInv
<1> SUFFICES ASSUME PanelInit PROVE PanelInv
  OBVIOUS
<1>1. isTradeActive \in BOOLEAN /\ ActiveIsTimed
  BY Zenon DEF PanelInit, ActiveIsTimed
<1>2. countdown \in 0..Seconds
  BY TradeAssumption DEF PanelInit, TradeAssumption
<1> QED BY <1>1, <1>2 DEF PanelInit, PanelInv, PanelTypeOK, Places

(* While a trade disables the buttons an interval runs that will enable them,  *)
(* however the clicks, their intervals and their failures interleave.          *)
THEOREM ActiveAlwaysTimed == PanelSpec => []ActiveIsTimed
<1>1. PanelInv => ActiveIsTimed
  BY DEF PanelInv
<1> QED BY <1>1, PanelStarts, PanelInductive, PTL DEF PanelSpec

-----------------------------------------------------------------------------
(* The batches of the market page.                                            *)

(* A batch was asked for in a mount there was, by a refresh there was; one that   *)
(* is still asked for, in the present mount, was posted since the last click,     *)
(* under the present tier, and its cards wait for it or were overwritten by a     *)
(* batch of an older mount.                                                     *)
Awaited(b) ==
    /\ ~debounced /\ b.tier = minTier
    /\ \A c \in b.cards : \/ predictions[c] = [status |-> "pending", ask |-> b.ask]
                          \/ predictions[c].ask.mount # mount

GridInv ==
    /\ GridTypeOK
    /\ \A b \in batches : b.ask.mount <= mount /\ b.ask.seq <= seq[b.ask.mount]
    /\ \A b \in batches : b.ask.mount = mount /\ StillAsked(b) => Awaited(b)
    /\ \A b, d \in batches : b.ask = d.ask => b = d

Predictions == [Cards -> [status : {"none", "pending", "ok", "error"}, ask : AskIds]]

LEMMA BatchKinds ==
  ASSUME NEW b \in Batches
  PROVE  /\ b.ask \in AskIds /\ b.tier \in Tiers /\ b.cards \in SUBSET Cards
         /\ b.ask.mount \in 1..MaxMounts /\ b.ask.mount \in Int
         /\ b.ask.seq \in 0..MaxRefreshes /\ b.ask.seq \in Int
  BY GridAssumption DEF Batches, AskIds, GridAssumption

LEMMA GridTyped ==
  ASSUME GridTypeOK
  PROVE  /\ mount \in 1..MaxMounts /\ mount \in Int /\ MaxMounts \in Int /\ MaxRefreshes \in Nat
         /\ seq \in [1..MaxMounts -> 0..MaxRefreshes] /\ predictions \in Predictions
         /\ \A m \in 1..MaxMounts : seq[m] \in Int
         /\ batches \subseteq Batches /\ latest \in SUBSET Cards /\ minTier \in Tiers
         /\ [mount |-> mount, seq |-> seq[mount]] \in AskIds
  BY GridAssumption DEF GridTypeOK, GridAssumption, Predictions, AskIds

LEMMA GridStarts == GridInit => GridInv
<1> SUFFICES ASSUME GridInit PROVE GridInv
  OBVIOUS
<1>1. Blank \in [status : {"none", "pending", "ok", "error"}, ask : AskIds]
  <2>1. 1 \in 1..MaxMounts /\ 0 \in 0..MaxRefreshes
    BY GridAssumption DEF GridAssumption
  <2> QED BY <2>1 DEF Blank, AskIds
<1>2. predictions \in Predictions
  BY <1>1 DEF GridInit, Predictions
<1>3. /\ 1 \in 1..MaxMounts /\ [m \in 1..MaxMounts |-> 0] \in [1..MaxMounts -> 0..MaxRefreshes]
      /\ 0 \in 0..(Patience + 1) /\ Cards \in (SUBSET Cards) \ {{}}
  BY GridAssumption DEF GridAssumption
<1>4. GridTypeOK
  BY <1>2, <1>3 DEF GridInit, GridTypeOK, Predictions
<1> QED BY <1>4 DEF GridInit, GridInv

(* A card that is given a verdict has one of the kinds. *)
LEMMA CardTyped ==
  ASSUME NEW ask \in AskIds, NEW s \in {"none", "pending", "ok", "error"}
  PROVE  [status |-> s, ask |-> ask] \in [status : {"none", "pending", "ok", "error"}, ask : AskIds]
  OBVIOUS

(* A click: whatever was posted before in this mount is asked for no more. *)
LEMMA ScheduleKeeps ==
  ASSUME GridInv, NEW cards \in (SUBSET Cards) \ {{}}, Schedule(cards), minTier' \in Tiers
  PROVE  GridInv'
<1>1. /\ GridTypeOK
      /\ \A b \in batches : b.ask.mount <= mount /\ b.ask.seq <= seq[b.ask.mount]
      /\ \A b \in batches : b.ask.mount = mount /\ StillAsked(b) => Awaited(b)
      /\ \A b, d \in batches : b.ask = d.ask => b = d
  BY DEF GridInv
<1>2. /\ UNCHANGED <<mount, batches, predictions, quiet>> /\ debounced' /\ debounced' \in BOOLEAN
      /\ latest' = cards /\ seq' = [seq EXCEPT ![mount] = @ + 1] /\ seq[mount] < MaxRefreshes
  BY DEF Schedule
<1>3. seq'[mount] = seq[mount] + 1 /\ seq' \in [1..MaxMounts -> 0..MaxRefreshes]
      /\ \A m \in 1..MaxMounts : seq[m] <= seq'[m] /\ seq[m] \in Int /\ seq'[m] \in Int
  BY <1>1, <1>2, GridTyped
<1>4. GridTypeOK'
  BY <1>1, <1>2, <1>3 DEF GridTypeOK
<1>5. \A b \in batches' : b.ask.mount <= mount' /\ b.ask.seq <= seq'[b.ask.mount]
  <2> SUFFICES ASSUME NEW b \in batches PROVE b.ask.mount <= mount /\ b.ask.seq <= seq'[b.ask.mount]
    BY <1>2
  <2>1. b.ask.mount \in 1..MaxMounts /\ b.ask.seq \in Int
    BY <1>1, GridTyped, BatchKinds
  <2> QED BY <1>1, <1>3, <2>1
<1>6. ASSUME NEW b \in batches', b.ask.mount = mount' PROVE ~StillAsked(b)'
  <2>1. b.ask.seq <= seq[mount] /\ b.ask.seq \in Int /\ seq[mount] \in Int
    BY <1>1, <1>2, <1>6, GridTyped, BatchKinds
  <2> QED BY <1>2, <1>3, <1>6, <2>1 DEF StillAsked
<1>7. \A b, d \in batches' : b.ask = d.ask => b = d
  BY <1>1, <1>2
<1> QED BY <1>4, <1>5, <1>6, <1>7 DEF GridInv

LEMMA PostKeeps == ASSUME GridInv, PostBatch PROVE GridInv'
<1> DEFINE ask == [mount |-> mount, seq |-> seq[mount]]
           new == [ask |-> ask, tier |-> minTier, cards |-> latest]
<1>1. /\ GridTypeOK
      /\ \A b \in batches : b.ask.mount <= mount /\ b.ask.seq <= seq[b.ask.mount]
      /\ \A b \in batches : b.ask.mount = mount /\ StillAsked(b) => Awaited(b)
      /\ \A b, d \in batches : b.ask = d.ask => b = d
  BY DEF GridInv
<1>2. /\ debounced /\ debounced' = FALSE /\ quiet' = 0 /\ UNCHANGED <<minTier, latest, mount, seq>>
      /\ batches' = batches \cup {new}
      /\ predictions' = [c \in Cards |-> IF c \in latest THEN [status |-> "pending", ask |-> ask] ELSE predictions[c]]
  BY DEF PostBatch, pageVars
<1>3. ask \in AskIds /\ ask.mount = mount /\ ask.seq = seq[mount]
  BY <1>1, GridTyped
<1> HIDE DEF ask
<1>4. new \in Batches /\ new.ask = ask /\ new.tier = minTier /\ new.cards = latest
  BY <1>1, <1>3, GridTyped DEF Batches
<1> HIDE DEF new
<1>5. [status |-> "pending", ask |-> ask] \in [status : {"none", "pending", "ok", "error"}, ask : AskIds]
  BY <1>3, CardTyped
<1>6. predictions' \in Predictions
  BY <1>1, <1>2, <1>5, GridTyped DEF Predictions
<1>7. 0 \in 0..(Patience + 1)
  BY GridAssumption DEF GridAssumption
<1>8. GridTypeOK'
  BY <1>1, <1>2, <1>4, <1>6, <1>7 DEF GridTypeOK, Predictions
<1>9. \A b \in batches' : b.ask.mount <= mount' /\ b.ask.seq <= seq'[b.ask.mount]
  <2>1. mount <= mount /\ seq[mount] <= seq[mount]
    BY <1>1, GridTyped
  <2> QED BY <1>1, <1>2, <1>3, <1>4, <2>1
<1>10. ASSUME NEW b \in batches PROVE ~(b.ask.mount = mount /\ StillAsked(b))
  BY <1>1, <1>2, <1>10 DEF Awaited
<1>11. ASSUME NEW b \in batches', b.ask.mount = mount', StillAsked(b)' PROVE Awaited(b)'
  <2>1. b = new
    BY <1>2, <1>10, <1>11 DEF StillAsked
  <2>2. \A c \in latest : predictions'[c] = [status |-> "pending", ask |-> ask]
    BY <1>1, <1>2, GridTyped
  <2> QED BY <1>2, <1>4, <2>1, <2>2 DEF Awaited
<1>12. ASSUME NEW b \in batches PROVE b.ask # new.ask
  BY <1>3, <1>4, <1>10, <1>12 DEF StillAsked
<1>13. \A b, d \in batches' : b.ask = d.ask => b = d
  BY <1>1, <1>2, <1>12
<1> QED BY <1>8, <1>9, <1>11, <1>13 DEF GridInv

(* A batch lands: the cards of no other one that is asked for in this mount are    *)
(* written to, but by a batch of an older mount.                                *)
LEMMA LandedKeeps ==
  ASSUME GridInv, NEW b \in batches, Landed(b), predictions' \in Predictions,
         \A c \in Cards : predictions'[c] = predictions[c] \/ (StillAsked(b) /\ predictions'[c].ask = b.ask)
  PROVE  GridInv'
<1>1. /\ GridTypeOK
      /\ \A d \in batches : d.ask.mount <= mount /\ d.ask.seq <= seq[d.ask.mount]
      /\ \A d \in batches : d.ask.mount = mount /\ StillAsked(d) => Awaited(d)
      /\ \A d, e \in batches : d.ask = e.ask => d = e
  BY DEF GridInv
<1>2. batches' = batches \ {b} /\ UNCHANGED <<minTier, latest, mount, seq, debounced, quiet>>
  BY DEF Landed, pageVars
<1>3. GridTypeOK'
  BY <1>1, <1>2 DEF GridTypeOK, Predictions
<1>4. ASSUME NEW d \in batches', d.ask.mount = mount', StillAsked(d)' PROVE Awaited(d)'
  <2>1. d \in batches /\ d # b /\ d.ask.mount = mount /\ StillAsked(d) /\ d.ask # b.ask
    BY <1>1, <1>2, <1>4 DEF StillAsked
  <2>2. StillAsked(b) => b.ask.mount # mount
    <3>1. b.ask = [mount |-> b.ask.mount, seq |-> b.ask.seq] /\ d.ask = [mount |-> d.ask.mount, seq |-> d.ask.seq]
      BY <1>1, <2>1, GridTyped, BatchKinds DEF AskIds
    <3> QED BY <2>1, <3>1 DEF StillAsked
  <2>3. d.cards \subseteq Cards
    BY <1>1, <2>1, GridTyped, BatchKinds
  <2> QED BY <1>1, <1>2, <2>1, <2>2, <2>3 DEF Awaited
<1> QED BY <1>1, <1>2, <1>3, <1>4 DEF GridInv

(* What an answer, or a failure, does to the cards. *)
LEMMA Writes ==
  ASSUME GridTypeOK, NEW b \in batches, BatchAnswered(b) \/ BatchFails(b)
  PROVE  /\ Landed(b) /\ predictions' \in Predictions
         /\ \A c \in Cards : \/ predictions'[c] = predictions[c]
                             \/ StillAsked(b) /\ predictions'[c].ask = b.ask /\ c \in b.cards
<1>1. b.ask \in AskIds /\ b.cards \subseteq Cards /\ predictions \in Predictions
  BY GridTyped, BatchKinds
<1>2. \A s \in {"none", "pending", "ok", "error"} :
        [status |-> s, ask |-> b.ask] \in [status : {"none", "pending", "ok", "error"}, ask : AskIds]
  BY <1>1
<1>3. CASE BatchAnswered(b)
  <2>1. CASE ~StillAsked(b)
    BY <1>1, <1>3, <2>1 DEF BatchAnswered
  <2>2. CASE StillAsked(b)
    <3>1. PICK bad \in SUBSET b.cards :
            predictions' = [c \in Cards |->
                IF c \in b.cards THEN [status |-> IF c \in bad THEN "error" ELSE "ok", ask |-> b.ask]
                ELSE predictions[c]]
      BY <1>3, <2>2 DEF BatchAnswered, SetFromBatch
    <3>2. predictions' \in Predictions
      BY <1>1, <1>2, <3>1 DEF Predictions
    <3> QED BY <1>3, <2>2, <3>1, <3>2 DEF BatchAnswered
  <2> QED BY <2>1, <2>2
<1>4. CASE BatchFails(b)
  <2>1. predictions' = [c \in Cards |->
          IF StillAsked(b) /\ c \in b.cards /\ predictions[c].status = "pending"
          THEN [status |-> "error", ask |-> b.ask] ELSE predictions[c]]
    BY <1>4 DEF BatchFails
  <2>2. predictions' \in Predictions
    BY <1>1, <1>2, <2>1 DEF Predictions
  <2> QED BY <1>4, <2>1, <2>2 DEF BatchFails
<1> QED BY <1>3, <1>4

LEMMA GridKeeps == GridInv /\ [GridNext]_gridVars => GridInv'
<1> SUFFICES ASSUME GridInv, [GridNext]_gridVars PROVE GridInv'
  OBVIOUS
<1>1. GridTypeOK
  BY DEF GridInv
<1>2. CASE \E c \in Cards : SetCardHorizon(c)
  <2>1. PICK c \in Cards : SetCardHorizon(c)
    BY <1>2
  <2>2. {c} \in (SUBSET Cards) \ {{}} /\ Schedule({c}) /\ minTier' \in Tiers
    BY <1>1, <2>1, GridTyped DEF SetCardHorizon
  <2> QED BY <2>2, ScheduleKeeps
<1>3. CASE (\E t \in Tiers : SetMinTier(t)) \/ RefreshNow \/ LoopRefreshes
  <2>1. Cards \in (SUBSET Cards) \ {{}} /\ Schedule(Cards) /\ minTier' \in Tiers
    BY <1>1, <1>3, GridTyped, GridAssumption DEF SetMinTier, RefreshNow, LoopRefreshes, GridAssumption
  <2> QED BY <2>1, ScheduleKeeps
<1>4. CASE LoopTick \/ LiveVerdict \/ UNCHANGED gridVars
  <2>1. UNCHANGED <<minTier, latest, mount, seq, debounced, batches, predictions>>
    BY <1>4 DEF LoopTick, LiveVerdict, gridVars, pageVars
  <2>2. quiet' \in 0..(Patience + 1)
    BY <1>1, <1>4, GridAssumption DEF LoopTick, LiveVerdict, gridVars, GridTypeOK, GridAssumption
  <2>3. GridTypeOK'
    BY <1>1, <2>1, <2>2 DEF GridTypeOK
  <2> QED BY <2>1, <2>3 DEF GridInv, StillAsked, Awaited
<1>5. CASE PostBatch
  BY <1>5, PostKeeps
<1>6. CASE Remount
  <2>1. /\ mount < MaxMounts /\ mount' = mount + 1 /\ debounced' = FALSE /\ latest' = Cards /\ quiet' = Patience + 1
        /\ UNCHANGED <<minTier, seq, batches, predictions>>
    BY <1>6 DEF Remount
  <2>2. mount' \in 1..MaxMounts /\ Patience + 1 \in 0..(Patience + 1) /\ Cards \in (SUBSET Cards) \ {{}}
    BY <1>1, <2>1, GridTyped, GridAssumption DEF GridAssumption
  <2>3. GridTypeOK'
    BY <1>1, <2>1, <2>2 DEF GridTypeOK
  <2>4. ASSUME NEW b \in batches PROVE b.ask.mount <= mount' /\ b.ask.mount # mount'
    <3>1. b.ask.mount \in Int /\ mount \in Int /\ b.ask.mount <= mount
      BY <1>1, <2>4, GridTyped, BatchKinds DEF GridInv
    <3> QED BY <2>1, <3>1
  <2> QED BY <2>1, <2>3, <2>4 DEF GridInv
<1>7. CASE \E b \in batches : BatchAnswered(b) \/ BatchFails(b)
  <2>1. PICK b \in batches : BatchAnswered(b) \/ BatchFails(b)
    BY <1>7
  <2> QED BY <1>1, <2>1, Writes, LandedKeeps
<1> QED BY <1>2, <1>3, <1>4, <1>5, <1>6, <1>7 DEF GridNext

(* A slow batch never overwrites a newer refresh's verdicts: what a card of the    *)
(* present mount is given is what it waits for, under the tier selected.         *)
THEOREM AnswersAlwaysTheirAsk == GridSpec => AnswersTheirAsk
<1> DEFINE Asked ==
      \A c \in Cards :
        LET now == predictions'[c] IN
        now # predictions[c] /\ now.status \in {"ok", "error"} /\ now.ask.mount = mount =>
            /\ \/ predictions[c] = [status |-> "pending", ask |-> now.ask]
               \/ predictions[c].ask.mount # mount
            /\ \E b \in batches : b.ask = now.ask /\ b.tier = minTier
<1>1. GridInv /\ [GridNext]_gridVars => [Asked]_gridVars
  <2> SUFFICES ASSUME GridInv, [GridNext]_gridVars, NEW c \in Cards,
                      predictions'[c] # predictions[c], predictions'[c].status \in {"ok", "error"},
                      predictions'[c].ask.mount = mount
               PROVE  /\ \/ predictions[c] = [status |-> "pending", ask |-> predictions'[c].ask]
                         \/ predictions[c].ask.mount # mount
                      /\ \E b \in batches : b.ask = predictions'[c].ask /\ b.tier = minTier
    OBVIOUS
  <2>1. ~PostBatch
    <3>1. SUFFICES ASSUME PostBatch PROVE predictions'[c] = predictions[c] \/ predictions'[c].status = "pending"
      OBVIOUS
    <3> QED BY <3>1 DEF PostBatch
  <2>2. PICK b \in batches : BatchAnswered(b) \/ BatchFails(b)
    BY <2>1 DEF GridNext, gridVars, SetCardHorizon, SetMinTier, RefreshNow, LoopRefreshes, LoopTick,
                LiveVerdict, Remount, Schedule
  <2>3. StillAsked(b) /\ predictions'[c].ask = b.ask /\ c \in b.cards
    BY <2>2, Writes DEF GridInv
  <2> QED BY <2>3 DEF GridInv, Awaited
<1> QED BY <1>1, GridStarts, GridKeeps, PTL DEF GridSpec, AnswersTheirAsk
=============================================================================
