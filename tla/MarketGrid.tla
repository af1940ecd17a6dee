------------------------------- MODULE MarketGrid ------------------------------
(***************************************************************************)
(* The verdicts on the cards of the client's market page: the refreshes of *)
(* hooks/useMarketTerminal.ts and the cards of useMarketTerminalStore.ts.  *)
(* A user clicks while refreshes are debounced and while the batches of    *)
(* older ones are computed.                                                *)
(*                                                                         *)
(* The quotes of the page are left out, the live verdicts too but for the  *)
(* time they take from the fallback; of what is chosen, the tier is kept.  *)
(***************************************************************************)
EXTENDS Naturals, FiniteSets

CONSTANTS
    Cards,
    Tiers,
    Patience,       \* PREDICT_FALLBACK_MS, in ticks of the loop
    MaxRefreshes,   \* bound: refreshes of one page
    MaxMounts       \* bound: times the page is opened

ASSUME GridAssumption ==
    /\ IsFiniteSet(Cards) /\ Cards # {} /\ Tiers # {}
    /\ Patience \in Nat /\ MaxRefreshes \in Nat /\ MaxMounts \in Nat \ {0}

VARIABLES
    minTier,
    latest,     \* latestSymbolsRef
    mount,      \* the number of the page's mount
    seq,        \* refreshSeqRef, of each mount
    debounced,  \* its timer is set
    batches,    \* those posted and not answered
    predictions,
    quiet       \* ticks since the last verdict or request

pageVars == <<minTier, latest, mount, seq>>
gridVars == <<pageVars, debounced, batches, predictions, quiet>>

AskIds == [mount : 1..MaxMounts, seq : 0..MaxRefreshes]
Blank == [status |-> "none", ask |-> [mount |-> 1, seq |-> 0]]
Batches == [ask : AskIds, tier : Tiers, cards : SUBSET Cards]

GridTypeOK ==
    /\ minTier \in Tiers /\ latest \in (SUBSET Cards) \ {{}}
    /\ mount \in 1..MaxMounts /\ seq \in [1..MaxMounts -> 0..MaxRefreshes]
    /\ debounced \in BOOLEAN
    /\ batches \subseteq Batches
    /\ predictions \in [Cards -> [status : {"none", "pending", "ok", "error"}, ask : AskIds]]
    /\ quiet \in 0..(Patience + 1)

GridInit ==
    /\ minTier \in Tiers /\ latest = Cards
    /\ mount = 1 /\ seq = [m \in 1..MaxMounts |-> 0] /\ debounced = FALSE
    /\ batches = {} /\ predictions = [c \in Cards |-> Blank] /\ quiet = 0

-----------------------------------------------------------------------------
(* scheduleRefresh: the timer of an earlier one is cleared.                     *)
Schedule(cards) ==
    /\ seq[mount] < MaxRefreshes
    /\ latest' = cards
    /\ seq' = [seq EXCEPT ![mount] = @ + 1] /\ debounced' = TRUE
    /\ UNCHANGED <<mount, batches, predictions, quiet>>

(* The horizon of all cards, or the button "Refresh"; the horizon of a card;     *)
(* the tier.                                                                   *)
RefreshNow == Schedule(Cards) /\ UNCHANGED minTier

SetCardHorizon(c) == Schedule({c}) /\ UNCHANGED minTier

SetMinTier(t) == Schedule(Cards) /\ minTier' = t

(* The loop: neither a live verdict nor a request for a long time.               *)
LoopRefreshes ==
    /\ quiet > Patience
    /\ Schedule(Cards) /\ UNCHANGED minTier

LoopTick ==
    /\ quiet <= Patience /\ quiet' = quiet + 1
    /\ UNCHANGED <<pageVars, debounced, batches, predictions>>

LiveVerdict ==
    /\ quiet' = 0
    /\ UNCHANGED <<pageVars, debounced, batches, predictions>>

(* The debounce is over: the cards are marked, and the batch is posted.         *)
PostBatch ==
    /\ debounced /\ debounced' = FALSE
    /\ LET ask == [mount |-> mount, seq |-> seq[mount]]
       IN /\ batches' = batches \cup
                {[ask |-> ask, tier |-> minTier, cards |-> latest]}
          /\ predictions' = [c \in Cards |->
                IF c \in latest THEN [status |-> "pending", ask |-> ask] ELSE predictions[c]]
    /\ quiet' = 0
    /\ UNCHANGED pageVars

-----------------------------------------------------------------------------
StillAsked(b) == b.ask.seq = seq[b.ask.mount]
Landed(b) == batches' = batches \ {b} /\ UNCHANGED <<pageVars, debounced, quiet>>

(* setPredictionsFromBatch: some of the cards in error.                          *)
SetFromBatch(b) ==
    \E bad \in SUBSET b.cards :
        predictions' = [c \in Cards |->
            IF c \in b.cards THEN [status |-> IF c \in bad THEN "error" ELSE "ok", ask |-> b.ask]
            ELSE predictions[c]]

(* mutant: an answer is taken whatever was asked since                          *)
BatchAlwaysTaken(b) == Landed(b) /\ SetFromBatch(b)

(* The answer is dropped if a newer refresh was scheduled in the same mount.    *)
BatchAnswered(b) ==
    /\ Landed(b)
    /\ IF StillAsked(b) THEN SetFromBatch(b) ELSE UNCHANGED predictions

(* No answer, or none in time: the cards that still wait are marked.            *)
BatchFails(b) ==
    /\ Landed(b)
    /\ predictions' = [c \in Cards |->
        IF StillAsked(b) /\ c \in b.cards /\ predictions[c].status = "pending"
        THEN [status |-> "error", ask |-> b.ask] ELSE predictions[c]]

(* The page is left and opened again: its timer is cleared, its requests go on.   *)
Remount ==
    /\ mount < MaxMounts /\ mount' = mount + 1
    /\ debounced' = FALSE /\ latest' = Cards /\ quiet' = Patience + 1
    /\ UNCHANGED <<minTier, seq, batches, predictions>>

GridNext ==
    \/ \E c \in Cards : SetCardHorizon(c)
    \/ \E t \in Tiers : SetMinTier(t)
    \/ RefreshNow \/ LoopRefreshes \/ LoopTick \/ LiveVerdict \/ PostBatch \/ Remount
    \/ \E b \in batches : BatchAnswered(b) \/ BatchFails(b)

GridSpec == GridInit /\ [][GridNext]_gridVars

-----------------------------------------------------------------------------
(* "A slow /multi-predict can never overwrite a newer refresh's verdicts": what a  *)
(* card is given was computed for the refresh it waits for, under the tier that   *)
(* is selected.  Not so for the requests of a page that was left since.          *)
AnswersTheirAsk ==
    [][\A c \in Cards :
        LET now == predictions'[c] IN
        now # predictions[c] /\ now.status \in {"ok", "error"} /\ now.ask.mount = mount =>
            /\ \/ predictions[c] = [status |-> "pending", ask |-> now.ask]
               \/ predictions[c].ask.mount # mount
            /\ \E b \in batches : b.ask = now.ask /\ b.tier = minTier]_gridVars
=============================================================================
