------------------------------ MODULE TradePanel -------------------------------
(***************************************************************************)
(* executeTrade of the client (client-app store/useTradingStore.ts) behind *)
(* the two buttons of components/trading/trading-panel.tsx.                *)
(*                                                                         *)
(* A click checks the quote and the verdict, then awaits the risk state    *)
(* and the risk rules, then marks the trade active, starts an interval     *)
(* that counts the expiry down, and posts the trade.  The buttons are      *)
(* disabled while a trade is active, which is not before the two awaits    *)
(* are over: clicks may overlap, each with an interval of its own on one   *)
(* countdown.                                                              *)
(***************************************************************************)
EXTENDS Naturals

CONSTANTS
    Clicks,     \* the clicks of the operator
    Seconds     \* seconds of the expiry selected

ASSUME TradeAssumption == Seconds \in Nat \ {0}

VARIABLES
    at,             \* where each click is
    isTradeActive, countdown,
    intervals,      \* the clicks whose interval runs
    isKillSwitchLocked

panelVars == <<at, isTradeActive, countdown, intervals, isKillSwitchLocked>>

Places == {"idle", "risk", "rules", "posted", "done"}

PanelTypeOK ==
    /\ at \in [Clicks -> Places]
    /\ isTradeActive \in BOOLEAN /\ isKillSwitchLocked \in BOOLEAN
    /\ countdown \in 0..Seconds
    /\ intervals \subseteq Clicks

PanelInit ==
    /\ at = [c \in Clicks |-> "idle"]
    /\ isTradeActive = FALSE /\ countdown = 0
    /\ intervals = {}
    /\ isKillSwitchLocked \in BOOLEAN

trade == <<isTradeActive, countdown, intervals>>

Reaches(c, place) == at' = [at EXCEPT ![c] = place]

Refused(c) == Reaches(c, "done") /\ UNCHANGED trade

-----------------------------------------------------------------------------
(* A button that is enabled; a stale quote or a verdict below the floor ends   *)
(* the click there.                                                            *)
Click(c) ==
    /\ at[c] = "idle"
    /\ ~isTradeActive /\ ~isKillSwitchLocked
    /\ \/ Reaches(c, "risk") /\ UNCHANGED trade
       \/ Refused(c)
    /\ UNCHANGED isKillSwitchLocked

(* getRiskState: a snapshot, or an error that does not stop the click.         *)
RiskAnswer(c) ==
    /\ at[c] = "risk"
    /\ \/ isKillSwitchLocked' = TRUE /\ Refused(c)
       \/ /\ isKillSwitchLocked' \in {FALSE, isKillSwitchLocked}
          /\ Reaches(c, "rules") /\ UNCHANGED trade

Starts(c) ==
    /\ Reaches(c, "posted")
    /\ isTradeActive' = TRUE
    /\ countdown' = Seconds
    /\ intervals' = intervals \cup {c}

(* getRiskRules: a rule is violated or the expiry locked out, or the trade is   *)
(* posted (an error of the rules does not stop it).                             *)
RulesAnswer(c) ==
    /\ at[c] = "rules"
    /\ Refused(c) \/ Starts(c)
    /\ UNCHANGED isKillSwitchLocked

(* One second of an interval.                                                  *)
CountDown(c) ==
    /\ c \in intervals
    /\ IF countdown <= 1
       THEN /\ countdown' = 0 /\ isTradeActive' = FALSE
            /\ intervals' = intervals \ {c}
       ELSE /\ countdown' = countdown - 1
            /\ UNCHANGED <<isTradeActive, intervals>>
    /\ UNCHANGED <<at, isKillSwitchLocked>>

(* The trade is answered: sent, or a dry run.                                  *)
Accepted(c) ==
    /\ at[c] = "posted" /\ Reaches(c, "done")
    /\ UNCHANGED <<trade, isKillSwitchLocked>>

(* mutant: a failure stops the countdown only *)
FailedKeepingTrade(c) ==
    /\ at[c] = "posted"
    /\ intervals' = intervals \ {c}
    /\ isKillSwitchLocked' \in {TRUE, isKillSwitchLocked}
    /\ Reaches(c, "done")
    /\ UNCHANGED <<isTradeActive, countdown>>

(* It fails, with 423 when the kill switch is engaged.                         *)
Failed(c) ==
    /\ at[c] = "posted"
    /\ intervals' = intervals \ {c}
    /\ isTradeActive' = FALSE /\ countdown' = 0
    /\ isKillSwitchLocked' \in {TRUE, isKillSwitchLocked}
    /\ Reaches(c, "done")

(* A poll of the risk state, or a message of the socket.                       *)
KillSwitchTold ==
    /\ isKillSwitchLocked' \in BOOLEAN
    /\ UNCHANGED <<at, trade>>

PanelNext ==
    \/ \E c \in Clicks :
        Click(c) \/ RiskAnswer(c) \/ RulesAnswer(c)
        \/ CountDown(c) \/ Accepted(c) \/ Failed(c)
    \/ KillSwitchTold

PanelSpec == PanelInit /\ [][PanelNext]_panelVars

-----------------------------------------------------------------------------
(* While the buttons are disabled by a trade, an interval runs that will enable *)
(* them, although any other click's interval or failure may have been in        *)
(* between: they never stay disabled for ever.                                  *)
ActiveIsTimed == isTradeActive => intervals # {} /\ countdown > 0
=============================================================================
