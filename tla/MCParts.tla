-------------------------------- MODULE MCParts --------------------------------
(* Parts of the platform that share no state, for TLC.  One of them runs in each *)
(* behaviour, while the others stay as they start:                               *)
(*   map, redis   the signal lock of the AI engine: requests of one process on   *)
(*                its own map, or one request at a time on Redis                 *)
(*   store        the verdict the client's panel shows                           *)
(*   panel        the trades of the panel                                        *)
(*   days         the daily risk state: requests one after another over all      *)
(*                days, without faults                                           *)
(*   losses       the same: polls, trades, two results and resets overlap on one *)
(*                losing day, with faults                                        *)
(*   locks        the same, with one result and the emergency lock               *)
(*   configured   the same, with one result and a limit that changes, no reset   *)
(*   tape         the candles of core-backend                                    *)
(*   chart        the candles of the client's chart                              *)
(*   grid         the verdicts of the client's market page                        *)
(*   limits       the limits of the execution engine, one at a time              *)
EXTENDS MCRiskState, SignalLock, VerdictStore, TradePanel, CandleTape, ChartTape, RiskLimits, MarketGrid

(* One of the requests for the lock's identity is the client of the part redis.  *)
ASSUME PartsAssumption == Callers # {}

VARIABLE part

Redis == INSTANCE SignalLock WITH Shared <- TRUE
Client == CHOOSE r \in Callers : TRUE

Setting(n, notional, fall) == [trades |-> n, open |-> notional, loss |-> fall]
Exposed == Setting(9, 1, 0)
Counted == Setting(1, 0, 0)
Losing == Setting(9, 0, 1)
Switched == Setting(9, 0, 0)
EachLimit == {Exposed, Counted, Losing, Switched}

(* For each limit, the modes that make a difference and what else may happen.    *)
LimitsStart ==
    /\ limits # Exposed => mode # "spot"
    /\ limits \in {Counted, Switched} => mode = "paper"

LimitsSteps ==
    /\ limits # Switched => UNCHANGED engaged
    /\ limits \in {Exposed, Switched} => UNCHANGED <<equity, utcDay>>
    /\ limits = Counted => UNCHANGED equity
    /\ limits = Losing => \A n \in Numbers : venue'[n] # "open"

(* The signals of the bound are handled, and nothing is left to do.              *)
LimitsEnd ==
    /\ \A n \in Numbers : StatusOf(n) \notin Pending \cup {"none"} /\ venue[n] # "open"
    /\ UNCHANGED limitVars

PartsInit ==
    /\ part \in {"map", "redis", "store", "panel", "days", "losses", "locks", "configured",
                "tape", "chart", "grid", "limits"}
    /\ LockInit /\ StoreInit /\ PanelInit /\ TapeInit /\ ChartInit /\ GridInit /\ LimitsInit
    /\ part # "store" => Selected = CHOOSE k \in Keys : TRUE
    /\ part # "panel" => ~isKillSwitchLocked
    /\ part # "grid" => minTier = CHOOSE t \in Tiers : TRUE
    /\ IF part = "limits" THEN LimitsStart ELSE limits = Exposed /\ mode = "spot"
    /\ IF part \in {"losses", "locks", "configured"} THEN LosingInit ELSE DaysInit

engineVars == <<vars, limitVars>>
clientVars == <<storeVars, panelVars, gridVars>>
barVars == <<tapeVars, chartVars>>

PartsNext ==
    /\ UNCHANGED part
    /\ \/ /\ UNCHANGED <<engineVars, clientVars, barVars>>
          /\ \/ part = "map" /\ LockNext
             \/ part = "redis" /\ (Redis!Tick \/ Redis!LockStep(Client))
       \/ /\ UNCHANGED <<engineVars, lockVars, barVars>>
          /\ \/ part = "store" /\ StoreNext /\ UNCHANGED <<panelVars, gridVars>>
             \/ part = "panel" /\ PanelNext /\ UNCHANGED <<storeVars, gridVars>>
             \/ part = "grid" /\ GridNext /\ UNCHANGED <<storeVars, panelVars>>
       \/ /\ UNCHANGED <<lockVars, clientVars>>
          /\ \/ part = "tape" /\ TapeNext /\ UNCHANGED <<engineVars, chartVars>>
             \/ part = "chart" /\ ChartNext /\ UNCHANGED <<engineVars, tapeVars>>
             \/ part = "limits" /\ UNCHANGED <<vars, barVars>>
                /\ ((LimitsNext /\ LimitsSteps) \/ LimitsEnd)
             \/ part = "days" /\ Next /\ Days /\ UNCHANGED <<limitVars, barVars>>
             \/ part = "losses" /\ Next /\ Losses /\ UNCHANGED <<limitVars, barVars>>
             \/ part = "locks" /\ Next /\ Locks /\ UNCHANGED <<limitVars, barVars>>
             \/ part = "configured" /\ Next /\ Limiting /\ UNCHANGED <<limitVars, barVars>>

PartsSpec ==
    PartsInit /\ [][PartsNext]_<<part, engineVars, lockVars, clientVars, barVars>>

-----------------------------------------------------------------------------
(* The types of every part: the caps of the tape, a lock that only a committable  *)
(* verdict fills, a risk row that is never of a future day.                      *)
PartsTypeOK ==
    TypeOK /\ LockTypeOK /\ StoreTypeOK /\ PanelTypeOK
    /\ GridTypeOK /\ TapeTypeOK /\ ChartTypeOK /\ LimitsTypeOK
=============================================================================
