------------------------------ MODULE MCRiskState ------------------------------
(* Instances of RiskState for TLC: results in units of a BaseEquity of 100, so *)
(* that a loss of 3 reaches the default limit of 3 %.                         *)
EXTENDS RiskState

TwoTrades == {1, 2}
GainThenLoss == <<5, -5>>

(* Trades of a losing day, and of two days with a gain. *)
AllTrades == {1, 2, 3, 4}
AllResults == <<-2, -3, 5, -5>>

One == CHOOSE r \in Requests : TRUE

StartOn(day) ==
    /\ row = FreshRow(day, BaseEquity)
    /\ limit = DefaultLimit /\ cache = NoSnapshot /\ today = 1
    /\ req = [r \in Requests |-> Idle]
    /\ booked = [t \in Trades |-> 0]
    /\ permitted = {} /\ drift = NoDrift /\ faults = 0

DaysInit == StartOn(0)
LosingInit == StartOn(1)

(* Requests one after another over all days, without faults. *)
Days ==
    /\ \A r \in Requests \ {One} : req'[r] = Idle
    /\ req'[One].op # "trade"
    /\ req'[One].op = "settle" => req'[One].arg \in {3, 4}
    /\ faults' = faults

(* Requests overlap on one losing day, with faults: two results; or the second  *)
(* of them alone, which locks, and the emergency lock; or that one and a limit   *)
(* that changes.                                                               *)
LosingDay(ops, trades) ==
    /\ \A r \in Requests :
        /\ req'[r].op \in ops \cup {"none", "poll", "trade", "settle"}
        /\ req'[r].op = "settle" => req'[r].arg \in trades
    /\ today' = today

Losses == LosingDay({"reset"}, {1, 2})
Locks == LosingDay({"reset", "engage"}, {2})
Limiting == LosingDay({"limit"}, {2})
=============================================================================
