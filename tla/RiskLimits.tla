------------------------------ MODULE RiskLimits -------------------------------
(***************************************************************************)
(* The limits of the execution engine: trades of a day, exposure, loss of  *)
(* a day and the kill switch (app/risk/gate.py), as process and            *)
(* reconcile_pending of app/execution/gateway.py apply them.               *)
(*                                                                         *)
(* The account, the day's equity, the trades and the exposure are read one *)
(* after another; then the gate decides, the intent is recorded, the order *)
(* placed and its answer recorded.  Between any two of these another task  *)
(* does the same for another signal, or resubmits a pending order, which   *)
(* passes no limit but the kill switch.                                    *)
(*                                                                         *)
(* What ExecutionGateway has in full (keys, replays, attempts, polling) is *)
(* left out here: a signal is new, and is in one task's hands at a time.   *)
(* All trades have the same notional, 1, and the same side.                *)
(***************************************************************************)
EXTENDS Integers, FiniteSets

CONSTANTS
    Workers,        \* the tasks: consumer, reclaim loop, reconcile loop
    Modes,          \* of trading; "spot" and "margin" are live
    Limits,         \* MAX_TRADES_PER_DAY, MAX_OPEN_NOTIONAL (in trades), MAX_DAILY_LOSS
    MaxOrders,      \* bound: signals
    Equities,       \* of the account
    Balance,        \* DEFAULT_BALANCE
    LastDay,        \* bound: the last UTC day
    MaxStops        \* bound: stops of the process

ASSUME LimitsAssumption ==
    /\ IsFiniteSet(Workers) /\ Workers # {}
    /\ Modes \subseteq {"paper", "spot", "margin"}
    /\ Limits \subseteq [trades : Nat, open : Nat, loss : Nat]
    /\ Equities \subseteq Nat /\ Balance \in Equities \ {0}
    /\ MaxOrders \in Nat \ {0} /\ {LastDay, MaxStops} \subseteq Nat

VARIABLES
    mode, limits,   \* the settings
    equity,         \* of the account, as the broker reports it
    opening,        \* [day, equity]: of the paper broker: _day, _starting_equity
    baseline,       \* of each day: starting_equity of its daily_equity row
    utcDay,
    engaged,        \* the kill switch
    orders,         \* [1..MaxOrders -> [status, day]]: the rows
    venue,          \* [1..MaxOrders -> Fates]: what the broker made of each order
    worker,         \* what each task does, and has read
    stops,          \* stops of the process
    past            \* history: [level, inserted, placed]: see LossStops, KillStops

limitVars ==
    <<mode, limits, equity, opening, baseline, utcDay, engaged, orders, venue, worker, stops, past>>

Numbers == 1..MaxOrders
UtcDays == 0..LastDay
Never == -1
Pending == {"INTENT", "UNKNOWN", "SUBMITTED"}
Statuses == Pending \cup {"none", "FILLED", "CANCELED", "REJECTED", "MANUAL_REVIEW"}
Fates == {"none", "open", "filled", "canceled"}
AtRest == [at |-> "idle"]

Reading == [at : {"judge"}, order : Numbers, day : UtcDays, equity : Equities,
            held : 0..MaxOrders, loss : Int]
Ordering == [at : {"insert", "place"}, order : Numbers]
Answered == [at : {"mark"}, order : Numbers, answer : Statuses]

LimitsTypeOK ==
    /\ mode \in Modes /\ limits \in Limits
    /\ equity \in Equities
    /\ opening \in [day : UtcDays, equity : Equities]
    /\ baseline \in [UtcDays -> (Equities \ {0}) \cup {Never}]
    /\ utcDay \in UtcDays
    /\ engaged \in BOOLEAN
    /\ orders \in [Numbers -> [status : Statuses, day : UtcDays]]
    /\ venue \in [Numbers -> Fates]
    /\ worker \in [Workers -> Reading \cup Ordering \cup Answered \cup {AtRest}]
    /\ stops \in 0..MaxStops
    /\ past \in [level : Equities \cup {Never}, inserted : Nat, placed : Nat]

Paper == mode = "paper"
StatusOf(n) == orders[n].status
InHand(n) == \E w \in Workers : worker[w] # AtRest /\ worker[w].order = n
FilledOrders == Cardinality({n \in Numbers : venue[n] = "filled"})

open_exposure == Cardinality({n \in Numbers : StatusOf(n) \in Pending})

(* mutant: from the next day on *)
TradesAfter(day) ==
    Cardinality({n \in Numbers : StatusOf(n) = "FILLED" /\ orders[n].day > day})

TradesSince(day) ==
    Cardinality({n \in Numbers : StatusOf(n) = "FILLED" /\ orders[n].day >= day})

LimitsInit ==
    /\ mode \in Modes /\ limits \in Limits
    /\ equity = Balance
    /\ opening = [day |-> 0, equity |-> Balance]
    /\ baseline = [d \in UtcDays |-> Never]
    /\ utcDay = 0 /\ engaged = FALSE
    /\ orders = [n \in Numbers |-> [status |-> "none", day |-> 0]]
    /\ venue = [n \in Numbers |-> "none"]
    /\ worker = [w \in Workers |-> AtRest]
    /\ stops = 0
    /\ past = [level |-> Never, inserted |-> 0, placed |-> 0]

-----------------------------------------------------------------------------
(* account_snapshot: a new signal, in the order of the stream.                 *)
TakeSignal(w) ==
    /\ worker[w] = AtRest
    /\ \E n \in Numbers :
        /\ StatusOf(n) = "none" /\ ~InHand(n)
        /\ \A m \in 1..(n - 1) : StatusOf(m) # "none" \/ InHand(m)
        /\ opening' = IF Paper /\ opening.day # utcDay
                      THEN [day |-> utcDay, equity |-> equity] ELSE opening
        /\ worker' = [worker EXCEPT ![w] =
                [at |-> "judge", order |-> n, day |-> utcDay, equity |-> equity,
                 held |-> IF mode = "spot" THEN 0 ELSE FilledOrders,
                 loss |-> IF Paper THEN opening'.equity - equity ELSE 0]]
    /\ UNCHANGED <<mode, limits, equity, baseline, utcDay, engaged, orders, venue, stops, past>>

Larger(a, b) == IF a > b THEN a ELSE b

(* observe_equity: the first equity that is seen in a day stays its baseline.  *)
Baseline(w) ==
    IF baseline[worker[w].day] = Never THEN worker[w].equity ELSE baseline[worker[w].day]

(* The larger of the loss that the paper broker reports and that of the row.    *)
LossSeen(w) ==
    IF worker[w].equity > 0 THEN Larger(worker[w].loss, Baseline(w) - worker[w].equity)
    ELSE worker[w].loss

LossReached(w) == limits.loss > 0 /\ LossSeen(w) >= limits.loss

(* evaluate; the larger of what is held and what is pending counts, and a limit *)
(* of 0 is none, but for the trades.                                            *)
WithinLimits(w) ==
    /\ TradesSince(worker[w].day) < limits.trades
    /\ ~LossReached(w)
    /\ Paper \/ worker[w].equity > 0
    /\ limits.open > 0 => Larger(worker[w].held, open_exposure) + 1 <= limits.open

(* mutant: without the kill switch *)
AllowedAnyway(w) == WithinLimits(w)

Allowed(w) == ~engaged /\ WithinLimits(w)

Recorded(n, status) == [orders EXCEPT ![n].status = status, ![n].day = utcDay]
Finishes(w) == worker' = [worker EXCEPT ![w] = AtRest]

(* observe_equity, daily_stats, open_exposure and evaluate, in one step: each    *)
(* limit rests on one of them, and may be as old as the time until the insert.  *)
Judge(w) ==
    /\ worker[w].at = "judge"
    /\ baseline' = IF worker[w].equity > 0
                   THEN [baseline EXCEPT ![worker[w].day] = Baseline(w)] ELSE baseline
    /\ \/ /\ Allowed(w)
          /\ worker' = [worker EXCEPT ![w] = [at |-> "insert", order |-> @.order]]
          /\ UNCHANGED <<orders, past>>
       \/ /\ ~Allowed(w)
          /\ orders' = Recorded(worker[w].order, "REJECTED")
          /\ Finishes(w)
          /\ past' = IF LossReached(w) /\ worker[w].day = utcDay
                         /\ worker[w].equity >= equity /\ past.level = Never
                      THEN [past EXCEPT !.level = worker[w].equity, !.inserted = 0]
                      ELSE past
    /\ UNCHANGED <<mode, limits, equity, opening, utcDay, engaged, venue, stops>>

InsertIntent(w) ==
    /\ worker[w].at = "insert"
    /\ orders' = Recorded(worker[w].order, "INTENT")
    /\ worker' = [worker EXCEPT ![w].at = "place"]
    /\ past' = [past EXCEPT !.inserted = IF past.level = Never THEN 0 ELSE @ + 1]
    /\ UNCHANGED <<mode, limits, equity, opening, baseline, utcDay, engaged, venue, stops>>

(* The loss that was seen is over once the equity is above its level again.     *)
PastAt(e) == IF e > past.level THEN [past EXCEPT !.level = Never, !.inserted = 0] ELSE past

(* place_order.  Paper fills at once, at a price that revalues what is held, or *)
(* lacks the cash; a venue takes the order, fills or refuses it, and its answer *)
(* may be lost.                                                                 *)
Place(w) ==
    /\ worker[w].at = "place"
    /\ \E fate \in {"none", "open", "filled"}, answer \in Statuses :
        /\ \/ Paper /\ <<fate, answer>> \in {<<"filled", "FILLED">>, <<"none", "REJECTED">>}
           \/ ~Paper /\ <<fate, answer>> \in
                {<<"filled", "FILLED">>, <<"open", "SUBMITTED">>, <<"open", "UNKNOWN">>,
                 <<"none", "REJECTED">>, <<"none", "UNKNOWN">>}
        /\ venue' = [venue EXCEPT ![worker[w].order] = fate]
        /\ worker' = [worker EXCEPT ![w] =
                [at |-> "mark", order |-> @.order, answer |-> answer]]
        /\ \/ UNCHANGED equity
           \/ Paper /\ fate = "filled" /\ FilledOrders > 0 /\ equity' \in Equities
        /\ past' = [PastAt(equity') EXCEPT !.placed = IF engaged THEN @ + 1 ELSE 0]
    /\ UNCHANGED <<mode, limits, opening, baseline, utcDay, engaged, orders, stops>>

SetStatus(n, status) == orders' = [orders EXCEPT ![n].status = status]

MarkStatus(w) ==
    /\ worker[w].at = "mark"
    /\ \/ SetStatus(worker[w].order, worker[w].answer)
       \/ worker[w].answer = "UNKNOWN" /\ SetStatus(worker[w].order, "MANUAL_REVIEW")
    /\ Finishes(w)
    /\ UNCHANGED <<mode, limits, equity, opening, baseline, utcDay, engaged, venue, stops, past>>

-----------------------------------------------------------------------------
(* _handle_existing: the broker knows the order (a venue, by the id that it has *)
(* answered), or it raises, or attempts or time have run out, ...               *)
Visible(n) == venue[n] # "none" /\ (Paper \/ StatusOf(n) = "SUBMITTED")

Reconcile(n) ==
    /\ StatusOf(n) \in Pending /\ ~InHand(n)
    /\ \/ Visible(n) /\ venue[n] = "filled" /\ SetStatus(n, "FILLED")
       \/ Visible(n) /\ venue[n] = "canceled" /\ SetStatus(n, "CANCELED")
       \/ ~(Paper /\ Visible(n)) /\ SetStatus(n, "MANUAL_REVIEW")
    /\ UNCHANGED <<mode, limits, equity, opening, baseline, utcDay, engaged, venue, worker>>
    /\ UNCHANGED <<stops, past>>

(* ... or it does not, and takes order ids that repeat, as the paper broker:    *)
(* submitted once more.  (A venue takes them with ASSUME_CLIENT_ORDER_          *)
(* IDEMPOTENCY, which is off here; ExecutionGateway has both.)                  *)
Resubmit(w, n) ==
    /\ worker[w] = AtRest
    /\ StatusOf(n) = "INTENT" /\ ~InHand(n) /\ ~Visible(n)
    /\ Paper /\ ~engaged
    /\ worker' = [worker EXCEPT ![w] = [at |-> "place", order |-> n]]
    /\ UNCHANGED <<mode, limits, equity, opening, baseline, utcDay, engaged, orders, venue, stops, past>>

(* mutant: the baseline is kept in the process *)
StopEngineForgetting ==
    /\ stops < MaxStops /\ stops' = stops + 1
    /\ worker' = [w \in Workers |-> AtRest]
    /\ baseline' = [d \in UtcDays |-> Never]
    /\ UNCHANGED <<mode, limits, equity, opening, utcDay, engaged, orders, venue, past>>

(* A stop of the process: the paper broker starts anew.                         *)
StopEngine ==
    /\ stops < MaxStops /\ stops' = stops + 1
    /\ worker' = [w \in Workers |-> AtRest]
    /\ IF Paper
       THEN /\ venue' = [n \in Numbers |-> "none"]
            /\ equity' = Balance
            /\ opening' = [day |-> utcDay, equity |-> Balance]
            /\ past' = [past EXCEPT !.level = Never, !.inserted = 0]
       ELSE UNCHANGED <<venue, equity, opening, past>>
    /\ UNCHANGED <<mode, limits, baseline, utcDay, engaged, orders>>

VenueActs(n) ==
    /\ venue[n] = "open"
    /\ \E fate \in {"filled", "canceled"} : venue' = [venue EXCEPT ![n] = fate]
    /\ UNCHANGED <<mode, limits, equity, opening, baseline, utcDay, engaged, orders, worker, stops, past>>

EquityMoves ==
    /\ ~Paper
    /\ equity' \in Equities \ {equity}
    /\ past' = PastAt(equity')
    /\ UNCHANGED <<mode, limits, opening, baseline, utcDay, engaged, orders, venue, worker, stops>>

Engage ==
    /\ engaged' = ~engaged
    /\ past' = [past EXCEPT !.placed = 0]
    /\ UNCHANGED <<mode, limits, equity, opening, baseline, utcDay, orders, venue, worker, stops>>

NextDay ==
    /\ utcDay < LastDay /\ utcDay' = utcDay + 1
    /\ past' = [past EXCEPT !.level = Never, !.inserted = 0]
    /\ UNCHANGED <<mode, limits, equity, opening, baseline, engaged, orders, venue, worker, stops>>

LimitsNext ==
    \/ \E w \in Workers :
        \/ TakeSignal(w) \/ Judge(w) \/ InsertIntent(w) \/ Place(w) \/ MarkStatus(w)
        \/ \E n \in Numbers : Resubmit(w, n)
    \/ \E n \in Numbers : Reconcile(n) \/ VenueActs(n)
    \/ StopEngine \/ EquityMoves \/ Engage \/ NextDay

LimitsSpec == LimitsInit /\ [][LimitsNext]_limitVars

-----------------------------------------------------------------------------
Others == Cardinality(Workers) - 1

(* The orders that are pending stay within MAX_OPEN_NOTIONAL (gate.py:167), but   *)
(* for one of each other task that has judged by then; on paper, those that are   *)
(* pending or held do.  A venue's may be twice as many: what is pending and what  *)
(* is held are compared with the cap one by one (gateway.py:118).                 *)
ExposureBounded ==
    limits.open > 0 =>
        /\ Cardinality({n \in Numbers : StatusOf(n) \in Pending}) <= limits.open + Others
        /\ mode = "paper" /\ stops = 0 =>
            Cardinality({n \in Numbers : venue[n] = "filled" \/ StatusOf(n) \in Pending})
                <= limits.open + Others

(* Paper orders fill as they are placed, so that a day has at most one trade too *)
(* many for each other task.                                                     *)
TradesBounded ==
    mode = "paper" /\ stops = 0 =>
        \A d \in UtcDays :
            Cardinality({n \in Numbers : StatusOf(n) = "FILLED" /\ orders[n].day = d})
                <= limits.trades + Others

(* Both limits together: signals judged at the same time pass them by no more    *)
(* than one order for each other task.                                           *)
LimitsBounded == ExposureBounded /\ TradesBounded

(* Once a task has seen the loss of the day at its limit, no signal but those    *)
(* that other tasks are handling becomes an order, unless the equity recovers    *)
(* or the day ends: neither a restart nor a later look at a lower equity moves   *)
(* the baseline.                                                                 *)
LossStops == past.level # Never => past.inserted <= Others

(* Once the kill switch is engaged no task places a second order.                *)
KillStops == engaged => past.placed <= Cardinality(Workers)

(* What stops trading stops it: neither the loss of the day nor the switch lets  *)
(* through more than what had passed it when it was reached.                     *)
StopsHold == LossStops /\ KillStops
=============================================================================
