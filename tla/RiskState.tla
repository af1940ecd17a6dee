------------------------------- MODULE RiskState -------------------------------
(***************************************************************************)
(* The daily risk state of one user of core-backend: the RiskState row in  *)
(* the database with its kill switch (services/riskState.service.ts), the  *)
(* HTTP handlers that read and change it with their short-lived cache      *)
(* (controllers/riskState.controller.ts), and the gate that every trade    *)
(* passes (controllers/trades.controller.ts).                              *)
(*                                                                         *)
(* Each call to the database is atomic; between two of them a handler      *)
(* waits, and other requests, a restart of the backend or midnight (UTC)   *)
(* may come.  A request is the list of the stages it has still to do: one  *)
(* database call, or one synchronous step after it, with the code that     *)
(* follows it up to the next await.  Equity is counted in whole units and  *)
(* limits in whole percent; the counters of trades, wins and losses, which *)
(* decide nothing, are left out.                                           *)
(***************************************************************************)
EXTENDS Integers, Sequences, FiniteSetsExt

CONSTANTS
    Requests,       \* HTTP requests that may be under way at once
    Ops,            \* the requests that clients send
    Trades,         \* settled trades (numbers) whose result is posted
    PnlOf,          \* [Trades -> Int]: their signed result
    BaseEquity,     \* startingEquity of a first row (10000 in the code)
    DefaultLimit,   \* DEFAULT_MAX_DAILY_DRAWDOWN_PCT
    LimitChoices,   \* limits, already clamped, that clients configure
    SeenToday,      \* whether today's row exists at the beginning
    MaxDay,         \* bound: UTC days
    MaxFaults       \* bound: failing database calls and restarts

AllOps == {"poll", "trade", "settle", "reset", "engage", "limit"}

ASSUME SettingsAssumption ==
    /\ Ops \subseteq AllOps /\ Trades \subseteq Nat /\ PnlOf \in [Trades -> Int]
    /\ BaseEquity \in Nat \ {0} /\ DefaultLimit \in Nat \ {0}
    /\ LimitChoices \subseteq Nat \ {0}
    /\ SeenToday \in BOOLEAN /\ MaxDay \in Nat \ {0} /\ MaxFaults \in Nat

Max2(a, b) == IF a > b THEN a ELSE b

(* The stages of a request.  "read" calls getState, which may have to insert   *)
(* "roll" and "heal"; "refresh" may have to insert "mark".                    *)
Queries == {"read", "roll", "heal", "increment", "refresh", "mark", "enforce", "unlock", "lock"}
Stages == Queries \cup {"configure", "respond"}

Program(op) ==
    CASE op = "poll"   -> <<"read", "respond">>
      [] op = "trade"  -> <<"read", "enforce", "respond">>
      [] op = "settle" -> <<"read", "increment", "refresh", "read", "enforce", "respond">>
      [] op = "reset"  -> <<"read", "unlock", "read", "respond">>
      [] op = "engage" -> <<"read", "read", "lock", "read", "respond">>
      [] op = "limit"  -> <<"read", "configure", "read", "respond">>

(* A user without a row is treated as one whose row is of an earlier day and   *)
(* whose peak is BaseEquity: day 0.                                           *)
Rows == [day : 0..MaxDay, start : Int, pnl : Int, peak : Int,
         locked : BOOLEAN, reason : {"none", "drawdown", "emergency"}]
FreshRow(day, equity) ==
    [day |-> day, start |-> equity, pnl |-> 0, peak |-> equity,
     locked |-> FALSE, reason |-> "none"]

VARIABLES
    row,        \* the user's row
    limit,      \* configuredDrawdownByUser, or the default
    cache,      \* riskStateCache: at most one snapshot
    today,      \* the UTC day
    req,        \* what each request does, and its local variables
    booked,     \* [Trades -> 0..MaxDay]: the day in which a result was added, or 0
    permitted,  \* history: requests since whose start trading was permitted once
    drift,      \* history: why the cache may be behind (see Drifts)
    faults      \* failures so far

vars == <<row, limit, cache, today, req, booked, permitted, drift, faults>>

-----------------------------------------------------------------------------
(* Drawdown from the high-water mark, in percent. *)
Equity(s) == s.start + s.pnl
High(s) == Max2(s.peak, Equity(s))
Loss(s) == High(s) - Equity(s)

(* drawdownPct >= limit, as getState compares it. *)
Breached(s) == High(s) > 0 /\ 100 * Loss(s) >= limit * High(s)

(* The same with drawdownPct rounded to four decimals, as a snapshot holds it  *)
(* and evaluateAndEnforce compares it.                                        *)
Over(s) == High(s) > 0 /\ 2000000 * Loss(s) >= (20000 * limit - 1) * High(s)

(* A lock that getState takes for a remnant and clears. *)
Phantom(s) == s.locked /\ ~(s.pnl < 0 /\ Breached(s)) /\ s.reason # "emergency"

(* What getState returns: the row with its mark refreshed, and after a heal     *)
(* without its lock.                                                          *)
Released(s) == [s EXCEPT !.locked = FALSE, !.reason = "none"]
LockedBy(s, reason) == [s EXCEPT !.locked = TRUE, !.reason = reason]
Marked(s) == [s EXCEPT !.peak = High(s)]
Snapshot(s) == [state |-> Marked(s), over |-> Over(s)]
Healed(s) == [state |-> Released(Marked(s)), over |-> Over(s)]

NoSnapshot == [state |-> FreshRow(0, 0), over |-> FALSE]
NoDrift == [writers |-> {}, late |-> {}, excused |-> FALSE]
Idle == [op |-> "none", todo |-> <<>>, day |-> 0, peak |-> 0, snap |-> NoSnapshot, arg |-> 0]

Init ==
    /\ row = FreshRow(IF SeenToday THEN 1 ELSE 0, BaseEquity)
    /\ limit = DefaultLimit /\ cache = NoSnapshot /\ today = 1
    /\ req = [r \in Requests |-> Idle]
    /\ booked = [t \in Trades |-> 0]
    /\ permitted = {} /\ drift = NoDrift /\ faults = 0

At(r, stage) == req[r].todo # <<>> /\ Head(req[r].todo) = stage

(* getState takes the day when it is called. *)
Called(q) == IF Head(q.todo) = "read" THEN [q EXCEPT !.day = today] ELSE q

(* mutant: a snapshot over the limit is not enforced *)
ReturnedLenient(q) ==
    IF Head(q.todo) = "enforce" THEN Called([q EXCEPT !.todo = Tail(@)]) ELSE Called(q)

(* getState has returned q.snap: a locked or uneventful snapshot leaves        *)
(* evaluateAndEnforce nothing to write.                                       *)
Returned(q) ==
    IF Head(q.todo) = "enforce" /\ (q.snap.state.locked \/ ~q.snap.over)
    THEN Called([q EXCEPT !.todo = Tail(@)])
    ELSE Called(q)

(* getState knows its row s, which may hold a lock to clear first. *)
Resolved(q, s) ==
    IF Phantom(s)
    THEN [q EXCEPT !.todo = <<"heal">> \o @, !.snap = Healed(s)]
    ELSE Returned([q EXCEPT !.snap = Snapshot(s)])

Rest(r) == [req[r] EXCEPT !.todo = Tail(@)]
Become(r, q) == req' = [req EXCEPT ![r] = q]

(* Whether the stored row lets a trade through: no lock but a remnant, and a    *)
(* drawdown below the limit.                                                  *)
Permits == (row.locked => Phantom(row)) /\ ~Over(row)

(* Requests under way that have changed what a snapshot says; polls that others *)
(* have overtaken, by such a change after they had read the row; and whether    *)
(* the cache was filled by such a poll, or was left as it was by a request that *)
(* had made a change and ended: a trade, or one that failed.                   *)
Changes == row' # row \/ limit' # limit
Goes(r) == req'[r] # req[r]
Ends(r) == Goes(r) /\ req'[r] = Idle
Clears(r) == Ends(r) /\ At(r, "respond") /\ req[r].op # "trade"
Drifts ==
    drift' =
        [writers |-> {r \in Requests : ~Ends(r) /\ (r \in drift.writers \/ (Changes /\ Goes(r)))},
         late |-> {r \in Requests :
                     /\ req[r].op = "poll" /\ ~Ends(r)
                     /\ r \in drift.late \/ (Changes /\ ~Goes(r) /\ ~At(r, "read"))},
         excused |-> /\ cache' # NoSnapshot
                     /\ IF \E r \in Requests : Clears(r)
                        THEN \E r \in drift.late : Ends(r)
                        ELSE drift.excused \/ \E r \in drift.writers : Ends(r)]

Remember ==
    /\ permitted' = {r \in Requests : req'[r].op # "none" /\ (Permits' \/ r \in permitted)}
    /\ Drifts

-----------------------------------------------------------------------------
(* The client's side: a request arrives.  A result is posted while it has not  *)
(* been added and nobody else is posting it; a poll that finds the cache full  *)
(* is answered at once and changes nothing.                                   *)
Arrive(r, op, arg) ==
    /\ req[r] = Idle /\ op \in Ops
    /\ op = "poll" => cache = NoSnapshot
    /\ Become(r, [Idle EXCEPT !.op = op, !.todo = Program(op), !.day = today, !.arg = arg])
    /\ UNCHANGED <<row, limit, cache, today, booked, faults>> /\ Remember

Send(r) ==
    \/ \E op \in {"poll", "trade", "reset", "engage"} : Arrive(r, op, 0)
    \/ \E l \in LimitChoices : Arrive(r, "limit", l)
    \/ \E t \in Trades :
        /\ booked[t] = 0 /\ \A o \in Requests : ~(req[o].op = "settle" /\ req[o].arg = t)
        /\ Arrive(r, "settle", t)

(* getState: findUnique, and a new day's row if it is of another day. *)
Read(r) ==
    /\ At(r, "read")
    /\ Become(r, IF row.day = req[r].day
                 THEN Resolved(Rest(r), row)
                 ELSE [req[r] EXCEPT !.todo = <<"roll">> \o Tail(@), !.peak = row.peak])
    /\ UNCHANGED <<row, limit, cache, today, booked, faults>> /\ Remember

(* The upsert, with the day and the peak as they were read. *)
Roll(r) ==
    /\ At(r, "roll")
    /\ row' = FreshRow(req[r].day, req[r].peak)
    /\ Become(r, Resolved(Rest(r), row'))
    /\ UNCHANGED <<limit, cache, today, booked, faults>> /\ Remember

Heal(r) ==
    /\ At(r, "heal")
    /\ row' = Released(row) /\ Become(r, Returned(Rest(r)))
    /\ UNCHANGED <<limit, cache, today, booked, faults>> /\ Remember

-----------------------------------------------------------------------------
(* recordTradeResult *)

(* mutant: the sum is computed from the snapshot instead of by the database *)
IncrementSnapshot(r) ==
    /\ At(r, "increment")
    /\ row' = [row EXCEPT !.pnl = req[r].snap.state.pnl + PnlOf[req[r].arg]]
    /\ booked' = [booked EXCEPT ![req[r].arg] = row.day]
    /\ Become(r, Rest(r))
    /\ UNCHANGED <<limit, cache, today, faults>> /\ Remember

Increment(r) ==
    /\ At(r, "increment")
    /\ row' = [row EXCEPT !.pnl = @ + PnlOf[req[r].arg]]
    /\ booked' = [booked EXCEPT ![req[r].arg] = row.day]
    /\ Become(r, Rest(r))
    /\ UNCHANGED <<limit, cache, today, faults>> /\ Remember

Refresh(r) ==
    /\ At(r, "refresh")
    /\ Become(r, IF Equity(row) > row.peak
                 THEN [req[r] EXCEPT !.todo = <<"mark">> \o Tail(@), !.peak = Equity(row)]
                 ELSE Called(Rest(r)))
    /\ UNCHANGED <<row, limit, cache, today, booked, faults>> /\ Remember

Mark(r) ==
    /\ At(r, "mark")
    /\ row' = [row EXCEPT !.peak = req[r].peak]
    /\ Become(r, Called(Rest(r)))
    /\ UNCHANGED <<limit, cache, today, booked, faults>> /\ Remember

-----------------------------------------------------------------------------
(* evaluateAndEnforce *)
Enforce(r) ==
    /\ At(r, "enforce")
    /\ row' = LockedBy(row, "drawdown")
    /\ Become(r, [Rest(r) EXCEPT !.snap = [state |-> LockedBy(req[r].snap.state, "drawdown"),
                                           over |-> req[r].snap.over]])
    /\ UNCHANGED <<limit, cache, today, booked, faults>> /\ Remember

(* resetKillSwitch, engageKillSwitch, setMaxDrawdown *)
Unlock(r) ==
    /\ At(r, "unlock")
    /\ row' = Released(row) /\ Become(r, Called(Rest(r)))
    /\ UNCHANGED <<limit, cache, today, booked, faults>> /\ Remember

Lock(r) ==
    /\ At(r, "lock")
    /\ row' = LockedBy(row, "emergency")
    /\ Become(r, Called(Rest(r)))
    /\ UNCHANGED <<limit, cache, today, booked, faults>> /\ Remember

Configure(r) ==
    /\ At(r, "configure")
    /\ limit' = req[r].arg /\ Become(r, Called(Rest(r)))
    /\ UNCHANGED <<row, cache, today, booked, faults>> /\ Remember

(* mutant: only results empty the cache *)
CacheAfterResult(r) ==
    CASE req[r].op = "poll"   -> req[r].snap
      [] req[r].op = "settle" -> NoSnapshot
      [] OTHER                -> cache

(* The end of the handler: a poll fills the cache, a trade is executed unless  *)
(* the snapshot is locked, every other request empties the cache.             *)
CacheAfter(r) ==
    CASE req[r].op = "poll"  -> req[r].snap
      [] req[r].op = "trade" -> cache
      [] OTHER               -> NoSnapshot

Respond(r) ==
    /\ At(r, "respond")
    /\ cache' = CacheAfter(r) /\ Become(r, Idle)
    /\ UNCHANGED <<row, limit, today, booked, faults>> /\ Remember

Executes(r) == At(r, "respond") /\ req[r].op = "trade" /\ ~req[r].snap.state.locked

-----------------------------------------------------------------------------
(* A database call raises: the request ends in 503 (or 500), nothing is undone *)
(* and the cache stays.                                                       *)
Fail(r) ==
    /\ req[r].todo # <<>> /\ Head(req[r].todo) \in Queries
    /\ faults < MaxFaults /\ faults' = faults + 1
    /\ Become(r, Idle)
    /\ UNCHANGED <<row, limit, cache, today, booked>> /\ Remember

(* The backend restarts: the row is all that survives. *)
Restart ==
    /\ faults < MaxFaults /\ faults' = faults + 1
    /\ req' = [r \in Requests |-> Idle]
    /\ limit' = DefaultLimit /\ cache' = NoSnapshot
    /\ UNCHANGED <<row, today, booked>> /\ Remember

CacheExpires ==
    /\ cache # NoSnapshot /\ cache' = NoSnapshot
    /\ UNCHANGED <<row, limit, today, req, booked, faults>> /\ Remember

Midnight ==
    /\ today < MaxDay /\ today' = today + 1
    /\ UNCHANGED <<row, limit, cache, req, booked, faults>> /\ Remember

Step(r) ==
    \/ Send(r) \/ Read(r) \/ Roll(r) \/ Heal(r)
    \/ Increment(r) \/ Refresh(r) \/ Mark(r) \/ Enforce(r)
    \/ Unlock(r) \/ Lock(r) \/ Configure(r) \/ Respond(r) \/ Fail(r)

Next == (\E r \in Requests : Step(r)) \/ Restart \/ CacheExpires \/ Midnight

Spec == Init /\ [][Next]_vars

-----------------------------------------------------------------------------
(* The row, the cache and the requests stay typed; the day of the row is never *)
(* in the future.                                                             *)
DriftType == [writers : SUBSET Requests, late : SUBSET Requests, excused : BOOLEAN]
SnapshotType == [state : Rows, over : BOOLEAN]
RequestType ==
    [op : AllOps \cup {"none"}, todo : Seq(Stages), day : 0..MaxDay, peak : Int,
     snap : SnapshotType, arg : Nat]
TypeOK ==
    /\ row \in Rows /\ row.day <= today
    /\ limit \in LimitChoices \cup {DefaultLimit}
    /\ cache \in SnapshotType /\ today \in 1..MaxDay
    /\ req \in [Requests -> RequestType]
    /\ booked \in [Trades -> 0..MaxDay]
    /\ permitted \subseteq Requests /\ faults \in 0..MaxFaults
    /\ drift \in DriftType

(* "Locks ALL trade execution until manually reset or the next UTC trading     *)
(* day": a lock is released by the write of a manual reset or by a row of a    *)
(* later day, and by nothing else a request does.                             *)
Unlocking == \E r \in Requests : At(r, "unlock") /\ req'[r] # req[r]
LockHolds == [][row.locked /\ ~row'.locked => Unlocking \/ row'.day > row.day]_vars

(* The realized P&L of the row is the sum of the results added on its day:     *)
(* none is lost to another request, and none counts twice.                    *)
ResultsCounted ==
    row.pnl = MapThenSumSet(LAMBDA t : PnlOf[t], {t \in Trades : booked[t] = row.day /\ row.day # 0})

(* "No trade can bypass this gate": a request about to execute its trade was    *)
(* let through by the stored row at some moment since it asked.               *)
NoBypass == \A r \in Requests : Executes(r) => r \in permitted

Quiet == \A r \in Requests : req[r] = Idle

(* When nothing is under way, the high-water mark is not below the equity, so  *)
(* that the drawdown is measured from the best moment of the day.             *)
PeakCoversEquity == Quiet => Equity(row) <= row.peak

(* The mutations empty the cache "so a successive GET never serves stale data  *)
(* after a change": however requests overlap, the cache says what the row and   *)
(* the limit say, or a request that has made a change is still under way (its   *)
(* end empties the cache, or fills it anew), or the cache is excused: by a poll *)
(* that was overtaken, a trade or a failure.  There the words are not met: the  *)
(* stale snapshot stays until it expires or another request ends.               *)
CacheKeepsUp ==
    cache # NoSnapshot /\ drift.writers = {} /\ ~drift.excused => cache = Snapshot(row)

(* The sums of the row: what was realized, and the best moment of the day.     *)
RowAddsUp == ResultsCounted /\ PeakCoversEquity
=============================================================================
