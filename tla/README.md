# Verification of ai-trading

TLA+ models of the parts of this repository where order, failure and time decide
whether the program is right, the TLC runs that check them on small instances,
and TLAPS proofs of what matters most for every instance.

## 1. The system

| Component | State it keeps | Operations | Talks to |
|---|---|---|---|
| `ai-engine` (Python) | model caches, signal locks, accuracy records | `/tick-signal`, `/predict`, publishing of signals | core-backend over HTTP, Redis (pub/sub, stream, locks) |
| `core-backend` (TypeScript) | tick ring, candles, circuit breaker, verdict caches, feed incidents, risk state and signals in Postgres | ingestion of ticks, `/predict`, dispatch to the engine, durable signal consumer, REST and sockets | ai-engine, Redis stream, pocket-bridge, HTTP price sources, clients |
| `execution-engine` (Python) | SQLite order store, daily equity row, consumer group position | consumption of signals, risk gate, order submission, retries, reconciliation | Redis stream, a broker (paper or ccxt) |
| `pocket-bridge` (Python) | sessions with the broker, one reader per pair, registry of pairs | subscribe and unsubscribe, readers with retry and eviction, session refresh, relay | Pocket Option, core-backend |
| `client-app` (React) | selection, verdict, signal lock, trade under way, candles of the chart | selection, `/predict`, execution of trades, aggregation of ticks | core-backend |

The path of a price: a reader of the pocket-bridge gets it from the broker and the
relay passes it to core-backend, whose **live tape** takes it, or a price of an HTTP
source while the broker is away. It becomes part of a **candle**, goes to the clients,
where it becomes part of a candle of the **chart**, and is dispatched to the ai-engine
for a verdict.

The path of a signal: core-backend asks the ai-engine for a verdict (through a **circuit
breaker**); the engine answers and holds it for the selected expiry (**signal lock**); the
client shows it (**verdict store**). A signal is also appended to a Redis stream, from which
core-backend stores it (**durable signals**) and the execution engine makes at most one order
at a broker of it (**execution gateway**), within its **limits**; the results of the
operator's own trades are kept in the **risk state** of core-backend.

What is hard in it:

* *execution-engine*: at-least-once delivery with `XAUTOCLAIM`, so that two coroutines
  may handle one event; a crash between the write-ahead row, the venue and the update
  of the row; requests that reach the venue after their caller gave up; a reconcile
  loop that works on a snapshot; restarts in another mode; limits that are read by one
  task while another is about to insert.
* *circuit breaker, `/predict`*: requests posted in one state of the breaker report in
  another; overlapping requests fill two caches with different lives, and a fallback
  is taken from them after timeouts and retries.
* *signal lock*: Redis commands of several replicas interleave, raise or take effect
  without an answer.
* *risk state*: read-modify-write sequences over a database shared by concurrent requests,
  with midnights between them.
* *tick dispatch*: a coalescing timer, an in-flight mark and late answers.
* *durable signals*: crashes between read and acknowledgement, several instances, a
  stream that is trimmed.
* *live tape*: a poll that waits while the broker comes back; two latches and a counter
  that decide what clients are told.
* *candles, chart*: several writers of one series, two clocks, restarts and replays.
* *pocket-bridge*: three processes and two sockets that come and go separately, a budget
  of broker clients, readers that end for many reasons and must be started again.
* *client*: requests shared, superseded, retried and answered in any order, each with a
  hand in one spinner, one banner and one panel; two awaits before a trade is active;
  batches of verdicts that take up to a minute while others are asked for.
* *sockets*: connections that break at one end first, outlive their clients, restore what
  they were, or die without a word.
* *session with the broker*: the status comes in frames that may be lost or late, and
  a refresh may log in with a password, which must not be repeated without end.

## 2. Modules

| Module | What it models | Code |
|---|---|---|
| `ExecutionGateway` | order life cycle: consumer group, gateway, order store, broker and venue, reconcile loop, restarts | `execution-engine/app/infra/stream_consumer.py`, `execution/gateway.py`, `state/store.py`, `broker/*.py`, `main.py` |
| `OrderContract` | the abstract promise of the gateway | behaviour of the same files, the constraints of `state/store.py` |
| `RiskLimits` | limits of the execution engine as its tasks apply them | `execution-engine/app/risk/gate.py`, `execution/gateway.py`, `state/store.py`, `broker/paper.py` |
| `EngineCircuit` | circuit breaker with the user it has | `core-backend/src/lib/engineCircuitBreaker.ts` |
| `PredictRoute` | the whole of `POST /predict` around it | `core-backend/src/controllers/signal.controller.ts` |
| `SignalLock` | signal lock with its users | `ai-engine/app/services/signal_lock.py`, `api/v1/signals.py` |
| `ExpiryContract` | the abstract promise of the lock | docstrings and behaviour of `signal_lock.py` |
| `RiskState` | daily risk row, kill switch, the handlers with their cache, the trade gate | `core-backend/src/services/riskState.service.ts`, `controllers/riskState.controller.ts`, `controllers/trades.controller.ts` |
| `TickDispatch` | dispatch of ticks to the scorer, and what clients are shown | `core-backend/src/services/liveTickSignal.dispatch.ts` |
| `DurableSignals` | stream of broadcasts and its consumer group | `core-backend/src/messaging/signalStream.ts`, `subscriber.ts` |
| `DeliveryContract` | the abstract promise of the stream and its consumers | behaviour of the same files, the unique index of the rows |
| `FeedIngestion` | live tape of a symbol, cascade of sources, incidents | `core-backend/src/services/tickIngestion.service.ts`, `forexData.service.ts`, `lib/feedStatus.ts` |
| `CandleTape` | candles of a symbol, their stored minutes and the backfill | `core-backend/src/services/realtimeCandleAggregator.service.ts`, `historyCollector.service.ts` |
| `PoBridge` | subscriptions from the browser to the readers of the broker | `pocket-bridge/pocket_bridge/bridge.py`, `relay.py`, `core-backend/src/services/pocketOptionBridge.service.ts` |
| `VerdictStore` | `/predict` requests and the verdict of the panel | `client-app/src/store/useTradingStore.ts`, `lib/signalLock.ts` |
| `TradePanel` | `executeTrade` behind its two buttons | the same store, `components/trading/trading-panel.tsx` |
| `ChartTape` | candles of the chart and the closes that are told | `client-app/src/lib/realtimeCandleAggregator.ts`, the same store, `hooks/useWebSocket.ts` |
| `MarketGrid` | verdicts on the cards of the client's market page | `client-app/src/hooks/useMarketTerminal.ts`, `store/useMarketTerminalStore.ts` |
| `StreamWatch` | how a page knows that its stream is alive, and what it does if not | `client-app/src/hooks/useWebSocket.ts`, `useSocket.tsx` |
| `ChartRooms` | rooms of the sockets, what is armed for them at the broker, the hook that subscribes | `core-backend/src/index.ts`, `services/websocket.service.ts`, `client-app/src/hooks/useWebSocket.ts` |
| `PoAuth` | a session with the broker that dies: refreshes, logins, alerts | `core-backend/src/services/poAuthManager.ts`, `poSessionMonitor.service.ts`, `pocketOptionBridge.service.ts` |
| `MCBackend`, `MCParts`, `MCStreams` | compositions for TLC: one of several services or parts runs in each behaviour | |
| `MCExecutionGateway`, `MCRiskState`, `MCFeedIngestion` | functions and sequences that a `.cfg` cannot write | |
| `*Proofs` | theorems (section 5) | |

`PROJECT.json` maps every definition to the lines it stands for. One rule holds
everywhere: what an `await` waits for (a query, a command, an answer) is one action,
together with the synchronous code after it, up to the next `await`. Definitions marked
`mutant:` are plausible mistakes; each property is violated when the definition that
follows is replaced by its mutant.

How the modules compose: `PredictRoute` extends `EngineCircuit`, whose steps its own
are; `ExecutionGateway` implements `OrderContract`, `SignalLock` `ExpiryContract` and
`DurableSignals` `DeliveryContract`; `PoBridge` is itself the composition of three processes. The other components meet over data the models leave open (a
verdict, a price), so that each is checked against any behaviour of its neighbours, and
`MCBackend`, `MCParts` and `MCStreams` put them beside each other only to share a run.

### 2.1 ExecutionGateway

*State.* `orders` is the SQLite table; `delivered`, `pel`, `cursor`, `claimed` are the
Redis group and what the two consumer loops hold of it; `pc`, `entry`, `rec`, `verdict`
are the locals of the three asyncio tasks; `queue` is the snapshot of
`reconcile_pending`; `placed`, `venue`, `orphans` are the world: what the venue
created, what became of it, and requests still travelling after their caller gave up.

*Actions.* `ReadGroup`, `Dispatch`, `Reclaim`, `DispatchClaimed`, `DeadLetter`, `Ack` are
the consumer; `RecordInvalid`, `Deny`, `GetByEvent`, `GetByDedupe`, `RiskGate`,
`InsertIntent`, `PaperPlace`, `VenueAccepts`, `PlaceTimesOut`, `AnswerLost`,
`AnswerAccepted`, `PlaceRefused`, `AttemptSubmit`, `MarkStatus` are `process` and
`_submit`, one per await; `SnapshotPending`, `ReconcileNext`, `FetchFound`, `FetchNone`,
`FetchRaises`, `AttemptUnresolved` are the reconcile path. `HandlerRaises`, `Crash`,
`OrphanAccepted`, `VenueSettles`, `GrowOld` are failures and the outside.

*Abstractions.* The numbers of the risk gate are left open: it admits or denies
(`RiskLimits` has them). The kill switch may read as either value each time. Time is one
bit per event, "older than the reconcile age and the poll timeout". A record loses its
row when the code no longer looks at it, which merges states nobody can tell apart.

*Contract.* `OrderContract` has what a reader of the stream or of the venue can rely on:
rows that are written once and never deleted, orders that are placed once and after the
row, and signals that are answered for good once a row accounts for them. Of the gateway
it is told `rows`, `placed` with `venue`, and what is delivered and no longer pending.

### 2.2 RiskLimits

A task (`worker`) reads account, equity of the day, trades and exposure one after
another (`TakeSignal` and `Judge`), inserts (`InsertIntent`), places (`Place`) and records
(`MarkStatus`); `Resubmit` is the reconcile loop's second submission, which passes only
the kill switch, `Reconcile` a poll of an order. `baseline` is the `daily_equity` row,
`opening` what the paper broker keeps in memory, which `StopEngine` loses. `past` is
history: what has been judged and placed since a limit was reached. Keys, replays and
attempts, which `ExecutionGateway` has, are left out; all orders have notional 1.

### 2.3 EngineCircuit and PredictRoute

`life` holds, for each of the `FailureThreshold` newest failures, how long it still
counts; `tripped`, `openFor`, `halfOpen` are the two maps of the breaker. `Admit` is
`engineCircuitOpen` answering "no", `Refuse` answering "yes" together with the failure
the handler's catch block then records; `Succeed`, `Fail`, `Unrecorded` are the ways a
post ends. `Tick` is time and `EngineChanges` the engine.

`PredictRoute` gives each request a `stage`: it is served from the cache (`ServeCached`),
or awaits the market (`Begin`, `MarketUnknown`), asks the breaker (`Ask`, `AskRefused`) and
posts, pausing between attempts (`AttemptFails`, `PostAgain`), until it ends with a verdict
(`Answers`), without one (`Undecided`), or in the catch block (`Rejected`, `PostFails`),
which falls back on the last good verdict or reports failure (`FallBack`). `good` is both
caches: they are filled by the same two calls, so that one entry, with what remains of
the longer life, stands for the pair. `answer` is what the last step sent. Market
quality and the price drift of the stale re-arm are choices; the payload is left out.

### 2.4 SignalLock and ExpiryContract

`cell` is the key of one identity, in Redis (`Shared = TRUE`) or the process' map.
`Get`, `Drop`, `Set` are the three commands; `Missing`, `Held`, `Fill` the code between
them; `RedisFails` a command that raises before or after it took effect; `Tick` the
clock and Redis' TTL. `ExpiryContract` says what a lock owes: at most one verdict is in
force, it is not replaced before its deadline, and the deadline is never further away
than the expiry. `SignalLock!Contract` instantiates it with the stored payload while
its deadline is ahead, and nothing afterwards; `ContractHonoured` is the refinement.

Left out: `_validate_response_finite` (it raises on non-finite payloads, before the
lock is asked); `release` and `close`, which nothing calls; clocks that differ between
replicas.

### 2.5 RiskState

`row` is the row of one user, `limit` the process' map of configured limits, `cache` the
snapshot the GET handler keeps for five seconds, `today` the UTC day. A request is
the list of the stages it has to go through; `Program` gives the list of each route,
and `getState` and `recordTradeResult` put stages in front of it (`"roll"`, `"heal"`,
`"mark"`) when they find that they have to write. `Read`, `Roll`, `Heal` are `getState`;
`Increment`, `Refresh`, `Mark` `recordTradeResult`; `Enforce` `evaluateAndEnforce`;
`Unlock`, `Lock`, `Configure` the operator's requests; `Respond` the end of the handlers.
`booked`, `permitted` and `drift` are history: the day on which a result was added, whether
the row let trading through since the request arrived, and why the cache may be behind:
who has changed row or limit and is still under way, which polls were overtaken by such a
change, and whether the cache holds what one of those filled in or was left by a trade or
a failed request. Equity is counted in units and
limits in percent; `Breached` and `Over` are the two comparisons of the code, before
and after its rounding to four decimals.

### 2.6 TickDispatch, DurableSignals, FeedIngestion

*TickDispatch.* `beat`, `timer`, `inFlight`, `rescan` are the dispatcher's marks of one
symbol; a request in `posts` carries the newest tick of its window. `TickArrives` is
`enqueue` with all it calls, `BeatEnds` and `TimerFires` the interval and its timer,
`EngineAnswers` the rest of `runDispatch` with `broadcast` and the settling of the mark.
`shown` is what was last broadcast, beside what the answers wanted to be broadcast.

*DurableSignals.* `log`, `first`, `delivered`, `pel` are the Redis stream and its group;
`at` and `batch` the loop of each instance; a batch is the set of its entries, which the
loop takes in the order of their ids. `Publish` appends and trims; `Start` claims
what is idle; `Read`, `LookUp`, `Create`, `Ack` are the loop. A query may raise before or
after it took effect; `Crash` leaves what is pending to others. `Delivery` maps the module to
`DeliveryContract`: what was delivered and is pending no more is *released*; what lies below
`first` is *trimmed*.

*FeedIngestion.* `tape` and `tapeAge` are who wrote the newest price and when; `failures`,
`wait`, `degraded`, `proxied`, `sourceFailures`, `rest` decide whether and whom to ask. `Polls`
is `pollOnce` to its await, `SourcesAnswer` and `SourcesFail` the rest of it, `PoTick` and
`GithubTick` the two writers that do not poll. `Second` is the interval with all ages.

### 2.7 CandleTape and ChartTape

*CandleTape.* `open` and `closed` are the bars of one symbol and frame, each with the
ticks it has seen. `BrokerTick`, `HttpTick`, `HeldTick` are ticks by the broker's clock, by
the local one, and the repeated last one; `OtherTick` moves the clock the `Sweep` closes
by; `LastLeaves` is `removeSymbol`; `Reboot` and `Backfill` the start of a process and the
stored minutes merged into what came in meanwhile. What the collector has stored is any
part of the ticks, because rows are replaced, cut and missed.

*ChartTape.* `ticks`, `history`, `sealed`, `live` are the series of the active symbol. It is
written by `Quotes` (`ingest`), `Subscribe` (the ring of core-backend replayed:
`SeedBatch`), `SeedHistory` (the bars of a `/predict` answer), `SetTimeframe` (`rebuild`, and
the bars cached) and `HardReset`. A bar is the start of its window: prices and their
sanitizing are left out. `told` is history: the closes passed to `onCandleClose`, each of
which asks for a verdict.

### 2.8 PoBridge

Pairs have a `reader` in the bridge (connecting, streaming, backing off, none), wanted by
browsers (`wanted`, `poArmedByClient`), subscribed on a socket (`frames`, `asking`) that the
relay passes on (`line`). `Backend`, `Relay`, `Handlers`, `Keepers` are the steps of the
three processes, `Reading` those of a reader; `own` are the broker clients readers
have beside the control client, of which there are `Slots`. The environment drops
sockets, crashes the bridge, takes the broker away and brings it back, silences a pair,
expires the session and captures a new one. A new session file is read whether or not the
broker is there: `Reload` tears every reader down, `Rejoin` connects once it has the lock,
and `ReloadRefreshes` is the refresh of a credential that is rejected then. A refresh, on
rejection (`Refreshed`) or periodic (`RefreshLoop`), may or may not reach the file, which
`docker-compose.yml:226` mounts read-only.

### 2.9 VerdictStore and TradePanel

*VerdictStore.* A request is identified by symbol, frame and horizon. `fetches` holds the
requests under way, the newest, the timers, the spinner and the banner. `SelectSymbol`,
`OpenWidget`, `SelectFrame`, `SelectHorizon`, `RejectSymbol`, `AskAgain`, `FireRetry` start
requests; `Answer`, `Superseded`, `FailForNow`, `FailForGood` end them; `Dispatch` and
`DispatchWaiting` are `applyLiveSignal`; `LockMatures` is the expiry. The debounce and the
expiry are left to chance. The store's hard reset and aborted requests are left out.

*TradePanel.* `at` is where each click is: it awaits the risk state, the rules, then the
post; `intervals` are the clicks whose countdown runs. `CountDown` is a beat of one.

### 2.10 MarketGrid

`debounced` is the timer of `scheduleRefresh`, `seq` the number of the newest refresh of
each time the page was opened (`mount`), `latest` the cards it is about. `RefreshNow`,
`SetCardHorizon`, `SetMinTier` and `LoopRefreshes` schedule one, `PostBatch` is its timer,
`BatchAnswered` and `BatchFails` are the two ends of the request, `Remount` leaves the page
and opens it again. A card keeps the refresh its verdict is an answer to (`ask`), which is
history: the code keeps the number in the closure of the request.

### 2.11 ChartRooms

`page` is what a client shows, `refs` what its two mounts of the hook believe to be
subscribed to, `pipe` and `wire` the connection and the frames on it. `socket` is the session
core-backend has for it, `ghosts` are sessions whose client has gone on to another, `kept`
what `connectionStateRecovery` may restore. `SelectSymbol`, `SelectFrame`, `LeaveChart`,
`EnterChart`, `Connect` are what makes the hooks emit, `HandleSubscribe` and
`HandleUnsubscribe` the handlers, `SessionEnds` and `GhostEnds` that of `disconnect`. `Cut` and
`ClientNotices` break a connection at one end after the other.

### 2.12 PoAuth

`relay` is the status of the bridge, `lastStatus` what core-backend believes it to be, `auth` the
fields of `PoAuthManager`, `run` the child process that refreshes, `monitor` the fields of the
monitor. `HandleStatus`, `HandleHeartbeat` and `LateProof` are the frames of the relay;
`ScriptLogsIn` and the four `Run...` actions the life of a refresh; `Poll` is the monitor.
`past` is history: the logins since a human or a success. Time goes by in polls.

### 2.13 StreamWatch

`age` holds the clocks of the hook and of the provider, `shown` what the page shows,
`timers` what is due in this beat. `Frame(kind)` is a frame with the clocks it sets, `Sweep` the
heartbeat of the hook with the effect it triggers (`Recover`), `Watch` the watchdog of the
provider. `Dies` is a pipe that delivers nothing and closes nothing; socket.io's own
heartbeat, which may notice it sooner, is not relied on.

## 3. Runs

Twelve runs. Components that share no state share a run: `Backend`, `Parts` and `Streams`
start in any of their services or parts and stay in it, which is a union of state spaces, not a
product.

| Run | Instance | What it shows |
|---|---|---|
| `GwKeys` | two signals of one dedupe window; live or, after a restart, disabled; no idempotent client ids; two attempts, one fault, one crash | types; a live order holds its dedupe key; the gateway implements `OrderContract`; what is acknowledged left a trace |
| `GwSettles` | an invalid entry and a signal that may grow old; live or paper; three attempts, one fault | every row is settled and every entry acknowledged in the end |
| `GwRetryKeys` | two signals of one window, idempotent client ids | **violation**: 6.1 |
| `Backend` | *route*: two requests, two keys, threshold 2, two posts per request. *dispatch*: five ticks, nine verdicts. *durable*: two instances, two entries, a crash and an error. *feed*: an OTC and a forex symbol. *auth*: two logins, four troubles. *rooms*: two clients, pairs and frames, two moves, one break | 15 properties, see section 4 |
| `EcStuckOpen` | two requests, threshold 2 | **violation**: 6.2 |
| `StreamWritten` | one instance, a crash | **violation**: 6.4 |
| `FeedPoOnline` | one symbol | **violation**: 6.5 |
| `Parts` | *map*: the lock of one process, three requests. *redis*: the lock in Redis, one request at a time, two faults. *store*: two symbols, frames and horizons, two choices. *panel*: three clicks. *days*: risk state, requests one after another, two days, a gain and a loss. *losses*: two overlapping requests (polls, trades, resets, two results), a losing day, one fault or restart. *locks*: the same with one result and the emergency lock. *configured*: the same with one result and new limits, no reset. *tape*: three ticks, two boots. *chart*: two frames, three ticks, one seed, change or reset. *grid*: two cards, tiers and mounts, two refreshes of each. *limits*: two tasks, three signals, each limit in turn | 14 properties, see section 4 |
| `RsGiveback` | one request, +5 then -5 | **violation**: 6.3 |
| `VerdictOther` | two symbols, three choices | **violation**: 6.6 |
| `Streams` | *bridge*: a configured pair and two that browsers ask for, one slot, two asks, one upset. *watch*: thresholds of one to four beats, one reset | types; the budget is kept; what is wanted is answered; what is armed and attended streams again; a dead connection is replaced |
| `BridgeRearms` | the same with one pair | **violation**: 6.7 |

### 3.1 Bounds

* *Gateway*: two entries are enough for a re-published event, two events of one window,
  and a claim of an entry while another is handled; three tasks are all there are.
  `MaxAttempts` 2 or 3 gives the retry that is allowed and the one that is not. One
  fault and one crash let every label of a task be interrupted once. `Ageing` names the
  events that may grow old. `GwSettles` has no crash: with one and two attempts it
  passes too, but takes most of five minutes.
* *Limits*: with two tasks one is the "other" of every bound, three signals go one beyond
  it, `Equities = {1, 2}` has a loss at the limit and a recovery, and one stop loses what
  the paper broker keeps in memory. Each limit is checked with the steps that matter to it.
* *Route*: a threshold of 2, a window of 3 and a cooldown of 2 ticks let any of them run
  out first; with `CacheTtl = 1` and `LastGoodTtl = 2` a verdict is fresh, stale or gone;
  two requests of two keys overlap on one key or not. The theorems (5) have no bounds.
* *Dispatch*: five ticks, so that a request, its rescan and a timer can be outstanding
  with a newer tick each. The nine verdicts lie inside and outside of the step.
* *Durable*: two instances can handle one entry at once, and `MaxLen = 1` trims.
* *Feed*: a ladder of two steps, ages that stop at `Old = 3`; the thresholds keep the
  order they have in the code.
* *Lock*: `MaxTime = 5` leaves room for two contracts of length `Expiry = 2`, and
  `Grace = 1` separates the deadline from the TTL.
* *Risk state*: `BaseEquity = 100` with results of a few units crosses limits of 2 and
  3 % and not of 10 %. One midnight may fall between any two calls of a request. In
  *losses* the second result reaches the limit and the first does not; it has no gains and
  no midnight because `RowAddsUp` is then false (6.8); `CacheKeepsUp` and `NoBypass` are
  proved with both. *losses*, *locks* and *configured* are apart for their size only.
* *Tape*: two closed bars at most, so that the cap bites; frames of two minutes; the
  broker's clock is eight ahead of the local one.
* *Chart*: frames of width 1 and 2 have one window within the other; two bars kept, a
  ring of two ticks, so that the cap bites and a replay begins within a window.
* *Store and panel*: two of each dimension let a request be superseded by any other;
  two choices suffice for the return to a key under way, three clicks for overlap.
* *Bridge*: two pairs for one slot are the eviction, a third is the control client's.
  One upset is any of them at any moment (periodic refreshes among them; captures, reloads
  and returns of the broker are not counted); the proof of the budget has no bounds. Two
  pairs asked alike differ in name only, so that one is asked first (`FirstComesFirst`).

* *Auth*: `MaxLogins = 2` and a back-off of one or two beats let any of them stop the refreshes;
  four troubles are a session that dies, a lost frame, a run cut short and a human.
* *Rooms*: of two clients one is the other watcher of a pair, or a ghost's; two moves are a
  switch and the way back, over a connection that breaks anywhere.
* *Grid*: two refreshes of each of two mounts overlap with each other and the next mount's.
* *Watch*: the thresholds keep the order they have in the code, one or two beats apart.

The gateway, `Backend` and `Streams` say `CHECK_DEADLOCK FALSE`: when the finite input is
used up, the model stops, and the service waits for more. In `Parts` deadlock is checked.

### 3.2 Fairness

*Gateway.* The event loop runs every task that can go on (weak fairness of each task's
steps and of the loops). `XAUTOCLAIM` starts from `0-0`, so while at most
`RECLAIM_COUNT` entries are pending each is claimed again and again although the loop is
busy in between: strong fairness of `Reclaim(i)`. Signals age and the venue settles a
market order. Crashes, faults and orphaned requests are never owed.

*Breaker alone* (`EcStuckOpen`). Time passes, a free client polls, and a post ends at the
latest by its timeout. `Succeed` has strong fairness, since the engine may go up and
down; a run of answers without a verdict does not last for ever.

*Backend.* Each obligation is owed only by the service that runs. Route: time passes; a
client that polls makes the handler take its next step; a live quote is there now and
again, so that a request that could ask the engine does (strong fairness of `Ask`, since
`ServeCached` and missing quotes come in between). Dispatch: timers fire and the engine
answers or times out. Durable: an instance that is up goes on, and a supervisor starts
one that is down. Feed: the interval comes round, and a poll ends by its timeouts. Auth: a
heartbeat comes every now and then (the bridge sends one every 25 seconds) and the monitor polls.

*Streams.* Every process and every reader of the bridge takes its next step; that the broker
comes back is an assumption on the environment. Nothing is owed of browsers or of new
sessions. The timers of a page fire.

*Lock, risk state, candles, chart, client, grid, rooms, limits.* Safety only.

## 4. Properties

* *Gateway*: `SubmitsAsPromised` is the main promise, refinement of `OrderContract`:
  deliveries repeat, requests outlive their callers, the process restarts, and the venue
  still creates at most one order per event, after its row, which is never deleted; and a
  signal is out of the stream's hands only when a row accounts for it, for good. `LiveOrderHoldsKey` relates the venue to the partial unique index (and implies
  one live order per window). `AckedIsAccounted`, `EventuallyAcked` and
  `EventuallySettled` say that nothing is dropped and nothing waits for ever.
* *Limits*: check-then-insert lets limits be passed; `LimitsBounded` says by how much: one
  order for each other task. `StopsHold`: neither a restart nor a later look moves the
  baseline of the day's loss, and after the limit or the kill switch no task places a
  second order.
* *Breaker and route*: `ThresholdTrips` holds whatever late request reports what in which
  state of the breaker. `AnswersAreTrue`: through hits, fallbacks and requests that overlap, an
  answer is about what was asked, as young as its mark says, tradable only if the engine
  said so, and a failure is shown only when no such verdict is kept.
* *Lock*: `ContractHonoured` is refinement of `ExpiryContract`.
* *Risk state*: `RowAddsUp` is the atomic increment, the roll-over and the high-water
  mark; `NoBypass` the check-then-act of the trade gate; `CacheKeepsUp` the
  emptied cache, over requests of every kind that overlap: it is behind only while the one that
  made the change is under way, or is excused (6.8).
* *Dispatch*: `EveryTickIsScored`, `AnswersInOrder`; `ShownIsCurrent`: moves that are each
  too small to broadcast never add up.
* *Durable*: `StoresAsPromised` is refinement of `DeliveryContract`, which gives both halves of
  exactly once (the theorem `StoredAlwaysOnce`) and no row rewritten, taken away or written
  ahead of its entry; `RestartReclaims` is what a restart does pick up.
* *Feed*: `HttpYieldsToPo` (no late HTTP price over the broker's), `OutageIsTold`,
  `FeedResumes`.
* *Candles*: `TapeIsWhole`: one bar a window, in order, no tick lost, over restarts, sweeps
  and the backfill, as long as one clock serves the symbol. `CloseToldOnce`: whatever is
  seeded, replayed or rebuilt, the close of a window is told once in a frame and in order.
* *Bridge*: `BudgetKept`, `WantedIsAnswered`; `ArmedComesBack`: an armed pair streams again as
  long as its reader goes on, or another reader or the watcher of the session file is about
  to start it (`Attended`); what the code leaves to a later subscribe is in 6.8.
* *Session*: `LoginsHalt`: failed logins add up over every way a refresh is started, and a
  captcha is the end of them; `ExpiryIsAlerted`: a lost or late frame does not keep the
  operator from being told.
* *Sockets*: `ArmedIffWatched`: a pair is armed exactly while a chart watches it, over clients
  that come back and sockets that outlive them; `ChartAttached`: a connection that holds has
  its chart in its rooms; `DeadLinkIsReplaced`, with the theorem `SilenceAlwaysBounded`.
* *Grid*: `AnswersTheirAsk`: a card is given the answer to what was asked last.
* *Client*: `LockedVerdictShown` (no flip while a verdict is locked), `SpinnerIsOwed`,
  `WaitingIsRetried`, `ActiveIsTimed`: no spinner, banner or disabled button without the
  request or timer that will end it.

## 5. Proofs

All theorems hold for every value of the constants under the modules' named
assumptions, which the runs evaluate too.

| Module | Theorems | Argument |
|---|---|---|
| `ExecutionGatewayProofs` | `TypeCorrect`, `OneOrderPerEvent`, `GatewayHonoursContract` (refinement), `DisabledStaysIdle`, `AckedAlwaysAccounted`, `LiveOrdersHoldTheirKey`, `OneLiveOrderAWindow` | `Base`; `Once`, and both for the refinement; `Audits`; `Accounts`; `Keys` |
| `RiskStateProofs` | `RiskTypeCorrect`, `GateHolds`; `CacheAlwaysKeepsUp`; `ResultsAlwaysCounted`, `RowAlwaysAddsUp` | `Inv`; `CacheInv`; `SumInv`, `PeakInv` |
| `RiskLimitsProofs` | `KillAlwaysStops`, `LossAlwaysStops`, `StopsAlwaysHold`; `LimitsAlwaysBound` | `KillInv`; `LossInv`; `HandsInv`, `BoundsInv` |
| `BackendProofs` | `CircuitTypeCorrect`, `ThresholdAlwaysTrips`, `OnlySuccessClosesCircuit`; `RouteImplementsCircuit`, `AnswersAlwaysTrue`; `ShownAlwaysCurrent`, `NoAnswerOvertakes`, `ToldIsLatched`, `HttpAlwaysYields`; `LoginsAlwaysHalt`; `StoredAlwaysOnce`, `ConsumerHonoursContract` (refinement); `AlwaysArmedIffWatched`, `ChartAlwaysAttached`; `BackendTyped` | `Consistent`; `RouteInv`; `ShownOK`, `InOrder`, `FeedInv`; `AuthInv`; `StreamInv`, with `AllBegun` for the refinement; `RoomsInv`, `AttachInv`; `BackendInv` |
| `StreamsProofs` | `BudgetAlwaysKept`, `BridgeTypes`; `SilenceAlwaysBounded`; `StreamsTyped` | the readers' types, `BridgeInv`; `WatchInv` |
| `TickProofs` | `TapeTypes`, `TapeAlwaysWhole`, `TapeWholeWithinOffset`; `CloseAlwaysToldOnce`, `ChartTypes` | `TapeInv`, `WholeInv`; `ToldInv`, `ChartInv` |
| `PartsProofs` | `LocalLockHonoursContract` (refinement, in one process), `PartsHonourContract` (and on Redis, one request at a time), `LockTyped`; `PartsTyped` | `LocalInv`, `OnRedis`, `SharedInv`; `PartsInv` |
| `ClientProofs` | `StoreTypes`, `NoFlipWhileLocked`, `SpinnerAlwaysOwed`, `WaitingAlwaysRetried`, `ActiveAlwaysTimed`; `AnswersAlwaysTheirAsk` | `StoreInv`, `PanelInv`; `GridInv` |

*Once* (gateway) is needed because `AtMostOneOrder` alone says nothing of the step that
places. It adds, for a broker without idempotent ids: an order or a lost request implies
a row (`WriteAhead`); while a task is about to place an event's order, the venue has
none of it and no request is lost (`Fresh`), and no other task is about to (`Alone`); a
lost request means that there is no order yet (`LostOnce`). Only the task whose
`INSERT` created the row ever gets to `place`; a retry needs `SupportsClientOrderId`, and
then the venue itself creates nothing twice.

`GatewayHonoursContract` takes the steps apart by what they touch: an insert is `Write`, for
the unique index of the event has let it through (`CreateRefines`); what the venue does is
`Place` or `Settle` (`SettleRefines`), and `Place` finds no earlier order by `Once`; an
acknowledgement is `Answer` for a signal by `Accounts`, which has its row (`AckRefines`); a
delivery adds to the entries delivered and to those pending alike (`DeliveryRefines`), and
whatever only rewrites rows is a stutter (`TableRefines`).

*Accounts* follows an entry from its dispatch to its `XACK`: a task that is past the point
where it defers has left what the acknowledgement promises. *Keys* says that an event whose
order is at the venue, or may come to be, holds the dedupe key of its window, that the
partial unique index leaves one holder of each key, and that no task is about to record a
refusal of such an event. Both theorems about keys assume `PlainVenue`:
`ASSUME_CLIENT_ORDER_IDEMPOTENCY` off (else a stale retry frees a key twice, 6.1), no
venue errors that come after the order was taken (else `_classify` writes an accepted
order off, 6.8), and no paper mode (a restart from live to paper reconciles a live row
with another account, 6.9). Each is needed: TLC refutes the property without it.

*Consistent* (breaker) conjoins the type invariant, `ThresholdTrips` and
`HalfOpenIsNotOpen`, and is inductive as it stands. The step to look at is a failure that
reports late: while half-open it trips the circuit without being counted, otherwise it
trips exactly when the threshold is reached. `RouteImplementsCircuit` carries this over to
the route: each of its steps is a step of `EngineCircuit` or leaves the breaker alone.

*RouteInv* says that an entry of the caches is of its key and that its age and what is
left of its life add up to the longer life. The conditions the handler looks at are on
what is left, the promise is about age; the sum turns one into the other.

*LocalInv* (lock) says that what a request is about to write is committable, that its
clock is not ahead, that at most one request is between `get` and the end of `acquire`
(`OneInside`), that it then writes to an empty cell (`SetOnEmpty`) and drops only what has
expired (`DropExpired`). Under it `Set` is `Commit` or a stutter, `Tick` is `Pass`, and all
else stutters. *SharedInv* is what remains on Redis, where all but the first two fail: a step
there is one of the same few effects on a request and on the cell (`Effect`), whoever else
is inside `acquire`, so that `LockTyped` holds of both. *OnRedis* adds to it what one request
at a time brings back: the others have not begun (`Alone`), what a late `DEL` removes has
expired (`DropExpired`), and Redis keeps a payload as long as it is in force (`Outlives`).
`SET NX` writes to an empty cell only, however late it is, so that only the `DEL` is dangerous;
with a second request it is, and `ContractHonoured` fails.

*Inv* (risk state) says that the list of a request ends with its answer and that its
argument is a trade or a limit where one is used, which makes `TypeOK` inductive; and
that a trade whose snapshot lets it through has seen a row that did. The interesting
step is a heal: the snapshot is unlocked before the write, and the row was a remnant,
which lets trades through, unless it is over the limit, in which case
`evaluateAndEnforce` locks it again before the trade is answered.

*CacheInv* follows a poll that no other request has overtaken: once it knows the row it holds the
row's snapshot, or before its heal the one the row will have, unless a request that has
changed row or limit is still under way. `CacheAlwaysKeepsUp` has no assumption: any requests,
limits, failures, restarts and midnights may overlap. What the cache is excused for is what the
code does leave behind (6.8), and nothing else can.

*SumInv* says that the row's P&L is the sum of what was added on its day, that a result
not yet added is posted by one request only (`Apart`) which will add it to a row of its day
(`Owing`, `Dated`), and that no result was added to a day after the row's, so that a new
row's P&L of 0 is right. One step can break it, and `ResultsAlwaysCounted` says so in its
assumption, `[][~LateRoll]_vars`: of two requests that found the row old, the slower replaces
the row that the faster has added to (6.8). Everything else may interleave as it likes, gains and
midnights included, because the database does the addition. The
sum is `MapThenSumSet`, a recursive function without a parameter to instantiate; what it
does when a trade is added (`TotalSplits`) is proved by looking at a smallest set for which
it would do something else (`SmallestSet`, from the library's `WFMin`).

*PeakInv* says that the mark is behind the equity only while a request that added a result
is about to look at the sum, or to write a mark that covers it. Two more steps can
break it, and `RowAlwaysAddsUp` excludes these and no others: the slower of two marks is the lower
one (`LateMark`), and a result ends between its sum and its mark (`MarkLeft`). The three are
what the code does wrong or leaves undone (6.8), not a class of runs: requests, gains,
losses, faults and days are as free as in `Spec`. The parts of `Parts` show no `LateRoll` (*days*
has one request at a time, *losses* one day) and no mark.

*KillInv* counts: orders placed since the switch was engaged and tasks that were let
through before never exceed the tasks there are. *LossInv* has three parts: the loss a
task has seen is at the limit for as long as it is remembered (`Reported`), because the
baseline of a day comes into being once and a restart judges by it (`Sunk`); and those that
may still insert have judged before (`CountInv` over `Hopeful`). `LossAlwaysStops` assumes
`0 \notin Equities`: an equity of zero is not observed, and then sets no baseline.

*BoundsInv* adds up what is placed and what was let through and is not inserted yet: the
two together pass a limit by one order for each other task at most, because the task that
counts last sees all the rest. *HandsInv* is what that takes: an order is in one task's
hands, pending from its insert to its answer, and on paper nothing is pending outside
those hands until the process stops. `LimitsAlwaysBound` needs no assumption but the
module's.

*InOrder* (dispatch): a request is in flight exactly while a window is unanswered, there is
one such window at most, and it is no older than the last answer. *FeedInv* adds to
`ToldWhatIsLatched` (what was told agrees with the two latches) that nothing was told before
the stream started.

*AuthInv* (session) counts: until a captcha the logins since the last human reset are
those that failed and were counted, those cut short and the one under way; none is under
way once the circuit is open, which a captcha does until a person closes it.

*StreamInv* (durable stream): an instance that handles an entry has a batch, and one that
acknowledges holds as the least of it an entry with a row or without a signal. The step to
look at is the trimmed reclaim beside `Ack`: what leaves the pending list was stored or lies
below `first`, and `COUNT` lets no later entry overtake an earlier one (`LeastAreFirst`).
`ConsumerHonoursContract` takes the steps apart by what they do to the table and the group: a
`Create` is `Store` or a stutter, because what an instance has at hand was appended and holds
a signal (`AllBegun`); a start, a read and an acknowledgement only add to what is released
(`ReleasedGrows`), all of which `StreamInv` of the next state accounts for (`ReleaseRefines`);
`Publish` is `Append`. That a batch has a least entry is the library's theorem on minimal elements of a
well-founded order (`WFMin`), which needs no operator parameter.

*RoomsInv* (rooms): a session, one that outlives its client and one kept for a recovery
included, is in the room of no symbol but its active one, and in none unless it is up; so
the handler that leaves a room knows what else may still be watched. *AttachInv* is what
`ChartAttached` leaves out: while frames are on their way, the last of them asks for what
the chart shows. Whatever the hooks send, also twice, after a move or on a connection made
again with frames kept from before, ends with that subscribe; a handler that has taken it
has joined its rooms, and the rooms it leaves are of another symbol.

*BackendInv* conjoins what each service of `MCBackend` needs for its types; a step of one is
a stutter of the others (`OneServiceMoves`). Types alone are seldom inductive: a request of
the route that pauses has posts left, and is with the breaker exactly from its first post
to its reply (`RouteTypes`); a tick is scored within the windows the dispatcher has opened
(`TickInv`). That something is asked for (`BackendAssumption`) gives the requests that are
under way at the start of the other services' runs what they asked.

*Budget* (bridge): a step adds no client and no handshake, or is the one of a reader that
has seen within the same step that there is room, or that makes room by an eviction. A
lemma about `Spawned` says that what starts readers puts none of them into the handshake.
*BridgeInv* adds to the types that the configured pair is never in the handshake of a client
of its own, so it never holds one that would count.

*WatchInv* (page): a sweep of the hook is due on a connection only, and the age of the last
packet plus the beats to the watchdog's next round never exceed its limit and one round.
`SilenceAlwaysBounded` is this sum as a theorem: it says how soon, where
`DeadLinkIsReplaced`, which the run checks, says that a dead link is replaced at all.
`StreamsTyped` puts both parts of `MCStreams` together.

*StoreInv* (client): the banner is only up while the newest request is over (part of
`Owed`), so that the timer of `WaitingIsRetried` cannot be lost to another request. *GridInv*
(market page): a batch that is still asked for finds the cards as its post left them, for
no click and no change of tier came between.

*WholeInv* (candles of core-backend): every bar is made of ticks whose window it is
(`MadeOf`), whatever the clocks (`TapeInv`); while stamps do not go back, the closed bars
ascend, the open one is of the newest window, and each tick since the start is in a bar or
older than all that is kept. The last part is the one to look at. A close, an extension and a
merge with stored rows each yield a series that `Follows` the one before: it holds the same
windows, with what was seen of them, but those dropped at the cap. That a full series is then
followed by a full one whose first window is not older (`FullStays`) is a counting argument:
the windows of a full series do not fit into fewer places. The merged bars are put in order
by their rank, the number of earlier ones, so that no sort has to be reasoned about (`Ranked`:
an injection of a finite set into as many places reaches all of them). Minutes nest in the
frame's windows (`FloorNests`), so what rows are rolled up is of the window again.

`TapeAlwaysWhole` asks of a behaviour that what the bridge repeats is as new as the newest
tick (`RepeatsNewest`). This is needed: once HTTP has served the symbol for longer than
the broker's clock is ahead, the stamps have not gone back, and the old tick that the
bridge repeats on a subscribe opens a bar of a window long past (6.8).
`TapeWholeWithinOffset` asks instead that no more time passes than that, as in the run.

*ToldInv* (chart) says that, while stamps do not go back, the ring ends with the newest
stamp, the live bar is not older than any tick retained, and each window that was told was
left for a later one of which a tick is retained. What is told next is the live bar, and
that is no older than the windows of those ticks. It needs that windows grow with stamps
(`WindowsGrow`) and that a finite set of windows has a greatest (`GreatestNumber`, from
`WFMin`). A rebuild in another frame keeps it because the ticks are kept, and only a hard
reset drops them, with what was told. *ChartInv* adds the cap: what is seeded, replayed or
rebuilt is a finite set of stamps, which is put in order by the number of those below
each (`AscendingIsSeq`).

*PartsInv* conjoins the invariants of the parts of `MCParts`, which share no state
(`OnePartMoves`). Its part `redis` needs somebody who asks (`PartsAssumption`).

Only model-checked: all liveness (fairness is out of the prover's reach), `ArmedComesBack`
included. Every invariant, action property and refinement that a passing run checks is a
theorem, `RowAddsUp` under the assumptions just named.

## 6. What the model checking found

### 6.1 A stale retry frees the dedupe key twice (`GwRetryKeys`)

With `ASSUME_CLIENT_ORDER_IDEMPOTENCY`, `reconcile_pending` submits a record that was
`INTENT` in its snapshot although the row has become `REJECTED` since, which freed the
key for a second event of the window. Both orders are live.

### 6.2 Refused requests keep the circuit open (`EcStuckOpen`)

A refusal by the open circuit is caught like a failing engine and recorded as another
failure, which sets the deadline anew. Clients that poll more often than the cooldown
keep a recovered engine out of use.

### 6.3 A lock after a profit given back does not hold (`RsGiveback`)

The drawdown is measured from the day's peak, the self-heal asks for a negative P&L of
the day. +5 and -5 on 100 is a drawdown of 4.76 % with a P&L of zero: the lock that the
posted result sets is taken for a remnant by the next poll.

### 6.4 A quick restart leaves an entry pending for ever (`StreamWritten`)

Pending entries are claimed once, at start-up, and only those idle for 30 seconds. A
process back sooner finds none, and nobody claims the entry it was handling later.

### 6.5 The broker's recovery does not end an incident (`FeedPoOnline`)

`pollOnce` returns at its first guard while Pocket Option is live, so that the code that
ends an incident is not reached when Pocket Option is what has recovered; `ONLINE` is not
told and the next `DEGRADED` is swallowed by the latch.

### 6.6 The panel shows the verdict of another symbol (`VerdictOther`)

A, B, A again while both requests are under way: the second request of A shares the
first, which is not the newest, so its answer is dropped; B's is the newest and is shown.

### 6.7 A subscription refused in an outage is not repeated (`BridgeRearms`)

`ready` is what should make the backend send its staged subscribes, but `handleReady`
flushes them only while `assetsReady` is still false, and the 5 s fallback or an earlier
`ready` has set it by then. A subscribe the bridge refused in between (the broker is away,
the asset list is not loaded) is therefore not sent again on the next `ready`. The finding
in `PROJECT.json` quotes the comment that says otherwise.

### 6.8 Seen by changing the constants of a run

* *days* with two requests: both find yesterday's row, and the slower upsert wipes what
  the faster request recorded (`RowAddsUp`; `LateRoll`). Two gains that interleave: the slower
  mark is the lower one (`LateMark`); with a fault between a gain and its mark, the mark stays
  behind (`MarkLeft`).
* *losses* with `BaseEquity = 20067` and a loss of 602: 2.99995 % rounds to the limit and
  locks, and the unrounded self-heal unlocks (`LockHolds`).
* *redis* with two requests: the late `DEL` of an expired payload removes a contract that
  was committed in between (`ContractHonoured`).
* `GwKeys` with `LateVenueErrors`: an accepted order answered by an unclassified error is
  recorded `REJECTED` (`LiveOrderHoldsKey`).
* `CacheKeepsUp` without its excuses: a slow poll fills the cache after a change emptied it,
  and a trade's lock or a request that fails after its write leaves it as it is, so that
  clients read the old state for up to five seconds, against `riskState.controller.ts:18-19`.
* `ArmedComesBack` without its last disjunct: a session file that is new while the broker is away
  is read, every reader is torn down, the connect fails, and no reader is left that would
  connect later; armed pairs wait for a new subscribe. `bridge.py:2331` and `2432` say "keeping
  readers armed for retry".
* `ArmedComesBack` without `Attended`: a pair whose reader gives up on a silence it takes for a
  rejected session, then refreshes. The refresh succeeds, but where the file cannot be
  written (the mount of `docker-compose.yml:226`) no reload follows, and if the control client is
  connected nothing starts the reader again; `bridge.py:2849` says that a successful refresh
  re-arms the bridge.
* *tape* without `Steady`: after a change from the broker's clock to the local one, bars
  are closed out of order (`WindowsInOrder`). With `Ahead = 1`, so that the local clock gets
  past the broker's last stamp: the tick that the bridge repeats opens a bar older than one
  that is closed (`TapeIsWhole`).

### 6.9 Seen while reading and modelling

They narrow what the properties can claim, and several are notes of hazards.

* *Gateway*: a slower task may overwrite `FILLED` with `MANUAL_REVIEW`; a pending live row is
  reconciled by the paper broker after a restart in paper mode.
* *Limits*: a restart in paper mode forgets the day's loss in the broker's own baseline,
  against `gate.py:112`; `MAX_OPEN_NOTIONAL` is compared with the larger of held and pending
  (`gateway.py:118`), not their sum; a spot account reports nothing held; `trades_today`
  counts only filled orders; a second submission passes no limit but the kill switch;
  orders in `MANUAL_REVIEW` count nowhere.
* *Route*: the cache is filled when a request completes, so that a burst is not collapsed
  onto one computation, against `signal.controller.ts:115`; a slower, older request
  overwrites a newer verdict in both caches; the live price of the stale re-arm was read
  before the post and its retries; a batch or warm-up that fills the cache silently
  swallows the toast of a single caller for the cache's life (against line 882). Several
  probes are let through while a circuit is half-open.
* *Lock*: the contract `acquire` returns when another verdict is in force is not looked at
  by its callers, so that a request may be answered another verdict than the one locked; a
  replica that starts without Redis uses its own map for good; the client has no timeout.
* *Risk state*: a new day starts at `peakEquity`, not at the equity the day before ended
  with. A result whose handler fails after its increment is answered "not applied; retry
  shortly"; a client that does retry counts it twice.
* *Feed*: the watchdog by age overrides the backoff ladder in every outage; the second HTTP
  source has no cool-down check; `getLiveSpot` serves broker prices up to two minutes old
  without a mark; one engine status is shared by all symbols; ticks of the GitHub provider
  are written without a look at the broker's.
* *Dispatch*: the priority alert is behind the change gate, against the header's words.
* *Candles*: a merge overwrites the close of a live bar although its comment says that
  live wins; the seam guard returns without telling the closed bar; the collector replaces
  complete rows by truncated ones after a restart; `removeSymbol` discards history when the
  last subscriber leaves, against `websocket.service.ts:244`.
* *Chart*: every `/predict` answer drops the live bar, which reopens at the next tick with
  another open; a seed that holds the forming window lets ticks be dropped until the next
  one, and its close is never told; a replay that starts within a window replaces its
  complete bar by a truncated one, against "lossless"; replays push the same ticks again,
  so that a rebuild counts their volume twice; a rejected tick from the future still moves
  the clock offset; with a late tick after a lagging seed a window is told twice, which is
  why `CloseToldOnce` asks for stamps in order.
* *Bridge*: the fallback timer is armed only when something is staged as the socket opens;
  each spawn of the bridge leaves a health interval and a restart timer behind, so that it
  may be spawned again after `stop`; unsubscribing a configured pair that a browser had
  asked for ends its reader for good; `_done` removes a registration that may be a newer
  reader's; prices held through an outage are appended as live ones.
* *Client*: two clicks may have two trades in flight, whose two intervals halve the
  countdown, although `trading-panel.tsx:427` calls `isTradeActive` a transaction lock;
  `clearPredictionRetry` in `setActiveSymbol` uses another key than the one armed and clears
  nothing; the snapshot of another horizon is restored.
* *Rooms*: on a change of the frame alone the room of the old one is never left, against
  `websocket.service.ts:383`; the learned horizon and tier outlive a switch and a disconnect;
  a short disconnect of the only watcher wipes its candles (`removeSymbol`); the hook is
  mounted twice (`header.tsx:36`, `pro/page.tsx:102`), so that each tick is taken in twice and
  the header's keeps a pair armed after the chart was left.
* *Session*: a run that is killed by its timeout or cannot be started is neither counted nor
  followed by a back-off; the interlock after a captcha is lost with the process; an expiry
  learned from a heartbeat starts no refresh; a late tick or `ready` may announce that the
  session is restored; a slow sink lets the monitor alert twice.
* *Watch*: the flag of a stall changes once, so that the reconnect after 15 seconds is not
  reached from the sweep and the soft recovery is not repeated (against
  `useWebSocket.ts:82` and `811`); the feed stays marked live while the transport is down.
* *Grid*: the refresh of a card replaces one of all cards that is still debounced; the other
  cards keep waiting, or keep verdicts of the old tier, and the fallback of the loop does not
  come while live signals flow; `setCardHorizon` sets the horizon of the next refresh of all;
  the numbers start again with a new mount, so that answers to the old page are written,
  against "a slow /multi-predict can never overwrite a newer refresh's verdicts".

## 7. Not modelled

`PROJECT.json` lists every component with the reason. In short:

* numerical code of the ai-engine (verdict pipeline, gates, regime, indicators): pure
  functions of floating-point series; a verdict is a member of a small set here;
* grading of outcomes: a row is created and the result passed on without waiting; there
  is no idempotence to check, and a result posted twice is recorded twice;
* the candle engine of the pocket-bridge, tick ring and snapshots: data and I/O;
* CRUD and delivery (accounts, settings, notifications, fan-out of broadcasts);
* the pages of the client: presentation and quotes.

Within what is modelled, prices, payloads, metrics and log messages are left out, and one
symbol, one user or one key stands for all where the code keeps them apart.

## 8. Plan

Done: the gateway and its limits, the breaker and its route, the lock, the risk state, the
dispatcher, the durable stream, the live tape, both candle series, the bridge, the session
with the broker, the rooms, the client's store, panel, market page and watchdogs. Next, in this order:

1. `RiskLimits` as the gate of `ExecutionGateway`, in place of the choice it has there.
2. Grading of outcomes with the engine's accuracy tracker, for the loss of what is passed
   on while the engine is away.
