SPECIFICATION PartsSpec
CONSTANTS
    Callers = {q1, q2, q3}
    Shared = FALSE
    Expiry = 2
    Grace = 1
    MaxTime = 5
    MaxLockFaults = 2
    Symbols = {A, B}
    Frames = {f1, f2}
    Horizons = {h1, h2}
    Daily = f2
    MaxChoices = 2
    Clicks = {c1, c2, c3}
    Seconds = 3
    Requests = {r1, r2}
    Ops = {"poll", "trade", "settle", "reset", "engage", "limit"}
    Trades <- AllTrades
    PnlOf <- AllResults
    BaseEquity = 100
    DefaultLimit = 3
    LimitChoices = {2, 10}
    SeenToday = FALSE
    MaxDay = 2
    MaxFaults = 1
    Minute = 1
    Width = 2
    Reorder = 1
    Ahead = 8
    MaxClosed = 2
    MaxClock = 5
    MaxTicks = 3
    MaxBoots = 2
    Widths = {1, 2}
    MaxCandles = 2
    RingSize = 2
    Tolerance = 1
    MaxNow = 3
    MaxQuotes = 3
    MaxRewrites = 1
    Workers = {w1, w2}
    Modes = {"paper", "spot", "margin"}
    Limits <- EachLimit
    MaxOrders = 3
    Equities = {1, 2}
    Balance = 2
    LastDay = 1
    MaxStops = 1
    Cards = {k1, k2}
    Tiers = {t1, t4}
    Patience = 0
    MaxRefreshes = 2
    MaxMounts = 2
INVARIANTS LimitsBounded StopsHold PartsTypeOK TapeIsWhole CloseToldOnce LockedVerdictShown SpinnerIsOwed WaitingIsRetried ActiveIsTimed RowAddsUp CacheKeepsUp NoBypass
PROPERTIES AnswersTheirAsk ContractHonoured
