SPECIFICATION Spec
CONSTANTS
    Requests = {r1}
    Ops = {"poll", "settle"}
    Trades <- TwoTrades
    PnlOf <- GainThenLoss
    BaseEquity = 100
    DefaultLimit = 3
    LimitChoices = {}
    SeenToday = TRUE
    MaxDay = 1
    MaxFaults = 0
PROPERTIES LockHolds
