SPECIFICATION StreamsSpec
CONSTANTS
    Pairs = {p, a, b}
    Asked = {a, b}
    Primary = p
    Slots = 1
    MaxAsks = 2
    MaxUpsets = 1
    PriceOld = 1
    TickOld = 2
    StatusOld = 2
    HardAfter = 2
    PacketOld = 3
    RetryOld = 4
    WatchEvery = 2
    MaxResets = 1
INVARIANTS StreamsTypeOK BudgetKept
PROPERTIES WantedIsAnswered ArmedComesBack DeadLinkIsReplaced
CHECK_DEADLOCK FALSE
