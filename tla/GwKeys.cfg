SPECIFICATION Spec
CONSTANTS
    Events <- TwoEvents
    DedupeKeys = {"k1"}
    KeyOf <- TwoEventsKeyOf
    NumEntries = 2
    EventOf <- TwoEventsEventOf
    KindOf <- TwoSignals
    Modes = {"live", "disabled"}
    AssumeIdempotency = FALSE
    LateVenueErrors = FALSE
    VenueOutcomes = {"closed"}
    SignalBatch = 2
    MaxAttempts = 2
    MaxFaults = 1
    MaxCrashes = 1
    Ageing = {}
INVARIANTS LiveOrderHoldsKey AckedIsAccounted TypeOK
PROPERTY SubmitsAsPromised
CHECK_DEADLOCK FALSE
