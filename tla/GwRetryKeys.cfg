SPECIFICATION Spec
CONSTANTS
    Events <- TwoEvents
    DedupeKeys = {"k1"}
    KeyOf <- TwoEventsKeyOf
    NumEntries = 2
    EventOf <- TwoEventsEventOf
    KindOf <- TwoSignals
    Modes = {"live"}
    AssumeIdempotency = TRUE
    LateVenueErrors = FALSE
    VenueOutcomes = {"closed"}
    SignalBatch = 2
    MaxAttempts = 2
    MaxFaults = 0
    MaxCrashes = 0
    Ageing = {}
INVARIANTS OneLiveOrderPerKey
CHECK_DEADLOCK FALSE
