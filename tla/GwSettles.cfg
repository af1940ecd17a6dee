SPECIFICATION FairSpec
CONSTANTS
    Events <- MixedEvents
    DedupeKeys = {"k1", "x1"}
    KeyOf <- MixedKeyOf
    NumEntries = 2
    EventOf <- MixedEventOf
    KindOf <- InvalidKindOf
    Modes = {"live", "paper"}
    AssumeIdempotency = FALSE
    LateVenueErrors = FALSE
    VenueOutcomes = {"closed"}
    SignalBatch = 1
    MaxAttempts = 3
    MaxFaults = 1
    MaxCrashes = 0
    Ageing = {"e2"}
PROPERTIES EventuallySettled EventuallyAcked
CHECK_DEADLOCK FALSE
