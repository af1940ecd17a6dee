SPECIFICATION BackendSpec
CONSTANTS
    Requests = {r1, r2}
    FailureThreshold = 2
    Window = 3
    Cooldown = 2
    Identities = {k1, k2}
    CacheTtl = 1
    LastGoodTtl = 2
    MaxRetries = 2
    MaxTicks = 5
    Verdicts <- SampleVerdicts
    Step = 2
    Gate = 80
    Instances = {c1, c2}
    MaxEntries = 2
    MaxLen = 1
    ReadCount = 2
    ClaimCount = 2
    MaxCrashes = 1
    MaxErrors = 1
    MaxFailures = 2
    Ladder <- ShortLadder
    ForcePoll = 1
    Fresh = 1
    Covered = 2
    Hold = 2
    Old = 3
    CoolFailures = 2
    CoolDown = 1
    MaxLogins = 2
    BackoffCap = 2
    StaleAfter = 1
    MaxTroubles = 4
    Clients = {p1, p2}
    Symbols = {s1, s2}
    Frames = {M1, M5}
    MaxMoves = 2
    MaxBreaks = 1
INVARIANTS BackendTypeOK ThresholdTrips AnswersAreTrue ShownIsCurrent ArmedIffWatched ChartAttached LoginsHalt
PROPERTIES ExpiryIsAlerted AnswersInOrder EveryTickIsScored StoresAsPromised RestartReclaims HttpYieldsToPo FeedResumes OutageIsTold
CHECK_DEADLOCK FALSE
