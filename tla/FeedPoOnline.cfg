SPECIFICATION FeedSpec
CONSTANTS
    MaxFailures = 2
    Ladder <- ShortLadder
    ForcePoll = 1
    Fresh = 1
    Covered = 2
    Hold = 2
    Old = 3
    CoolFailures = 2
    CoolDown = 1
PROPERTIES PoRecoveryIsOnline
CHECK_DEADLOCK FALSE
