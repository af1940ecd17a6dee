SPECIFICATION FairSpec
CONSTANTS
    Requests = {r1, r2}
    FailureThreshold = 2
    Window = 3
    Cooldown = 2
PROPERTIES RecoveredEngineIsUsed
