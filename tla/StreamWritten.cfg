SPECIFICATION StreamSpec
CONSTANTS
    Instances = {c1}
    MaxEntries = 2
    MaxLen = 2
    ReadCount = 2
    ClaimCount = 2
    MaxCrashes = 1
    MaxErrors = 0
PROPERTIES WrittenWhenBack
CHECK_DEADLOCK FALSE
