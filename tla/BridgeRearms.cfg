SPECIFICATION BridgeSpec
CONSTANTS
    Pairs = {p, a}
    Asked = {a}
    Primary = p
    Slots = 1
    MaxAsks = 2
    MaxUpsets = 1
PROPERTIES WantedIsArmed
CHECK_DEADLOCK FALSE
