SPECIFICATION StoreSpec
CONSTANTS
    Symbols = {A, B}
    Frames = {f1}
    Horizons = {h1}
    Daily = f1
    MaxChoices = 3
INVARIANTS VerdictOfActiveSymbol
