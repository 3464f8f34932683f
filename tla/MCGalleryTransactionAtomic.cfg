SPECIFICATION Spec
CONSTANTS
    Images = {i1, i2}
    Tiles = {t1, t2}
    Configs <- MCConfigs
    None = None
    OutsideEdits = FALSE
    MaxEpoch = 2
    Budget = 4
INVARIANT Recoverable
PROPERTY ImplementsHistory
CHECK_DEADLOCK FALSE
