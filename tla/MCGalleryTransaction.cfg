SPECIFICATION FairSpec
CONSTANTS
    Images = {i1, i2}
    Tiles = {t1, t2}
    Configs <- MCConfigs
    None = None
    OutsideEdits = TRUE
    MaxEpoch = 2
    Budget = 3
INVARIANT ShownIsOwned
PROPERTIES HistoryIsWhole PublicationResumes
CHECK_DEADLOCK FALSE
