SPECIFICATION FairSpec
CONSTANTS
    Images = {i1, i2}
    Ordered <- MCOrdered
    Sizes = {2}
    None = None
    SavesMayFail = TRUE
    MaxTicket = 1
    Budget = 1
PROPERTY EveryWindowEnds
CHECK_DEADLOCK FALSE
