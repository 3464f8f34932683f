\* Windows of one and two slots, two tickets, one failure, crash or edit.
SPECIFICATION FairSpec
CONSTANTS
    Images = {i1, i2}
    Ordered <- MCOrdered
    Sizes = {1, 2}
    None = None
    SavesMayFail = TRUE
    MaxTicket = 2
    Budget = 1
INVARIANTS OnlyOwnedShown ConfirmedIsShown FramesAreDurable
PROPERTIES CursorFollowsDelivery PendingIsDelivered
CHECK_DEADLOCK FALSE
