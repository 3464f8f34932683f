\* Two profiles, a thread that waits, four request or cancel revisions.
CONSTANTS
    Keys = {a, b}
    Waiters = {w}
    None = None
    HasCleanup = TRUE
    MaxRevision = 4
SPECIFICATION FairSpec
INVARIANTS NoLostWakeup ResourcesOfOneProfile
PROPERTIES ImplementsPromise Answered BlockingCallsReturn
\* A stopped source with every revision spent has nothing left to do.
CHECK_DEADLOCK FALSE
