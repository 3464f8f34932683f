CONSTANTS
    Procs = {p1, p2, p3}
    MaxRestarts = 3
    None = None
SPECIFICATION FairSpec
INVARIANT HeldOrReported
PROPERTIES ImplementsSupervisor CrashIsAnswered
\* A watchdog that ended does nothing more.
CHECK_DEADLOCK FALSE
