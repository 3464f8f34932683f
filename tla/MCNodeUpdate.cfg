\* Two updates, three watchdogs; a restart, a crash, a failure and a stop.
CONSTANTS
  Cmds = {c1, c2}
  MaxWatchdogs = 3
  Old = old
  Unset = Unset
  Restarts = 1
  MaxCrashes = 1
  MaxFailures = 1
  MaxStops = 1
  SlowHelper = TRUE
SPECIFICATION NodeFairSpec
INVARIANTS NoHalfUpdate RunsWhatIsInstalled
PROPERTIES LoadsWholeFiles NodeIsServed
\* The node may stay stopped.
CHECK_DEADLOCK FALSE
