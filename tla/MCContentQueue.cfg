\* Two layouts Windows rotates, then app rotation, then no contents.
SPECIFICATION FairSpec
CONSTANTS
  a = a
  b = b
  c = c
  L1 = L1
  L2 = L2
  App = App
  Disabled = Disabled
  Tags <- MCTags
  Configs <- MCConfigs
  Native <- MCNative
  Items <- MCItems
  Off = Disabled
  Edits <- LayoutsThenNone
  Plain = Plain
  NoKey = NoKey
  Left = {c}
  MaxKey = 1
  MaxRequests = 1
  MaxFaults = 1
  ClearThenThrow = FALSE
CHECK_DEADLOCK FALSE
INVARIANTS CommittedIsShown NoGhost
PROPERTIES Converges DepartureRetried
