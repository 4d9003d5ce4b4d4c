SPECIFICATION Spec
CONSTANTS
  NoProfile = NoProfile
  NoLaunch = NoLaunch
  Before = NoLaunch
  Launches = {l1, l2}
  Args = {argsA, argsB}
  HistoryCap = 1
  MaxCrashes = 1
  ReadErrors = FALSE

SYMMETRY Symmetry
INVARIANTS OneWriter ActiveWasVerified
PROPERTIES LastKnownGoodKept ImplementsLedger
CHECK_DEADLOCK FALSE
