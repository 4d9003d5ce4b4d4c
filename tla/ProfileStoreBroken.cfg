SPECIFICATION Spec
CONSTANTS
  NoProfile = NoProfile
  NoLaunch = NoLaunch
  Before = NoLaunch
  Launches = {l1, l2, l3}
  Args = {argsA, argsB}
  HistoryCap = 2
  MaxCrashes = 1
  ReadErrors = FALSE
CHECK_DEADLOCK FALSE
PROPERTY ObservationsAppendOnly
SYMMETRY Symmetry
