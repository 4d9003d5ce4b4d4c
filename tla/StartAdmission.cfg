SPECIFICATION Spec
CONSTANTS
  StartLoads = 2
  BoundedLoads = 1
  ConvergingLoads = 1
  Window = 3
  Plans = {a, b, d}
  Drafting = {d}
  NoPlan = NoPlan
  MaxReplans = 1
  MaxConverging = 1
  MaxRetries = 1
  MaxAdmissions = 2
  MaxCtx = 12
  CtxFloor = 4
  StepDivisor = 4
  Granules = 1
  Budget = 12
  RestartCap = 3
  LoadCost = 2
  WorkCost = 1
  ReleaseCost = 1
  AdmissionCost = 1
  MaxCandidates = 3
  MaxFailures = 2
  Threads = {t1, t2}
  Ptrs = {p1, p2, p3}
  Sizes = {1, 2}
  Limit = 3
  Slots = 2
  Async = TRUE
  Reuse = FALSE
  NoPtr = NoPtr
INVARIANTS NeverRejectedAgain CeilingMeasured ServiceRestored DecisionDescribesServing OvershootBounded ChargeCoversResident
PROPERTY EveryAdmissionEnds
CHECK_DEADLOCK FALSE
