SPECIFICATION Spec
CONSTANTS
  MaxStarts = 2
  Scoped = TRUE
  Unkillable = TRUE
  Requests = {r1, r2}
  Configs = {small, large}
  ParentTied = TRUE
  None = None
  WedgedAfter = 2
  ConfirmAfter = 2
  Readable = TRUE
  SurvivesStop = FALSE
  Retries = 1
  MaxLines = 2
INVARIANTS EvidenceKept OneKnownBackend SampleOfThisFailure
PROPERTIES SlowNeverStopped DeadIsNoticed ShutdownEnds
CHECK_DEADLOCK FALSE
