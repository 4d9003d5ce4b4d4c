SPECIFICATION LaunchesSpec
CONSTANTS
  Args = {a1, a2, a3}
  NoArgs = NoArgs
  MoE = TRUE
  ClaudeCode = TRUE
  CheckpointsGrow = FALSE
  Faults = TRUE
  MaxRetries = 2
  MaxReplans = 2
INVARIANTS SavedWasActive
PROPERTIES ServedNotTrusted NoBlindRetry Settles
