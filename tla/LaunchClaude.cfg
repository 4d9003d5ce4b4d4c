SPECIFICATION Spec
CONSTANTS
  Args = {a1, a2}
  NoArgs = NoArgs
  MoE = FALSE
  ClaudeCode = TRUE
  CheckpointsGrow = FALSE
  Faults = FALSE
  MaxRetries = 2
  MaxReplans = 2
PROPERTIES VerifiedNotReplayed
