CONSTANTS
  Clients = {c1, c2, c3}
  Conversations = {k1, k2, k3}
  NoConversation = NoConversation
  Lanes = {"bulk"}
  PromptSizes = {1}
  Limit = 1
  PhaseAware = FALSE
  ColdTokens = 3
  AgingAfter = 2
  FairShareWindow = 2
  RecentCap = 2
  MaxTurns = 2
SPECIFICATION ObservedSpec
INVARIANT WaitsOneFairTurnEach
