CONSTANTS
  Clients = {c1, c2, c3}
  Conversations = {k1}
  NoConversation = NoConversation
  Lanes = {"bulk"}
  PromptSizes = {0, 1, 4}
  Limit = 2
  PhaseAware = TRUE
  ColdTokens = 3
  AgingAfter = 1
  FairShareWindow = 1
  RecentCap = 1
SPECIFICATION FairSpec
INVARIANTS ColdPromptsSerialize NobodyParkedNeedlessly
PROPERTIES ImplementsAdmission EveryAppendServed
