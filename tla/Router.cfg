CONSTANTS
  Clients = {c1, c2, c3}
  Conversations = {}
  NoConversation = NoConversation
  Lanes = {"safety", "bulk"}
  PromptSizes = {1}
  Limit = 1
  PhaseAware = FALSE
  ColdTokens = 3
  AgingAfter = 1
  FairShareWindow = 1
  RecentCap = 1
  Kinds = {"review", "utility", "work"}
  SeparateReviewer = TRUE
  Companion = FALSE
  ReviewerContext = 0
SPECIFICATION RouterFairSpec
INVARIANTS PublishedWithinLimit AnsweredOnce
PROPERTIES SafetyNotOvertaken EveryReviewEnds
