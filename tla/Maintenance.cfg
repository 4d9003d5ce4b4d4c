SPECIFICATION Spec
CONSTANTS
  Targets = {cuda, vulkan}
  NoBuild = NoBuild
  MaxCommit = 3
  Walkback = 2
  MaxUpdates = 3
  MaxCommits = 3
  MaxArchives = 2
  MaxRuns = 4
  Repeats = FALSE
  NoTree = NoTree
  NoName = NoName
  MaxVersion = 2
  MaxSelfUpdates = 2
  NoFile = NoFile
  Candidates = {threads, batch}
  Rounds = 2
  Speeds = {1, 2, 3, 4}
  Margin = 2
  MaxTunes = 2
  NoTune = NoTune
  Default = Default
  Sessions = {s1}
  Clients = {c1, c2}
  Ports = {p1, p2}
  Slots = {2, 4}
  Trained = 5
  Headroom = 1
  MaxWorkflows = 2
  NoRecord = NoRecord
  NoClient = NoClient
INVARIANTS OneGoodBuild RecordIsTrue ProgramKept
PROPERTIES WinnerConfirmed ResumedFits NewestRunResumed
CHECK_DEADLOCK FALSE
