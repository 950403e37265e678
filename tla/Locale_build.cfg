SPECIFICATION Spec
CONSTANTS
  Source <- MCSource
  Files <- MCFiles
  Docs <- MCDocs
  Commands = {"plain", "force", "resume"}
  Parallel = {1, 2}
  Threshold = 2
  MaxTries = 2
  MaxAttempts = 2
  MaxRuns = 1
  MayDrop = FALSE
  None = None
INVARIANTS PrefixBuilt StreakTrue PaidKept
PROPERTIES BuildEnds TranslatedStays
CHECK_DEADLOCK FALSE
