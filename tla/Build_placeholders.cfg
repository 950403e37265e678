SPECIFICATION Spec
CONSTANTS
  Source <- TwinSource
  Docs <- TwinDocs
  Files <- NoFiles
  Commands = {"plain"}
  Parallel = {1}
  Threshold = 2
  MaxTries = 2
  MaxAttempts = 1
  MaxRuns = 1
  MayDrop = FALSE
  None = None
INVARIANTS PlaceholdersKept
CHECK_DEADLOCK FALSE
