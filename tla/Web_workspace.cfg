SPECIFICATION FairSpec
CONSTANTS
  Hosted = {1, 2, 3}
  Locals = {1, 2}
  Operations = {"Snapshot", "Metadata", "Validate"}
  Seeded = {"Metadata"}
  MaxGets = 3
  MaxActs = 6
INVARIANTS HeldIsTrue UrlIsShown
PROPERTIES LoadingEnds
CHECK_DEADLOCK FALSE
