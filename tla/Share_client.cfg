SPECIFICATION Spec
CONSTANTS
  Hashes = {h1, h2}
  Slots = {1}
  Procs = {p1, p2}
  MaxIds = 3
  MaxTries = 2
  Environments <- MCEnvironments
  None = None
PROPERTIES CommandsEnd
INVARIANTS EntriesTruthful
CHECK_DEADLOCK FALSE
