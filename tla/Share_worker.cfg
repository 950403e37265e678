SPECIFICATION WorkerSpec
CONSTANTS
  Hashes = {h1}
  Slots = {s1, s2}
  MaxIds = 2
  PerHour = 1
  PerDay = 1
  Threshold = 2
  MaxEvents = 2
  None = None
INVARIANTS WorkerTypeOK IndexSound QuotaKept AlarmArmed
PROPERTIES ImplementsService
SYMMETRY Symmetry
CHECK_DEADLOCK FALSE
