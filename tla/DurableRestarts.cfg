CONSTANTS
  MaxU64 = 20
  InitialCapacity = 1
  MaxCapacity = 3
  MinIssue = 1
  MaxIssue = 2
  AllowReturn = TRUE
  AllowProtect = TRUE
  AllowGrowth = TRUE
  Operator = op
  Incarnations = {op}
  MaxIncarnations = 2
  MaxFences = 3
  WindowLimit = 2
  Unset = Unset
  NoAccount = NoAccount
  Ops = {"Reconcile", "Issue"}
  Counts = {1}
  Producers = {}
  MaxSequence = 3
  MaxDecisions = 3
  MaxBoots = 3
  RecordsPerSnapshot = 100
  MaxAmbiguous = 2
  Faults = {"append", "write_snapshot", "rotate"}
  Snapshots = TRUE
  BytesFill = FALSE
  MaxJournalSequence = 5
  NoSnapshot = NoSnapshot
SPECIFICATION DurableSpec
INVARIANTS RecoverySucceeds AmbiguityExact
PROPERTIES EngineSpec
CHECK_DEADLOCK FALSE
