CONSTANTS
  MaxU64 = 20
  InitialCapacity = 2
  MaxCapacity = 3
  MinIssue = 1
  MaxIssue = 2
  AllowReturn = TRUE
  AllowProtect = TRUE
  AllowGrowth = TRUE
  Operator = op
  Incarnations = {op}
  MaxIncarnations = 2
  MaxFences = 3
  WindowLimit = 2
  Unset = Unset
  NoAccount = NoAccount
  Ops = {"Reconcile", "Issue"}
  Counts = {1}
  Producers = {}
  MaxSequence = 4
  MaxDecisions = 3
  MaxBoots = 2
  RecordsPerSnapshot = 100
  MaxAmbiguous = 2
  Faults = {}
  Snapshots = TRUE
  BytesFill = FALSE
  MaxJournalSequence = 20
  NoSnapshot = NoSnapshot
SPECIFICATION DurableSpec
INVARIANT RetryIsNoConflict
CHECK_DEADLOCK FALSE
