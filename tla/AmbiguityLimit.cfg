CONSTANTS
  MaxU64 = 20
  InitialCapacity = 1
  MaxCapacity = 3
  MinIssue = 1
  MaxIssue = 2
  AllowReturn = TRUE
  AllowProtect = TRUE
  AllowGrowth = TRUE
  Operator = op
  Incarnations = {op, w}
  MaxIncarnations = 2
  MaxFences = 3
  WindowLimit = 2
  Unset = Unset
  NoAccount = NoAccount
  Ops = {"Reconcile", "Issue"}
  Counts = {1}
  Producers = {}
  MaxSequence = 4
  MaxDecisions = 3
  MaxBoots = 3
  RecordsPerSnapshot = 100
  MaxAmbiguous = 1
  Faults = {"append", "write_snapshot", "rotate"}
  Snapshots = TRUE
  BytesFill = FALSE
  MaxJournalSequence = 6
  NoSnapshot = NoSnapshot
SPECIFICATION DurableSpec
INVARIANT AmbiguityExact
CHECK_DEADLOCK FALSE
