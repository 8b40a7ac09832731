CONSTANTS
  MaxU64 = 20
  InitialCapacity = 2
  MaxCapacity = 3
  MinIssue = 1
  MaxIssue = 2
  AllowReturn = TRUE
  AllowProtect = TRUE
  AllowGrowth = TRUE
  Operator = op
  Incarnations = {op, w1, w2}
  MaxIncarnations = 3
  MaxFences = 1
  WindowLimit = 2
  Unset = Unset
  NoAccount = NoAccount
  Ops = {"Fence", "Issue"}
  Counts = {1}
  Producers = {}
  MaxSequence = 4
  MaxDecisions = 3
  MaxBoots = 1
  RecordsPerSnapshot = 100
  MaxAmbiguous = 2
  Faults = {}
  Snapshots = FALSE
  BytesFill = FALSE
  MaxJournalSequence = 20
  NoSnapshot = NoSnapshot
SPECIFICATION DurableSpec
INVARIANT RecoverySucceeds
CHECK_DEADLOCK FALSE
