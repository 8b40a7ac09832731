CONSTANTS
  MaxU64 = 5
  InitialCapacity = 2
  MaxCapacity = 3
  MinIssue = 1
  MaxIssue = 2
  AllowReturn = TRUE
  AllowProtect = TRUE
  AllowGrowth = TRUE
  Operator = op
  Incarnations = {op, w}
  MaxIncarnations = 2
  MaxFences = 2
  WindowLimit = 5
  Unset = Unset
  NoAccount = NoAccount
  Ops = {"Reconcile", "Issue", "Consume", "Return", "Protect", "Unprotect", "Exhaust", "ClearExhaustion", "SetCapacity", "AdvanceEpoch", "Rotate", "Retire", "Revalidate", "Fence", "RetireIncarnation"}
  Counts = {1, 5}
  Producers = {p1, p2}
  MaxSequence = 4
  MaxDecisions = 4
  MaxBoots = 1
  RecordsPerSnapshot = 100
  MaxAmbiguous = 2
  Faults = {"append"}
  Snapshots = FALSE
  BytesFill = FALSE
  MaxJournalSequence = 20
  NoSnapshot = NoSnapshot
SPECIFICATION DurableSpec
INVARIANTS TypeOK NothingOutlivesItsEra
PROPERTIES RollbackExact
CHECK_DEADLOCK FALSE
