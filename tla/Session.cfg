CONSTANTS
  MaxU64 = 20
  InitialCapacity = 2
  MaxCapacity = 3
  MinIssue = 1
  MaxIssue = 2
  AllowReturn = TRUE
  AllowProtect = TRUE
  AllowGrowth = TRUE
  Operator = op
  Incarnations = {op, w}
  MaxIncarnations = 2
  MaxFences = 1
  WindowLimit = 2
  Unset = Unset
  NoAccount = NoAccount
  Ops = {"Reconcile", "Issue", "AdvanceEpoch"}
  Commands = {"Open", "Reconcile", "Issue", "AdvanceEpoch", "Fence"}
  MaxTries = 8
  Counts = {1, 3}
  Producers = {p1, p2}
  MaxSequence = 6
  MaxDecisions = 3
  MaxBoots = 3
SPECIFICATION SessionSpec
INVARIANTS CommandDecidedOnce SettledAtFirstTurn
CHECK_DEADLOCK FALSE
