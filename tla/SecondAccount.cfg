SPECIFICATION Spec
CONSTANTS
  MaxU64 = 9
  InitialCapacity = 4
  MaxCapacity = 4
  MinIssue = 1
  MaxIssue = 4
  AllowReturn = TRUE
  AllowProtect = TRUE
  AllowGrowth = FALSE
  Incarnations = {op}
  Operator = op
  MaxIncarnations = 2
  MaxFences = 1
  WindowLimit = 8
  Unset = Unset
  Accounts = {a1, a2}
  NoAccount = NoAccount
  Ops = {"Open", "Issue"}
  Counts = {1}
  Targets = {op}
  MaxCalls = 8
  MaxFaults = 0
CHECK_DEADLOCK FALSE
INVARIANT WellPlaced
