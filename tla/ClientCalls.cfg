SPECIFICATION Spec
CONSTANTS
  MaxU64 = 9
  InitialCapacity = 1
  MaxCapacity = 1
  MinIssue = 1
  MaxIssue = 1
  AllowReturn = TRUE
  AllowProtect = TRUE
  AllowGrowth = FALSE
  Incarnations = {op, w}
  Operator = op
  MaxIncarnations = 2
  MaxFences = 1
  WindowLimit = 4
  Unset = Unset
  Accounts = {a1}
  NoAccount = NoAccount
  Ops = {"Open", "Issue", "AdvanceEpoch", "RetireIncarnation"}
  Counts = {1}
  Targets = {w}
  MaxCalls = 2
  MaxFaults = 1
CHECK_DEADLOCK FALSE
INVARIANTS ReconcilesOnce SubmitDecidesOnce WellPlaced OkIsDecided
