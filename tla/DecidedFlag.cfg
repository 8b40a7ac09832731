CONSTANTS
  MaxU64 = 20
  InitialCapacity = 2
  MaxCapacity = 3
  MinIssue = 1
  MaxIssue = 2
  AllowReturn = TRUE
  AllowProtect = TRUE
  AllowGrowth = TRUE
  Operator = op
  Incarnations = {op, w}
  MaxIncarnations = 2
  MaxFences = 1
  WindowLimit = 2
  Unset = Unset
  NoAccount = NoAccount
  Ops = {"Issue"}
  Counts = {1}
  Producers = {}
  MaxSequence = 4
  MaxDecisions = 3
  MaxBoots = 2
SPECIFICATION Spec
INVARIANT DecidedConsumesSlot
CHECK_DEADLOCK FALSE
