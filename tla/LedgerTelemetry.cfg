SPECIFICATION Spec
CONSTANTS
  MaxU64 = 6
  InitialCapacity = 3
  MaxCapacity = 4
  MinIssue = 1
  MaxIssue = 3
  AllowReturn = TRUE
  AllowProtect = TRUE
  AllowGrowth = TRUE
INVARIANT
  ConsumedNeverGates
