SPECIFICATION Spec
CONSTANTS
  Sizes = {1, 2}
  MaxRecords = 4
  RotateFlushFails = FALSE
  MaxRecordBytes = 2
  MaxBytes = 5
  NamesNeedFlush = TRUE
  DirectoryFlushFails = FALSE
CHECK_DEADLOCK FALSE
INVARIANT AppendedSurvives
