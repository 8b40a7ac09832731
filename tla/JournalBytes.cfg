SPECIFICATION Spec
CONSTANTS
  Sizes = {1, 2}
  MaxRecords = 4
  RotateFlushFails = FALSE
  MaxRecordBytes = 2
  MaxBytes = 5
  NamesNeedFlush = FALSE
  DirectoryFlushFails = FALSE
CHECK_DEADLOCK FALSE
INVARIANTS AppendedSurvives FileIsKnown HeaderStays GrowthBounded
