CONSTANTS
  Base = 8
  kOpKindCount = 5
  kReasonCount = 11
  kMaxLabelBytes = 2
  NoteCeiling = 3
  max_note_bytes = 2
  RecoveryNotes = 2
  kMaxCollection = 1
  MaxItems = 2
  Samples = {0, 1, 2, 3}
  Faulty = {1}
  Damages = {0, 1, 2, 7}
SPECIFICATION Spec
INVARIANT RoundTrip
CHECK_DEADLOCK FALSE
