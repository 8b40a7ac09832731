SPECIFICATION Spec
CONSTANTS
  Peers = {c1, c2}
  MaxConnections = 1
  MaxServed = 0
  Frames = {"Hello", "Bye"}
  AcceptErrors = FALSE
  MaxFrames = 2
  MaxStarts = 1
CHECK_DEADLOCK FALSE
PROPERTY LimitIsConcurrent
