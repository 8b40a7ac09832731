SPECIFICATION Spec
CONSTANTS
  Peers = {c1, c2}
  MaxConnections = 1
  MaxServed = 2
  Frames = {"Hello", "Request", "Invalid", "Damaged"}
  AcceptErrors = TRUE
  MaxFrames = 3
  MaxStarts = 2
CHECK_DEADLOCK FALSE
INVARIANTS StopJoinsAll ConnectionBound OneInDoubt
PROPERTIES StopReturns Attended
