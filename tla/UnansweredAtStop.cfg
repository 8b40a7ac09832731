SPECIFICATION Spec
CONSTANTS
  Peers = {c1}
  MaxConnections = 1
  MaxServed = 0
  Frames = {"Hello", "Request"}
  AcceptErrors = FALSE
  MaxFrames = 2
  MaxStarts = 1
CHECK_DEADLOCK FALSE
INVARIANT UnansweredIsUndecided
