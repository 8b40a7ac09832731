CONSTANTS
  Types = {"Request", "Bye"}
  OtherType = "9"
  MaxPayload = 1
  MaxSentPayload = 2
  MaxFrames = 2
  PipeSize = 3
SPECIFICATION Spec
INVARIANTS DeliveredInOrder CleanClose
PROPERTIES StopEndsCall ClientSendEnds
CHECK_DEADLOCK FALSE
