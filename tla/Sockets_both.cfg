SPECIFICATION Spec
CONSTANTS
  Kinds = {"ethernet", "udp"}
  Capacity = 2
  MaxRequests = 3
  MaxForeign = 1
INVARIANTS FrameReachable
PROPERTIES FramesReceived
CHECK_DEADLOCK FALSE
