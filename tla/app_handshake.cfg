\* A connection that never becomes a websocket.
CONSTANTS
  MaxThreads = 1
  MaxSessions = 2
  MaxLoad = 3
  MaxMessages = 0
  HandshakeMayFail = TRUE
  WriteMayFail = FALSE
SPECIFICATION Spec
INVARIANT RemovalFindsSession
CHECK_DEADLOCK FALSE
