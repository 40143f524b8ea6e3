\* One thread and three connections, or two threads and two connections.
CONSTANTS
  MaxThreads = 2
  MaxSessions = 3
  MaxLoad = 4
  MaxMessages = 1
  HandshakeMayFail = TRUE
  WriteMayFail = TRUE
SPECIFICATION FairSpec
INVARIANTS
  RosterMatches
  ViewMatches
  RemovalThrowsTwiceLost
PROPERTIES
  MessagesNameTheirSender
  HandlersReturn
CHECK_DEADLOCK FALSE
