\* Two io_context threads, two connections.
CONSTANTS
  t1 = t1
  t2 = t2
  c1 = c1
  c2 = c2
  Threads = {t1, t2}
  Connections = {c1, c2}
SPECIFICATION FairSpec
INVARIANTS
  ReleasedIsEnded
  TimerGuards
PROPERTIES
  ConnectionsEnd
CHECK_DEADLOCK FALSE
