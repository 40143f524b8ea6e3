\* Two threads; the server is started up to three times and everything may fail.
CONSTANTS
  t1 = t1
  t2 = t2
  c1 = c1
  c2 = c2
  Threads = {t1, t2}
  Clients = {c1, c2}
  MaxStarts = 3
  ListenMayFail = TRUE
  AcceptMayFail = TRUE
SPECIFICATION FairSpec
INVARIANTS
  SerialAccepts
PROPERTIES
  ClientsAreAccepted
  CallsReturn
CHECK_DEADLOCK FALSE
