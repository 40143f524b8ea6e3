\* One io_context thread, the server's default.
CONSTANTS
  t1 = t1
  Threads = {t1}
  RequestStrands = TRUE
  MaxWrites = 4
SPECIFICATION FairSpec
INVARIANTS
  TypeOK
  OneWriteAtATime
  NothingUndefined
  LossPerDirection
PROPERTIES
  SendsInOrder
  SendsEverything
  DisconnectIsReported
CHECK_DEADLOCK FALSE
