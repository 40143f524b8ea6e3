\* The io_context runs before the first operation is queued.
CONSTANTS
  main = main
  other = other
  Users = {main, other}
  Main = main
  MaxConnects = 1
  MaxSends = 1
SPECIFICATION FairSpec
PROPERTY ConnectAnswered
CHECK_DEADLOCK FALSE
