\* Three sockets, so that a connection may be opened over an old one's end.
CONSTANTS
  MaxConnects = 3
  MaxSends = 1
  MaxLines = 3
  Percents = {0, 50, 100}
  MaxStatuses = 4
SPECIFICATION FairSpec
INVARIANTS
  FlagIsHonest
  PingsGoOut
PROPERTIES
  LogIsTidy
  PingsOrTells
CHECK_DEADLOCK FALSE
