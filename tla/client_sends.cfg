\* Two users send over one connection.
CONSTANTS
  main = main
  other = other
  Users = {main, other}
  Main = main
  MaxConnects = 2
  MaxSends = 5
SPECIFICATION FairSpec
INVARIANTS
  OneWriteAtATime
  NoStall
  DestructorNeverCloses
PROPERTIES
  SendsEverything
  NoCallbackWhenGone
  SendsReturn
CHECK_DEADLOCK FALSE
