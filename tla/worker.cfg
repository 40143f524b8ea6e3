\* Two users, six tasks, both locking models.
CONSTANTS
  main = main
  other = other
  Users = {main, other}
  Owner = main
  MaxTasks = 6
SPECIFICATION FairSpec
INVARIANTS
  TypeOK
  NoLostWakeup
  LastTaskKept
  AvailableIsFree
  RunsInOrder
PROPERTIES
  TakesWhatWaits
  ConstructorReturns
  ShutdownReturns
CHECK_DEADLOCK FALSE
