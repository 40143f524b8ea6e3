\* Two io_context threads and the shared strand.
CONSTANTS
  t1 = t1
  t2 = t2
  Threads = {t1, t2}
  RequestStrands = TRUE
  MaxWrites = 3
SPECIFICATION Spec
INVARIANTS
  NoStall
  DestructorNeverCloses
SYMMETRY ThreadSymmetry
CHECK_DEADLOCK FALSE
