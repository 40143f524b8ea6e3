\* Two threads and the strand: two writes at once.
CONSTANTS
  t1 = t1
  t2 = t2
  Threads = {t1, t2}
  RequestStrands = TRUE
  MaxWrites = 3
SPECIFICATION Spec
INVARIANT OneWriteAtATime
SYMMETRY ThreadSymmetry
CHECK_DEADLOCK FALSE
