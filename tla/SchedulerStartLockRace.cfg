SPECIFICATION Spec
CONSTANTS
  Procs = {p1, p2, p3}
  NoFile = NoFile
  Overlap = TRUE
INVARIANTS OneScheduler
CHECK_DEADLOCK FALSE
