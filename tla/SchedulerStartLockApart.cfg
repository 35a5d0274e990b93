SPECIFICATION FairSpec
CONSTANTS
  Procs = {p1, p2, p3, p4}
  NoFile = NoFile
  Overlap = FALSE
INVARIANT LockInv
PROPERTIES KeepsScopeLock StaleLockReplaced
CHECK_DEADLOCK FALSE
