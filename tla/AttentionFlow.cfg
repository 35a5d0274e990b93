SPECIFICATION FairSpec
CONSTANTS
  Signals = {s1}
  NoSignal = NoSignal
  IM = {}
  Requests = {q1, q2}
  Tasks = {t1, t2}
  NoTask = NoTask
  Scheduled = {t2}
  Runs = {r1, r2}
  MaxFaults = 1
INVARIANT WakeupInv
PROPERTIES FinalStays WakeupsHandedOn PendingGetsOut
CHECK_DEADLOCK FALSE
