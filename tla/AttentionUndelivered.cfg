SPECIFICATION Spec
CONSTANTS
  Signals = {s1, s2}
  NoSignal = NoSignal
  IM = {s2}
  Requests = {q1, q2}
  Tasks = {t1, t2}
  NoTask = NoTask
  Scheduled = {}
  Runs = {r1, r2}
  MaxFaults = 0
INVARIANTS FinalWasDelivered
CHECK_DEADLOCK FALSE
