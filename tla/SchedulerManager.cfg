SPECIFICATION FairSpec
CONSTANTS
  Keys = {worker, all, task}
  ModeOf <- MCModeOf
  Procs = {p1, p2}
  NoProc = NoProc  NoKey = NoKey
  Requests = {r1, r2}
  Main = main
  MaxManager = 2
  worker = worker all = all task = task
INVARIANTS ManagerInv OnePerKey OneShotsLeftAlone NothingLeftBehind
CHECK_DEADLOCK FALSE
PROPERTIES ShutdownCompletes AskedCommandEnds
