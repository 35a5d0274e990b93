SPECIFICATION FairSpec
CONSTANTS
  n1 = n1  n2 = n2  w1 = w1  w2 = w2  w3 = w3
  r1 = r1  r2 = r2  r3 = r3  a1 = a1  a2 = a2  t1 = t1
  Nodes = {n1}
  NoNode = NoNode
  Workers = {w1, w2}
  NodeOf <- BusyNodeOf
  Runs = {r1, r2}
  NoRun = NoRun
  Rank <- BusyRank
  DesiredNode <- BusyDesired
  Agents = {a1}
  AgentOf <- BusyAgentOf
  Forks = {}
  ForkKind = {}
  Tasks = {t1}
  NoTask = NoTask
  TaskOf <- BusyTaskOf
  WorkflowTasks = {}
  LeaseTicks = 1
  MaxDisruptions = 1
INVARIANTS BusyAgentExclusive CancelMissesNothing
PROPERTIES QueuedEventuallyEnds
