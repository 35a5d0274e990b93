SPECIFICATION Spec
CONSTANTS
  n1 = n1  n2 = n2  w1 = w1  w2 = w2  w3 = w3
  r1 = r1  r2 = r2  r3 = r3  a1 = a1  a2 = a2  t1 = t1
  Nodes = {n1}
  NoNode = NoNode
  Workers = {w1, w2}
  NodeOf <- BusyNodeOf
  Runs = {r1, r2, r3}
  NoRun = NoRun
  Rank <- ForksRank
  DesiredNode <- ForksDesired
  Agents = {a1}
  AgentOf <- ForksAgentOf
  Forks = {r2}
  ForkKind = {r2}
  Tasks = {}
  NoTask = NoTask
  TaskOf <- ForksTaskOf
  WorkflowTasks = {}
  LeaseTicks = 1
  MaxDisruptions = 0
INVARIANTS AllMainRunsExclusive
