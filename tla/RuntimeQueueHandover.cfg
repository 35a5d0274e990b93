SPECIFICATION Spec
CONSTANTS
  n1 = n1  n2 = n2  w1 = w1  w2 = w2  w3 = w3
  r1 = r1  r2 = r2  r3 = r3  a1 = a1  a2 = a2  t1 = t1
  Nodes = {n1, n2}
  NoNode = NoNode
  Workers = {w1, w2}
  NodeOf <- HandoverNodeOf
  Runs = {r1}
  NoRun = NoRun
  Rank <- OneRank
  DesiredNode <- OneDesired
  Agents = {a1}
  AgentOf <- OneAgentOf
  Forks = {}
  ForkKind = {}
  Tasks = {t1}
  NoTask = NoTask
  TaskOf <- OneTaskOf
  WorkflowTasks = {t1}
  LeaseTicks = 1
  MaxDisruptions = 2
INVARIANTS QueueInv LeaseExclusive EndedRunSettlesTask
PROPERTIES KeepsLedger
