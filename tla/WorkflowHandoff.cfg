SPECIFICATION Spec
CONSTANTS
  plan = plan  build = build  review = review  fix = fix  ship = ship
  a1 = a1  a2 = a2  h1 = h1  b1 = b1  b2 = b2  c1 = c1  c2 = c2
  ok = ok  again = again
  Steps = {plan, build, review, fix, ship}
  StartStep = plan
  Parallel = {build, fix}
  AnyJoin = {fix}
  NoStep = NoStep
  Agents = {a1, a2}
  People = {h1}
  ActorOf <- MCActorOf
  Outcomes = {ok, again}
  Failed = Failed
  Edge <- MCEdge
  End = End
  NoMatch = NoMatch
  Branches = {b1, b2, c1, c2}
  StageOf <- MCStageOf
  NoBranch = NoBranch
  Requests = {q1, q2}
  MaxExtra = 1
INVARIANTS JoinWaitsForListed JoinWaitsForAll TaskFollowsWorkflow InProgressHasRun
PROPERTY KeepsCourse
CHECK_DEADLOCK FALSE
SYMMETRY MCSymmetry
