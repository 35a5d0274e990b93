SPECIFICATION Spec
CONSTANTS
  HeartLoops = {heart}
  CronLoops = {workspaceCron}
  WakeCommands = {wakeup}
  RunCommands = {run}
  Scheduler = scheduler
  Nobody = nobody
  Gone = gone
  TaskIds = {t1, t2}
  MaxTasksPerCycle = 1
  MaxRetries = 1
  MaxSlot = 1
  MaxEvents = 1
INVARIANT OneRunAtATime
CHECK_DEADLOCK FALSE
