SPECIFICATION FairSpec
CONSTANTS
  HeartLoops = {heart}
  CronLoops = {workspaceCron}
  WakeCommands = {wakeup}
  RunCommands = {run}
  Scheduler = scheduler
  Nobody = nobody
  Gone = gone
  TaskIds = {t1, t2}
  MaxTasksPerCycle = 1
  MaxRetries = 0
  MaxSlot = 1
  MaxEvents = 1
INVARIANTS  SlotOnce ConsumedHasTask OverlapOnlyAfterRobbery
PROPERTIES DueSlotFires 
CHECK_DEADLOCK FALSE
