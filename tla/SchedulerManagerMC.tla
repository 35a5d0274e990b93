------------------------ MODULE SchedulerManagerMC ------------------------
(* One key of each kind: the loop of an agent, the workspace scheduler and *)
(* a task started by hand.                                                 *)
EXTENDS SchedulerManager, TLC
CONSTANTS worker, all, task
MCModeOf == worker :> "loop" @@ all :> "local" @@ task :> "oneshot"
=============================================================================
