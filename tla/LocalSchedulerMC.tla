-------------------------- MODULE LocalSchedulerMC --------------------------
(* LocalScheduler for one agent: its heartbeat loop, the workspace cron    *)
(* loop, one wakeup command and one run command.                           *)
EXTENDS LocalScheduler
=============================================================================
