------------------------- MODULE RuntimeQueueProofs -------------------------
(***************************************************************************)
(* Proofs about RuntimeQueue, for all nodes, workers, runs and tasks, any  *)
(* length of the lease and any number of disruptions.                      *)
(***************************************************************************)
EXTENDS RuntimeQueue, TLAPS

USE NodesAssumption, RunsAssumption, TasksAssumption, LeaseAssumption

\* The type invariant: every row, worker, request and task stays in the states
\* the code writes.
LEMMA InitType == Init => TypeOK
  BY DEF Init, TypeOK, Rows, EndedRow, Expired, Leases, Active, Ended, TaskStatuses,
         IdleWorker, Goroutines, WorkerPcs, Outcomes, NoReport, Reports, NoCancel, Cancels

-----------------------------------------------------------------------------
(* What an update of one goroutine, row or request leaves and changes.      *)

WorkersTyped ==
  /\ worker \in [Workers -> Goroutines]
  /\ \A w \in Workers : worker[w].pc \notin {"idle", "claiming"} => worker[w].job \in Runs

LEMMA WorkersFacts == TypeOK => WorkersTyped
  BY DEF TypeOK, WorkersTyped

LEMMA PcUpdate ==
  ASSUME NEW wk \in [Workers -> Goroutines], NEW w \in Workers, NEW p \in WorkerPcs
  PROVE  LET nxt == [wk EXCEPT ![w].pc = p] IN
         /\ nxt \in [Workers -> Goroutines]
         /\ \A v \in Workers : /\ nxt[v].job = wk[v].job
                               /\ nxt[v].hold = wk[v].hold
                               /\ nxt[v].outcome = wk[v].outcome
                               /\ nxt[v].pc = IF v = w THEN p ELSE wk[v].pc
<1> DEFINE nxt == [wk EXCEPT ![w].pc = p]
<1>1. wk[w] \in Goroutines
  OBVIOUS
<1>2. [wk[w] EXCEPT !.pc = p] \in Goroutines
  BY <1>1 DEF Goroutines
<1>3. \A v \in Workers : nxt[v] = IF v = w THEN [wk[w] EXCEPT !.pc = p] ELSE wk[v]
  OBVIOUS
<1>4. nxt \in [Workers -> Goroutines]
  BY <1>2, <1>3
<1> QED  BY <1>1, <1>3, <1>4 DEF Goroutines

LEMMA Reporting ==
  ASSUME WorkersTyped, NEW w \in Workers, NEW o \in Outcomes,
         worker[w].job \in Runs, worker' = ToReport(w, o)
  PROVE  /\ WorkersTyped'
         /\ \A v \in Workers : /\ worker'[v].job = worker[v].job
                               /\ worker'[v].hold = worker[v].hold
                               /\ worker'[v].pc = IF v = w THEN "reporting" ELSE worker[v].pc
<1> DEFINE g == [pc |-> "reporting", job |-> worker[w].job, hold |-> worker[w].hold, outcome |-> o]
<1>1. worker[w] \in Goroutines /\ "reporting" \in WorkerPcs
  BY DEF WorkersTyped, WorkerPcs
<1>2. g \in Goroutines
  BY <1>1 DEF Goroutines
<1>3. worker' \in [Workers -> Goroutines] /\ \A v \in Workers : worker'[v] = IF v = w THEN g ELSE worker[v]
  BY <1>2 DEF ToReport, WorkersTyped
<1> QED  BY <1>3 DEF WorkersTyped

LEMMA HoldUpdate ==
  ASSUME NEW wk \in [Workers -> Goroutines], NEW w \in Workers, NEW h \in Leases
  PROVE  LET nxt == [wk EXCEPT ![w].hold = h] IN
         /\ nxt \in [Workers -> Goroutines]
         /\ \A v \in Workers : /\ nxt[v].job = wk[v].job
                               /\ nxt[v].pc = wk[v].pc
                               /\ nxt[v].hold = IF v = w THEN h ELSE wk[v].hold
<1> DEFINE nxt == [wk EXCEPT ![w].hold = h]
<1>1. wk[w] \in Goroutines
  OBVIOUS
<1>2. [wk[w] EXCEPT !.hold = h] \in Goroutines
  BY <1>1 DEF Goroutines
<1>3. \A v \in Workers : nxt[v] = IF v = w THEN [wk[w] EXCEPT !.hold = h] ELSE wk[v]
  OBVIOUS
<1>4. nxt \in [Workers -> Goroutines]
  BY <1>2, <1>3
<1> QED  BY <1>1, <1>3, <1>4 DEF Goroutines

LEMMA IdleGoroutine ==
  /\ IdleWorker \in Goroutines
  /\ IdleWorker.pc = "idle" /\ IdleWorker.hold = Expired
  /\ [IdleWorker EXCEPT !.pc = "claiming"] \in Goroutines
  /\ [IdleWorker EXCEPT !.pc = "claiming"].pc = "claiming"
  BY DEF IdleWorker, Goroutines, WorkerPcs, Outcomes, Leases, Expired

LEMMA ClaimedGoroutine ==
  ASSUME NEW r \in Runs
  PROVE  [pc |-> "checking", job |-> r, hold |-> LeaseTicks, outcome |-> "none"] \in Goroutines
  BY DEF Goroutines, WorkerPcs, Outcomes, Leases, Expired

LEMMA LeaseUpdate ==
  ASSUME NEW rows \in [Runs -> Rows], NEW r \in Runs, NEW l \in Leases
  PROVE  LET nxt == [rows EXCEPT ![r].lease = l] IN
         /\ nxt \in [Runs -> Rows]
         /\ \A s \in Runs : /\ nxt[s].status = rows[s].status
                            /\ nxt[s].node = rows[s].node
                            /\ nxt[s].lease = IF s = r THEN l ELSE rows[s].lease
<1> DEFINE nxt == [rows EXCEPT ![r].lease = l]
<1>1. rows[r] \in Rows
  OBVIOUS
<1>2. [rows[r] EXCEPT !.lease = l] \in Rows
  BY <1>1 DEF Rows
<1>3. \A s \in Runs : nxt[s] = IF s = r THEN [rows[r] EXCEPT !.lease = l] ELSE rows[s]
  OBVIOUS
<1>4. nxt \in [Runs -> Rows]
  BY <1>2, <1>3
<1> QED  BY <1>1, <1>3, <1>4 DEF Rows

LEMMA RowTypes ==
  /\ \A s \in Ended, n \in Nodes \cup {NoNode} : EndedRow(s, n) \in Rows
  /\ \A n \in Nodes : [status |-> "running", node |-> n, lease |-> LeaseTicks] \in Rows
  BY DEF EndedRow, Rows, Leases, Expired, Ended, Active

-----------------------------------------------------------------------------
LEMMA WorkerStepType ==
  ASSUME TypeOK, NEW w \in Workers, WorkerStep(w)
  PROVE  TypeOK'
<1> USE DEF TypeOK
<1>1. CASE StartClaim(w)
  <2>1. "claiming" \in WorkerPcs
    BY DEF WorkerPcs
  <2> QED  BY <1>1, <2>1, PcUpdate DEF StartClaim
<1>2. CASE ClaimRun(w)
  <2>1. PICK r \in Runs :
          /\ run' = [run EXCEPT ![r] = [status |-> "running", node |-> NodeOf[w], lease |-> LeaseTicks]]
          /\ worker' = [worker EXCEPT ![w] =
               [pc |-> "checking", job |-> r, hold |-> LeaseTicks, outcome |-> "none"]]
    BY <1>2 DEF ClaimRun, NextClaim, Claimable
  <2> QED  BY <1>2, <2>1, ClaimedGoroutine, RowTypes DEF ClaimRun
<1>3. CASE NothingToClaim(w)
  BY <1>3, IdleGoroutine DEF NothingToClaim
<1>4. CASE SkipDoneTask(w)
  <2>1. worker[w].job \in Runs
    BY <1>4 DEF SkipDoneTask
  <2>2. run' \in [Runs -> Rows]
    BY <1>4, <2>1, RowTypes DEF SkipDoneTask, Ended
  <2> QED  BY <1>4, <2>2, IdleGoroutine DEF SkipDoneTask
<1>5. CASE HandOver(w)
  <2>1. "claimed" \in WorkerPcs
    BY DEF WorkerPcs
  <2>2. worker[w].job \in Runs
    BY <1>5 DEF HandOver
  <2>3. busy' \in [Nodes -> SUBSET Agents]
    BY <1>5, <2>2 DEF HandOver
  <2>4. disruptions' \in 0 .. MaxDisruptions
    BY <1>5 DEF HandOver, Disrupt
  <2> QED  BY <1>5, <2>1, <2>2, <2>3, <2>4, PcUpdate DEF HandOver
<1>6. CASE LoseClaim(w)
  BY <1>6, IdleGoroutine DEF LoseClaim, Disrupt
<1>7. CASE FetchSpec(w)
  <2>1. worker[w].job \in Runs
    BY <1>7 DEF FetchSpec
  <2>2. {"reporting", "returning", "exec"} \subseteq WorkerPcs /\ "unprepared" \in Outcomes
    BY DEF WorkerPcs, Outcomes
  <2>3. CASE ~OwnsJob(w)
    <3>1. worker' = ToReport(w, "unprepared")
      BY <1>7, <2>3 DEF FetchSpec
    <3>2. WorkersTyped'
      BY <2>1, <2>2, <3>1, Reporting, WorkersFacts
    <3> QED  BY <1>7, <3>2 DEF FetchSpec, WorkersTyped
  <2>4. CASE OwnsJob(w)
    <3>1. PICK p \in {"returning", "exec"} : worker' = [worker EXCEPT ![w].pc = p]
      BY <1>7, <2>4 DEF FetchSpec
    <3>2. WorkersTyped'
      BY <2>1, <2>2, <3>1, PcUpdate DEF WorkersTyped
    <3> QED  BY <1>7, <3>2 DEF FetchSpec, WorkersTyped
  <2> QED  BY <2>3, <2>4
<1>8. CASE PrepareFails(w)
  <2>1. "unprepared" \in Outcomes /\ worker' = ToReport(w, "unprepared") /\ worker[w].job \in Runs
    BY <1>8 DEF PrepareFails, Outcomes
  <2>2. WorkersTyped'
    BY <2>1, Reporting, WorkersFacts
  <2> QED  BY <1>8, <2>2 DEF PrepareFails, WorkersTyped
<1>9. CASE RenewLease(w)
  <2>1. worker[w].job \in Runs /\ LeaseTicks \in Leases
    BY <1>9 DEF RenewLease, Renewing, Leases, Expired
  <2>2. run' \in [Runs -> Rows]
    BY <1>9, <2>1, LeaseUpdate DEF RenewLease
  <2> QED  BY <1>9, <2>1, <2>2, HoldUpdate DEF RenewLease
<1>10. CASE LearnCancelled(w)
  <2>1. "returning" \in WorkerPcs /\ worker[w].job \in Runs
    BY <1>10 DEF LearnCancelled, Executing, WorkerPcs
  <2>2. worker' = [worker EXCEPT ![w].pc = "returning"]
    BY <1>10 DEF LearnCancelled
  <2>3. WorkersTyped'
    BY <2>1, <2>2, PcUpdate DEF WorkersTyped
  <2> QED  BY <1>10, <2>3 DEF LearnCancelled, WorkersTyped
<1>11. CASE Return(w)
  BY <1>11, IdleGoroutine DEF Return
<1>12. ASSUME NEW o \in {"succeeded", "failed"}, AgentStops(w, o)
       PROVE  TypeOK'
  <2>1. o \in Outcomes /\ worker' = ToReport(w, o) /\ worker[w].job \in Runs
    BY <1>12 DEF AgentStops, Executing, Outcomes
  <2>2. WorkersTyped'
    BY <2>1, Reporting, WorkersFacts
  <2> QED  BY <1>12, <2>2 DEF AgentStops, WorkersTyped
<1>13. ASSUME NEW s \in TaskStatuses \ {"open"}, AgentUpdatesTask(w, s)
       PROVE  TypeOK'
  BY <1>13 DEF AgentUpdatesTask, TaskStatuses, TaskDone
<1> QED  BY <1>1, <1>2, <1>3, <1>4, <1>5, <1>6, <1>7, <1>8, <1>9, <1>10, <1>11, <1>12, <1>13
         DEF WorkerStep

LEMMA AnswerType ==
  ASSUME worker \in [Workers -> Goroutines], NEW w \in Workers
  PROVE  /\ Answer(w) \in [Workers -> Goroutines]
         /\ \A v \in Workers :
              /\ Answer(w)[v].job = worker[v].job
              /\ Answer(w)[v].hold = worker[v].hold
              /\ Answer(w)[v].pc = IF v = w /\ worker[w].pc = "sent" THEN "returning"
                                   ELSE worker[v].pc
<1>1. "returning" \in WorkerPcs
  BY DEF WorkerPcs
<1> QED  BY <1>1, PcUpdate DEF Answer

LEMMA AnswerTyped ==
  ASSUME TypeOK, NEW w \in Workers, worker' = Answer(w)
  PROVE  /\ worker' \in [Workers -> Goroutines]
         /\ \A v \in Workers : worker'[v].pc \notin {"idle", "claiming"} => worker'[v].job \in Runs
  BY AnswerType DEF TypeOK

LEMMA StageUpdate ==
  ASSUME report \in [Workers -> Reports], NEW w \in Workers,
         NEW g \in {"judged", "settled"}, report' = [report EXCEPT ![w].stage = g]
  PROVE  /\ report' \in [Workers -> Reports]
         /\ \A v \in Workers : /\ report'[v].run = report[v].run
                               /\ report'[v].status = report[v].status
                               /\ report'[v].stage = IF v = w THEN g ELSE report[v].stage
<1>1. report[w] \in Reports
  OBVIOUS
<1>2. [report[w] EXCEPT !.stage = g] \in Reports
  BY <1>1 DEF Reports
<1>3. \A v \in Workers :
        report'[v] = IF v = w THEN [report[w] EXCEPT !.stage = g] ELSE report[v]
  OBVIOUS
<1>4. report' \in [Workers -> Reports]
  BY <1>2, <1>3
<1> QED  BY <1>1, <1>3, <1>4 DEF Reports

LEMMA NoReportType == NoReport \in Reports /\ NoReport.stage = "none"
  BY DEF NoReport, Reports

LEMMA ReportStepType ==
  ASSUME TypeOK, NEW w \in Workers, ReportStep(w)
  PROVE  TypeOK'
<1> USE DEF TypeOK
<1>0. {"sent", "returning"} \subseteq WorkerPcs
  BY DEF WorkerPcs
<1>1. CASE ReadRun(w)
  <2> DEFINE s == IF worker[w].outcome = "succeeded" THEN "succeeded" ELSE "failed"
             rec == [stage |-> "read", run |-> worker[w].job, status |-> s]
  <2>1. worker[w].job \in Runs
    BY <1>1 DEF ReadRun
  <2>2. rec \in Reports /\ rec.run \in Runs /\ rec.status # "none"
    BY <2>1 DEF Reports
  <2>3. CASE OwnsJob(w)
    <3>1. /\ report' = [report EXCEPT ![w] = rec]
          /\ worker' = [worker EXCEPT ![w].pc = "sent"]
      BY <1>1, <2>3 DEF ReadRun
    <3> HIDE DEF rec
    <3> QED  BY <1>1, <2>1, <2>2, <3>1, <1>0, PcUpdate DEF ReadRun
  <2>4. CASE ~OwnsJob(w)
    <3>1. worker' = [worker EXCEPT ![w].pc = "returning"] /\ report' = report
      BY <1>1, <2>4 DEF ReadRun
    <3> QED  BY <1>1, <2>1, <3>1, <1>0, PcUpdate DEF ReadRun
  <2> QED  BY <2>3, <2>4
<1>2. CASE JudgeTask(w)
  <2>1. PICK g \in {"judged", "settled"} : report' = [report EXCEPT ![w].stage = g]
    BY <1>2 DEF JudgeTask
  <2>2. report[w].stage # "none"
    BY <1>2 DEF JudgeTask
  <2>3. /\ report' \in [Workers -> Reports]
        /\ \A v \in Workers : report'[v].stage # "none" =>
             report'[v].run \in Runs /\ report'[v].status # "none"
    <3>1. report[w].run \in Runs /\ report[w].status # "none"
      BY <2>2
    <3>2. /\ report' \in [Workers -> Reports]
          /\ \A v \in Workers : /\ report'[v].run = report[v].run
                                /\ report'[v].status = report[v].status
          /\ \A v \in Workers : v # w => report'[v].stage = report[v].stage
      BY <2>1, StageUpdate
    <3> QED  BY <3>1, <3>2
  <2>4. excused' \subseteq Tasks \cup {NoTask} /\ disruptions' \in 0 .. MaxDisruptions
    BY <1>2 DEF JudgeTask, Disrupt
  <2> QED  BY <1>2, <2>3, <2>4 DEF JudgeTask
<1>3. CASE SettleTask(w)
  <2> DEFINE t == TaskOf[report[w].run]
             v == IF t \in WorkflowTasks THEN "failed" ELSE report[w].status
             rec == [stage |-> "settled", run |-> report[w].run, status |-> v]
  <2>1. /\ report[w] \in Reports /\ report[w].run \in Runs /\ report[w].status # "none"
    BY <1>3 DEF SettleTask
  <2>2. report' = [report EXCEPT ![w] = rec]
    BY <1>3 DEF SettleTask
  <2>3. rec \in Reports /\ rec.run \in Runs /\ rec.status # "none"
    BY <2>1 DEF Reports
  <2>4. task' \in [Tasks -> TaskStatuses] /\ disruptions' \in 0 .. MaxDisruptions
    BY <1>3 DEF SettleTask, TaskStatuses, TaskDone, Disrupt
  <2>5. excused' \subseteq Tasks \cup {NoTask}
    <3>1. TaskOf[report[w].run] \in Tasks \cup {NoTask}
      BY <2>1
    <3> QED  BY <1>3, <3>1 DEF SettleTask
  <2> HIDE DEF rec
  <2> QED  BY <1>3, <2>2, <2>3, <2>4, <2>5 DEF SettleTask
<1>4. CASE WriteRun(w)
  <2>1. report[w].run \in Runs /\ report[w].status \in Ended
    BY <1>4 DEF WriteRun, Reports, Ended
  <2>2. run' \in [Runs -> Rows]
    BY <1>4, <2>1, RowTypes DEF WriteRun
  <2> QED  BY <1>4, <2>2, AnswerTyped, NoReportType DEF WriteRun
<1>5. CASE LoseReport(w)
  BY <1>5, <1>0, PcUpdate DEF LoseReport, Disrupt
<1>6. CASE ReportTimesOut(w)
  BY <1>6, AnswerTyped DEF ReportTimesOut, Disrupt
<1>7. CASE ReportFails(w)
  BY <1>7, AnswerTyped, NoReportType DEF ReportFails, Disrupt
<1> QED  BY <1>1, <1>2, <1>3, <1>4, <1>5, <1>6, <1>7 DEF ReportStep

LEMMA NoCancelType == NoCancel \in Cancels /\ NoCancel.listed = {}
  BY DEF NoCancel, Cancels

LEMMA CancelStepType ==
  ASSUME TypeOK, CancelStep
  PROVE  TypeOK'
<1> USE DEF TypeOK
<1>1. ASSUME NEW t \in Tasks, ReadTaskToCancel(t)
      PROVE  TypeOK'
  <2>1. cancel' \in Cancels
    BY <1>1 DEF ReadTaskToCancel, Cancels
  <2> QED  BY <1>1, <2>1 DEF ReadTaskToCancel, Disrupt
<1>2. ASSUME NEW t \in Tasks, CancelTask(t)
      PROVE  TypeOK'
  <2>1. cancel' \in Cancels
    BY <1>2 DEF CancelTask, Cancels, ActiveIn
  <2>2. task' \in [Tasks -> TaskStatuses]
    BY <1>2 DEF CancelTask, TaskStatuses, TaskDone
  <2> QED  BY <1>2, <2>1, <2>2 DEF CancelTask
<1>3. ASSUME NEW a \in Agents, AbortAgent(a)
      PROVE  TypeOK'
  <2>1. cancel' \in Cancels
    BY <1>3 DEF AbortAgent, Cancels, ActiveIn
  <2> QED  BY <1>3, <2>1 DEF AbortAgent, Disrupt
<1>4. CASE ListRuns
  <2>1. \A r \in Runs : run[r].node \in Nodes \cup {NoNode}
    BY DEF Rows
  <2>2. cancel' \in Cancels
    BY <1>4, <2>1 DEF ListRuns, Cancels
  <2> QED  BY <1>4, <2>2 DEF ListRuns
<1>5. CASE AllWritten
  <2>1. cancel' \in Cancels
    BY <1>5 DEF AllWritten, Cancels
  <2> QED  BY <1>5, <2>1 DEF AllWritten
<1>6. CASE AnswerCancel
  BY <1>6, NoCancelType DEF AnswerCancel
<1>7. CASE CancelFails
  BY <1>7, NoCancelType DEF CancelFails, Disrupt
<1>8. ASSUME NEW r \in Runs, WriteCancelled(r)
      PROVE  TypeOK'
  <2>1. cancel.node[r] \in Nodes \cup {NoNode}
    BY DEF Cancels
  <2>2. run' \in [Runs -> Rows]
    BY <1>8, <2>1, RowTypes DEF WriteCancelled, Ended
  <2>3. cancel' \in Cancels
    BY <1>8 DEF WriteCancelled, Cancels
  <2> QED  BY <1>8, <2>2, <2>3 DEF WriteCancelled
<1> QED  BY <1>1, <1>2, <1>3, <1>4, <1>5, <1>6, <1>7, <1>8 DEF CancelStep

\* The clock runs every lease and every grant down together.
LEMMA TimeUpdate ==
  ASSUME TypeOK, TimePasses
  PROVE  /\ run' \in [Runs -> Rows] /\ WorkersTyped'
         /\ \A r \in Runs : /\ run'[r].status = run[r].status
                            /\ run'[r].node = run[r].node
                            /\ run'[r].lease = RunDown(run[r].lease)
         /\ \A w \in Workers : /\ worker'[w].pc = worker[w].pc
                               /\ worker'[w].job = worker[w].job
                               /\ worker'[w].hold = RunDown(worker[w].hold)
<1>1. \A l \in Leases : RunDown(l) \in Leases
  BY DEF RunDown, Leases, Expired
<1>2. ASSUME NEW r \in Runs
      PROVE  LET row == [run[r] EXCEPT !.lease = RunDown(run[r].lease)] IN
             /\ row \in Rows /\ row.status = run[r].status /\ row.node = run[r].node
             /\ row.lease = RunDown(run[r].lease)
  <2>1. run[r] \in Rows
    BY DEF TypeOK
  <2> QED  BY <2>1, <1>1 DEF Rows
<1>3. ASSUME NEW w \in Workers
      PROVE  LET g == [worker[w] EXCEPT !.hold = RunDown(worker[w].hold)] IN
             /\ g \in Goroutines /\ g.pc = worker[w].pc /\ g.job = worker[w].job
             /\ g.hold = RunDown(worker[w].hold)
  <2>1. worker[w] \in Goroutines
    BY DEF TypeOK
  <2> QED  BY <2>1, <1>1 DEF Goroutines
<1>4. /\ run' = [r \in Runs |-> [run[r] EXCEPT !.lease = RunDown(run[r].lease)]]
      /\ worker' = [w \in Workers |-> [worker[w] EXCEPT !.hold = RunDown(worker[w].hold)]]
  BY DEF TimePasses
<1> QED  BY <1>2, <1>3, <1>4 DEF WorkersTyped, TypeOK

LEMMA NextType ==
  ASSUME TypeOK, [Next]_vars
  PROVE  TypeOK'
<1>1. ASSUME NEW r \in Runs, Enqueue(r)
      PROVE  TypeOK'
  <2>1. run[r] \in Rows
    BY DEF TypeOK
  <2>2. [run[r] EXCEPT !.status = "queued"] \in Rows
    BY <2>1 DEF Rows, Active
  <2> QED  BY <1>1, <2>2 DEF Enqueue, TypeOK
<1>2. ASSUME NEW n \in Nodes, Disable(n) \/ Enable(n) \/ NodeCrash(n)
      PROVE  TypeOK'
  <2>1. CASE Disable(n) \/ Enable(n)
    <3>1. enabled' \in [Nodes -> BOOLEAN]
      BY <2>1, Zenon DEF Disable, Enable, TypeOK
    <3> QED  BY <2>1, <3>1 DEF Disable, Enable, Disrupt, TypeOK
  <2>2. CASE NodeCrash(n)
    <3>1. WorkersTyped'
      BY <2>2, IdleGoroutine DEF NodeCrash, TypeOK, WorkersTyped
    <3> QED  BY <2>2, <3>1 DEF NodeCrash, Disrupt, TypeOK, WorkersTyped
  <2> QED  BY <1>2, <2>1, <2>2
<1>3. ASSUME NEW w \in Workers, WorkerStep(w) \/ ReportStep(w)
      PROVE  TypeOK'
  BY <1>3, WorkerStepType, ReportStepType
<1>4. ASSUME NEW t \in Tasks, ReopenTask(t)
      PROVE  TypeOK'
  BY <1>4 DEF ReopenTask, Disrupt, TypeOK, TaskStatuses
<1>5. CASE CancelStep
  BY <1>5, CancelStepType
<1>6. CASE Tick \/ Stall
  BY <1>6, TimeUpdate DEF Tick, Stall, Disrupt, TypeOK, WorkersTyped
<1>7. CASE UNCHANGED vars
  BY <1>7 DEF vars, TypeOK
<1> QED  BY <1>1, <1>2, <1>3, <1>4, <1>5, <1>6, <1>7 DEF Next

\* Every reachable state is well typed.
THEOREM TypeCorrect == Spec => []TypeOK
<1>1. Init => TypeOK
  BY InitType
<1>2. TypeOK /\ [Next]_vars => TypeOK'
  BY NextType
<1> QED  BY <1>1, <1>2, PTL DEF Spec

-----------------------------------------------------------------------------
(***************************************************************************)
(* The invariant.  Only a claim, a renewal and the clock touch a running   *)
(* row or a grant; every other step is quiet.                              *)
(***************************************************************************)
Known(w) == worker[w].pc \notin {"idle", "claiming"}

RowsQuiet == \A r \in Runs : run'[r].status = "running" => run'[r] = run[r]

RowsAdvance ==
  \A r \in Runs :
    /\ run[r].status # "absent" => run'[r].status # "absent"
    /\ run[r].status \notin {"absent", "queued"} => run'[r].status \notin {"absent", "queued"}

WorkersQuiet ==
  \A w \in Workers : Known(w)' =>
    /\ Known(w) /\ worker'[w].job = worker[w].job /\ worker'[w].hold = worker[w].hold
    /\ worker'[w].pc # "returning" => worker[w].pc # "returning"

RequestsKnown ==
  /\ \A w \in Workers : report'[w].stage # "none" =>
       \/ report[w].stage # "none" /\ report'[w].run = report[w].run
       \/ Known(w) /\ report'[w].run = worker[w].job
  /\ \A r \in cancel'.listed : r \in Runs /\ (r \in cancel.listed \/ run[r].status # "absent")

Quiet == RowsQuiet /\ RowsAdvance /\ WorkersQuiet /\ RequestsKnown

LEMMA WorkingKnown ==
  ASSUME TypeOK, NEW w \in Workers
  PROVE  Working(w) <=> Known(w) /\ worker[w].pc # "returning"
<1>1. worker[w].pc \in WorkerPcs
  BY DEF TypeOK, Goroutines
<1> QED  BY <1>1 DEF Working, Known, WorkerPcs

LEMMA QuietKeepsInv ==
  ASSUME QueueInv, TypeOK', Quiet
  PROVE  QueueInv'
<1>1. \A w \in Workers : Known(w) => worker[w].job \in Runs
  BY DEF QueueInv, TypeOK, Known
<1>2. \A w \in Workers : Working(w)' =>
        /\ Working(w) /\ worker[w].job \in Runs
        /\ worker'[w].job = worker[w].job /\ worker'[w].hold = worker[w].hold
  <2>1. \A w \in Workers : Working(w)' <=> Known(w)' /\ worker'[w].pc # "returning"
    <3>1. \A w \in Workers : worker'[w].pc \in WorkerPcs
      BY DEF TypeOK, Goroutines
    <3> QED  BY <3>1 DEF Working, Known, WorkerPcs
  <2> QED  BY <1>1, <2>1, WorkingKnown DEF Quiet, WorkersQuiet, QueueInv
<1>3. RowsKnown'
  <2>1. \A w \in Workers : Known(w)' => run'[worker'[w].job].status \notin {"absent", "queued"}
    BY <1>1 DEF Quiet, WorkersQuiet, RowsAdvance, QueueInv, RowsKnown, Known
  <2>2. \A w \in Workers : report'[w].stage # "none" =>
          run'[report'[w].run].status \notin {"absent", "queued"}
    <3>1. \A w \in Workers : report[w].stage # "none" =>
            report[w].run \in Runs /\ run[report[w].run].status \notin {"absent", "queued"}
      BY DEF QueueInv, TypeOK, RowsKnown
    <3>2. \A w \in Workers : Known(w) => run[worker[w].job].status \notin {"absent", "queued"}
      BY DEF QueueInv, RowsKnown, Known
    <3> QED  BY <1>1, <3>1, <3>2 DEF Quiet, RequestsKnown, RowsAdvance
  <2>3. \A r \in cancel'.listed : run'[r].status # "absent"
    BY DEF Quiet, RequestsKnown, RowsAdvance, QueueInv, RowsKnown
  <2> QED  BY <2>1, <2>2, <2>3 DEF RowsKnown, Known
<1>4. RunningEligible'
  BY DEF Quiet, RowsQuiet, QueueInv, RunningEligible
<1>5. GrantBacked'
  BY <1>2 DEF Quiet, RowsQuiet, QueueInv, GrantBacked, OwnsJob
<1>6. LeaseExclusive'
  BY <1>2 DEF QueueInv, LeaseExclusive
<1> QED  BY <1>3, <1>4, <1>5, <1>6 DEF QueueInv

LEMMA SameRows ==
  ASSUME QueueInv, run' = run, WorkersQuiet, RequestsKnown
  PROVE  Quiet
  BY DEF Quiet, RowsQuiet, RowsAdvance

LEMMA SameRequests ==
  ASSUME QueueInv, report' = report, cancel' = cancel
  PROVE  RequestsKnown
  BY DEF RequestsKnown, QueueInv, TypeOK, Cancels

LEMMA SameWorkers ==
  ASSUME worker' = worker
  PROVE  WorkersQuiet
  BY DEF WorkersQuiet, Known

\* A row overwritten with an ended one is quiet.
LEMMA EndedQuiet ==
  ASSUME QueueInv, NEW r \in Runs, NEW s \in Ended, NEW n,
         run' = [run EXCEPT ![r] = EndedRow(s, n)]
  PROVE  RowsQuiet /\ RowsAdvance
<1>1. \A q \in Runs : run'[q] = IF q = r THEN EndedRow(s, n) ELSE run[q]
  BY DEF QueueInv, TypeOK
<1>2. EndedRow(s, n).status \notin {"absent", "queued", "running"}
  BY DEF EndedRow, Ended
<1> QED  BY <1>1, <1>2 DEF RowsQuiet, RowsAdvance

LEMMA PcChange ==
  ASSUME WorkersTyped, NEW w \in Workers, Known(w), worker[w].pc # "returning",
         NEW p \in WorkerPcs, worker' = [worker EXCEPT ![w].pc = p]
  PROVE  WorkersQuiet
  BY PcUpdate DEF WorkersTyped, WorkersQuiet, Known

LEMMA IdleChange ==
  ASSUME WorkersTyped, NEW w \in Workers, NEW g \in {IdleWorker, [IdleWorker EXCEPT !.pc = "claiming"]},
         worker' = [worker EXCEPT ![w] = g]
  PROVE  WorkersQuiet
<1>1. g.pc \in {"idle", "claiming"}
  BY IdleGoroutine
<1> QED  BY <1>1 DEF WorkersTyped, WorkersQuiet, Known

\* Every step but a claim, a renewal and a tick is quiet.
LEMMA QuietWorkerSteps ==
  ASSUME QueueInv, NEW w \in Workers, WorkerStep(w), ~ClaimRun(w), ~RenewLease(w)
  PROVE  Quiet
<1>0. WorkersTyped /\ {"claiming", "claimed", "exec", "returning"} \subseteq WorkerPcs
      /\ {"unprepared", "succeeded", "failed"} \subseteq Outcomes
  BY WorkersFacts DEF QueueInv, WorkerPcs, Outcomes
<1>1. CASE StartClaim(w)
  <2>1. worker' = [worker EXCEPT ![w].pc = "claiming"] /\ run' = run /\ report' = report /\ cancel' = cancel
    BY <1>1 DEF StartClaim
  <2>2. WorkersQuiet
    BY <1>0, <2>1, PcUpdate DEF WorkersTyped, WorkersQuiet, Known
  <2> QED  BY <2>1, <2>2, SameRows, SameRequests
<1>2. CASE NothingToClaim(w) \/ LoseClaim(w) \/ Return(w)
  <2>1. worker' = [worker EXCEPT ![w] = IdleWorker] /\ run' = run /\ report' = report /\ cancel' = cancel
    BY <1>2 DEF NothingToClaim, LoseClaim, Return
  <2> QED  BY <1>0, <2>1, IdleChange, SameRows, SameRequests
<1>3. CASE SkipDoneTask(w)
  <2>1. /\ worker' = [worker EXCEPT ![w] = [IdleWorker EXCEPT !.pc = "claiming"]]
        /\ report' = report /\ cancel' = cancel /\ worker[w].job \in Runs
        /\ \E s \in Ended : run' = [run EXCEPT ![worker[w].job] = EndedRow(s, NodeOf[w])]
    BY <1>3, <1>0 DEF SkipDoneTask, WorkersTyped, Ended
  <2>2. WorkersQuiet
    BY <1>0, <2>1, IdleChange
  <2> QED  BY <2>1, <2>2, EndedQuiet, SameRequests DEF Quiet
<1>4. CASE HandOver(w) \/ LearnCancelled(w)
  <2>1. /\ \E p \in {"claimed", "returning"} : worker' = [worker EXCEPT ![w].pc = p]
        /\ run' = run /\ report' = report /\ cancel' = cancel
        /\ Known(w) /\ worker[w].pc # "returning"
    BY <1>4 DEF HandOver, LearnCancelled, Executing, Known
  <2> QED  BY <1>0, <2>1, PcChange, SameRows, SameRequests
<1>5. CASE FetchSpec(w) \/ PrepareFails(w)
  <2>1. /\ \/ \E p \in {"returning", "exec"} : worker' = [worker EXCEPT ![w].pc = p]
           \/ worker' = ToReport(w, "unprepared")
        /\ run' = run /\ report' = report /\ cancel' = cancel
        /\ Known(w) /\ worker[w].pc # "returning" /\ worker[w].job \in Runs
    BY <1>5, <1>0 DEF FetchSpec, PrepareFails, Known, WorkersTyped
  <2>2. WorkersQuiet
    <3>1. CASE worker' = ToReport(w, "unprepared")
      BY <1>0, <2>1, <3>1, Reporting DEF WorkersQuiet, Known
    <3>2. CASE \E p \in {"returning", "exec"} : worker' = [worker EXCEPT ![w].pc = p]
      BY <1>0, <2>1, <3>2, PcChange
    <3> QED  BY <2>1, <3>1, <3>2
  <2> QED  BY <2>1, <2>2, SameRows, SameRequests
<1>6. ASSUME NEW o \in {"succeeded", "failed"}, AgentStops(w, o)
      PROVE  Quiet
  <2>1. /\ worker' = ToReport(w, o) /\ worker[w].job \in Runs
        /\ run' = run /\ report' = report /\ cancel' = cancel
        /\ Known(w) /\ worker[w].pc # "returning"
    BY <1>6, <1>0 DEF AgentStops, Executing, Known, WorkersTyped
  <2>2. WorkersQuiet
    BY <1>0, <2>1, Reporting DEF WorkersQuiet, Known
  <2> QED  BY <2>1, <2>2, SameRows, SameRequests
<1>7. ASSUME NEW s \in TaskStatuses \ {"open"}, AgentUpdatesTask(w, s)
      PROVE  Quiet
  BY <1>7, SameWorkers, SameRows, SameRequests DEF AgentUpdatesTask
<1> QED  BY <1>1, <1>2, <1>3, <1>4, <1>5, <1>6, <1>7 DEF WorkerStep

LEMMA QuietReportSteps ==
  ASSUME QueueInv, NEW w \in Workers, ReportStep(w)
  PROVE  Quiet
<1>0. WorkersTyped /\ {"sent", "returning"} \subseteq WorkerPcs /\ report \in [Workers -> Reports]
  BY WorkersFacts DEF QueueInv, TypeOK, WorkerPcs
<1>a. ASSUME worker' = Answer(w)
      PROVE  WorkersQuiet
  BY <1>0, <1>a, AnswerType DEF WorkersTyped, WorkersQuiet, Known
<1>n. \A r \in cancel.listed : r \in Runs
  BY DEF QueueInv, TypeOK, Cancels
<1>1. CASE ReadRun(w)
  <2>1. /\ \E p \in {"sent", "returning"} : worker' = [worker EXCEPT ![w].pc = p]
        /\ Known(w) /\ worker[w].pc # "returning"
        /\ run' = run /\ cancel' = cancel
    BY <1>1 DEF ReadRun, Known
  <2>2. RequestsKnown
    <3>1. \A v \in Workers : v # w => report'[v] = report[v]
      BY <1>0, <1>1 DEF ReadRun
    <3>2. report'[w].stage # "none" =>
            \/ report[w].stage # "none" /\ report'[w].run = report[w].run
            \/ report'[w].run = worker[w].job
      BY <1>0, <1>1 DEF ReadRun
    <3> QED  BY <1>n, <2>1, <3>1, <3>2 DEF RequestsKnown
  <2> QED  BY <1>0, <2>1, <2>2, PcChange, SameRows
<1>2. CASE JudgeTask(w)
  <2>1. /\ \E g \in {"judged", "settled"} : report' = [report EXCEPT ![w].stage = g]
        /\ report[w].stage # "none" /\ worker' = worker /\ run' = run /\ cancel' = cancel
    BY <1>2 DEF JudgeTask
  <2>2. RequestsKnown
    BY <1>0, <1>n, <2>1, StageUpdate DEF RequestsKnown
  <2> QED  BY <2>1, <2>2, SameWorkers, SameRows
<1>3. CASE SettleTask(w)
  <2>1. /\ \A v \in Workers : v # w => report'[v] = report[v]
        /\ report'[w].run = report[w].run /\ report[w].stage # "none"
        /\ worker' = worker /\ run' = run /\ cancel' = cancel
    BY <1>0, <1>3 DEF SettleTask
  <2>2. RequestsKnown
    BY <1>n, <2>1 DEF RequestsKnown
  <2> QED  BY <2>1, <2>2, SameWorkers, SameRows
<1>4. CASE WriteRun(w)
  <2>1. report[w].run \in Runs /\ report[w].status \in Ended
    BY <1>4 DEF WriteRun, QueueInv, TypeOK, Reports, Ended
  <2>2. RowsQuiet /\ RowsAdvance
    BY <1>4, <2>1, EndedQuiet DEF WriteRun
  <2>3. RequestsKnown
    BY <1>4, <1>0, <1>n, NoReportType DEF WriteRun, RequestsKnown
  <2> QED  BY <1>4, <1>a, <2>2, <2>3 DEF WriteRun, Quiet
<1>5. CASE LoseReport(w)
  BY <1>5, <1>0, PcChange, SameRows, SameRequests DEF LoseReport, Known
<1>6. CASE ReportTimesOut(w)
  BY <1>6, <1>a, SameRows, SameRequests DEF ReportTimesOut
<1>7. CASE ReportFails(w)
  <2>1. RequestsKnown
    BY <1>7, <1>0, <1>n, NoReportType DEF ReportFails, RequestsKnown
  <2> QED  BY <1>7, <1>a, <2>1, SameRows DEF ReportFails
<1> QED  BY <1>1, <1>2, <1>3, <1>4, <1>5, <1>6, <1>7 DEF ReportStep

LEMMA QuietCancelSteps ==
  ASSUME QueueInv, CancelStep
  PROVE  Quiet
<1>0. cancel \in Cancels /\ cancel.listed \subseteq Runs
  BY DEF QueueInv, TypeOK, Cancels
<1>1. ASSUME worker' = worker, run' = run, report' = report, cancel'.listed \subseteq cancel.listed
      PROVE  Quiet
  BY <1>0, <1>1, SameWorkers, SameRows DEF RequestsKnown
<1>2. ASSUME NEW t \in Tasks, ReadTaskToCancel(t) \/ CancelTask(t)
      PROVE  Quiet
  <2>1. cancel'.listed = cancel.listed
    BY <1>0, <1>2 DEF ReadTaskToCancel, CancelTask, Cancels
  <2> QED  BY <1>1, <1>2, <2>1 DEF ReadTaskToCancel, CancelTask
<1>3. ASSUME NEW a \in Agents, AbortAgent(a)
      PROVE  Quiet
  <2>1. cancel'.listed = cancel.listed
    BY <1>0, <1>3 DEF AbortAgent, Cancels
  <2> QED  BY <1>1, <1>3, <2>1 DEF AbortAgent
<1>4. CASE ListRuns
  <2>1. \A r \in cancel'.listed : r \in Runs /\ run[r].status # "absent"
    BY <1>0, <1>4 DEF ListRuns, Cancels
  <2>2. RequestsKnown
    BY <1>4, <2>1 DEF ListRuns, RequestsKnown
  <2> QED  BY <1>4, <2>2, SameWorkers, SameRows DEF ListRuns
<1>5. CASE AllWritten
  <2>1. cancel'.listed = cancel.listed
    BY <1>0, <1>5 DEF AllWritten, Cancels
  <2> QED  BY <1>1, <1>5, <2>1 DEF AllWritten
<1>6. CASE AnswerCancel \/ CancelFails
  BY <1>1, <1>6, NoCancelType DEF AnswerCancel, CancelFails
<1>7. ASSUME NEW r \in Runs, WriteCancelled(r)
      PROVE  Quiet
  <2>1. cancel'.listed \subseteq cancel.listed
    BY <1>0, <1>7 DEF WriteCancelled, Cancels
  <2>2. RequestsKnown
    BY <1>0, <1>7, <2>1 DEF WriteCancelled, RequestsKnown
  <2>3. RowsQuiet /\ RowsAdvance
    <3>1. "cancelled" \in Ended /\ run' = [run EXCEPT ![r] = EndedRow("cancelled", cancel.node[r])]
      BY <1>7 DEF WriteCancelled, Ended
    <3> QED  BY <3>1, EndedQuiet
  <2> QED  BY <1>7, <2>2, <2>3, SameWorkers DEF WriteCancelled, Quiet
<1> QED  BY <1>2, <1>3, <1>4, <1>5, <1>6, <1>7 DEF CancelStep

LEMMA QuietOtherSteps ==
  ASSUME QueueInv
  PROVE  /\ \A r \in Runs : Enqueue(r) => Quiet
         /\ \A n \in Nodes : Disable(n) \/ Enable(n) \/ NodeCrash(n) => Quiet
         /\ \A t \in Tasks : ReopenTask(t) => Quiet
         /\ UNCHANGED vars => Quiet
<1>1. ASSUME NEW r \in Runs, Enqueue(r)
      PROVE  Quiet
  <2>1. run[r] \in Rows
    BY DEF QueueInv, TypeOK
  <2>2. /\ \A q \in Runs : q # r => run'[q] = run[q]
        /\ run[r].status = "absent" /\ run'[r].status = "queued"
    BY <1>1, <2>1 DEF Enqueue, QueueInv, TypeOK, Rows
  <2>3. RowsQuiet /\ RowsAdvance
    BY <2>2 DEF RowsQuiet, RowsAdvance
  <2> QED  BY <1>1, <2>3, SameWorkers, SameRequests DEF Enqueue, Quiet
<1>2. ASSUME NEW n \in Nodes, Disable(n) \/ Enable(n) \/ NodeCrash(n)
      PROVE  Quiet
  <2>1. run' = run /\ report' = report /\ cancel' = cancel
    BY <1>2 DEF Disable, Enable, NodeCrash
  <2>2. WorkersQuiet
    BY <1>2, IdleGoroutine DEF Disable, Enable, NodeCrash, WorkersQuiet, Known
  <2> QED  BY <2>1, <2>2, SameRows, SameRequests
<1>3. ASSUME NEW t \in Tasks, ReopenTask(t)
      PROVE  Quiet
  BY <1>3, SameWorkers, SameRows, SameRequests DEF ReopenTask
<1>4. ASSUME UNCHANGED vars
      PROVE  Quiet
  BY <1>4, SameWorkers, SameRows, SameRequests DEF vars
<1> QED  BY <1>1, <1>2, <1>3, <1>4

-----------------------------------------------------------------------------
\* A claim: nobody else can hold a live grant of a run that is queued or whose
\* lease has expired.
LEMMA ClaimKeepsInv ==
  ASSUME QueueInv, TypeOK', NEW w \in Workers, ClaimRun(w)
  PROVE  QueueInv'
<1> DEFINE g(r) == [pc |-> "checking", job |-> r, hold |-> LeaseTicks, outcome |-> "none"]
           row == [status |-> "running", node |-> NodeOf[w], lease |-> LeaseTicks]
<1>1. PICK r \in Claimable(NodeOf[w]) :
        run' = [run EXCEPT ![r] = row] /\ worker' = [worker EXCEPT ![w] = g(r)]
  BY DEF ClaimRun, NextClaim
<1>2. /\ r \in Runs /\ DesiredNode[r] \in {NoNode, NodeOf[w]} /\ NodeOf[w] \in Nodes
      /\ run[r].status = "queued" \/ (run[r].status = "running" /\ run[r].lease = Expired)
  <2>1. r \in Runs /\ DesiredNode[r] \in {NoNode, NodeOf[w]}
    BY <1>1 DEF Claimable
  <2>2. run[r].status = "queued" \/ (run[r].status = "running" /\ run[r].lease = Expired)
    BY <1>1 DEF Claimable
  <2>3. NodeOf[w] \in Nodes
    BY NodesAssumption
  <2> QED  BY <2>1, <2>2, <2>3
<1>3. /\ \A q \in Runs : run'[q] = IF q = r THEN row ELSE run[q]
      /\ \A v \in Workers : worker'[v] = IF v = w THEN g(r) ELSE worker[v]
  BY <1>1, <1>2 DEF QueueInv, TypeOK
<1>4. \A v \in Workers : v # w => (Working(v)' <=> Working(v))
  BY <1>3 DEF Working
<1>5. \A v \in Workers : Known(v) =>
        worker[v].job \in Runs /\ run[worker[v].job].status \notin {"absent", "queued"}
  BY DEF QueueInv, TypeOK, RowsKnown, Known
<1>6. ASSUME NEW v \in Workers, Working(v), worker[v].job = r
      PROVE  worker[v].hold = Expired
  <2>1. run[r].status = "running" /\ run[r].lease = Expired
    BY <1>2, <1>5, <1>6, WorkingKnown DEF QueueInv
  <2>2. worker[v].hold \in Leases
    BY DEF QueueInv, TypeOK, Goroutines
  <2> QED  BY <1>6, <2>1, <2>2 DEF QueueInv, GrantBacked, Leases, Expired
<1>7. RowsKnown'
  <2>1. \A v \in Workers : report[v].stage # "none" => report[v].run \in Runs
    BY DEF QueueInv, TypeOK
  <2>2. cancel.listed \subseteq Runs
    BY DEF QueueInv, TypeOK, Cancels
  <2>3. report' = report /\ cancel' = cancel
    BY DEF ClaimRun
  <2>4. \A q \in Runs : run[q].status \notin {"absent", "queued"} => run'[q].status \notin {"absent", "queued"}
    BY <1>3
  <2>5. \A q \in Runs : run[q].status # "absent" => run'[q].status # "absent"
    BY <1>3
  <2>6. \A v \in Workers : Known(v)' => run'[worker'[v].job].status \notin {"absent", "queued"}
    <3>1. run'[r].status = "running"
      BY <1>2, <1>3
    <3> QED  BY <1>3, <1>5, <2>4, <3>1 DEF Known
  <2>7. \A v \in Workers : report'[v].stage # "none" => run'[report'[v].run].status \notin {"absent", "queued"}
    BY <2>1, <2>3, <2>4 DEF QueueInv, RowsKnown
  <2>8. \A q \in cancel'.listed : run'[q].status # "absent"
    BY <2>2, <2>3, <2>5 DEF QueueInv, RowsKnown
  <2> QED  BY <2>6, <2>7, <2>8 DEF RowsKnown, Known
<1>8. RunningEligible'
  BY <1>2, <1>3 DEF QueueInv, RunningEligible
<1>9. GrantBacked'
  <2> SUFFICES ASSUME NEW v \in Workers, Working(v)', worker'[v].hold # Expired,
                      run'[worker'[v].job].status = "running"
               PROVE  OwnsJob(v)' /\ worker'[v].hold <= run'[worker'[v].job].lease
    BY DEF GrantBacked
  <2>1. CASE v = w
    BY <1>2, <1>3, <2>1 DEF OwnsJob
  <2>2. CASE v # w
    <3>1. Working(v) /\ worker'[v] = worker[v] /\ worker[v].job \in Runs /\ worker[v].job # r
      BY <1>3, <1>4, <1>5, <1>6, <2>2, WorkingKnown DEF QueueInv
    <3>2. run'[worker[v].job] = run[worker[v].job]
      BY <1>3, <3>1
    <3> QED  BY <3>1, <3>2 DEF QueueInv, GrantBacked, OwnsJob
  <2> QED  BY <2>1, <2>2
<1>10. LeaseExclusive'
  <2> SUFFICES ASSUME NEW u \in Workers, NEW v \in Workers, Working(u)', Working(v)',
                      worker'[u].job = worker'[v].job,
                      worker'[u].hold # Expired, worker'[v].hold # Expired
               PROVE  NodeOf[u] = NodeOf[v]
    BY DEF LeaseExclusive
  <2>1. CASE u # w /\ v # w
    BY <1>3, <1>4, <2>1 DEF QueueInv, LeaseExclusive
  <2>2. CASE u = w /\ v # w
    BY <1>3, <1>4, <1>6, <2>2
  <2>3. CASE u # w /\ v = w
    BY <1>3, <1>4, <1>6, <2>3
  <2> QED  BY <2>1, <2>2, <2>3
<1> QED  BY <1>7, <1>8, <1>9, <1>10 DEF QueueInv

\* A renewal: the row's node is the worker's own, so a live grant of another
\* node would have to be backed by the same row.
LEMMA RenewalKeepsInv ==
  ASSUME QueueInv, TypeOK', NEW w \in Workers, RenewLease(w)
  PROVE  QueueInv'
<1> DEFINE r == worker[w].job
<1>1. /\ Working(w) /\ r \in Runs /\ run[r].node = NodeOf[w] /\ run[r].status = "running"
  BY DEF RenewLease, Renewing, Working, OwnsJob, QueueInv, TypeOK
<1>2. LeaseTicks \in Leases /\ LeaseTicks # Expired /\ LeaseTicks \in Int
  BY DEF Leases, Expired
<1>3. \A q \in Runs : /\ run'[q].status = run[q].status /\ run'[q].node = run[q].node
                      /\ run'[q].lease = IF q = r THEN LeaseTicks ELSE run[q].lease
  BY <1>1, <1>2, LeaseUpdate DEF RenewLease, QueueInv, TypeOK
<1>4. \A v \in Workers : /\ worker'[v].job = worker[v].job /\ worker'[v].pc = worker[v].pc
                         /\ worker'[v].hold = IF v = w THEN LeaseTicks ELSE worker[v].hold
  BY <1>2, HoldUpdate DEF RenewLease, QueueInv, TypeOK
<1>5. \A v \in Workers : Working(v)' <=> Working(v)
  BY <1>4 DEF Working
<1>6. \A v \in Workers : Known(v) => worker[v].job \in Runs
  BY DEF QueueInv, TypeOK, Known
<1>7. \A v \in Workers : Working(v) => worker[v].job \in Runs
  BY <1>6, WorkingKnown DEF QueueInv
<1>8. RowsKnown'
  <2>1. \A v \in Workers : report[v].stage # "none" => report[v].run \in Runs
    BY DEF QueueInv, TypeOK
  <2>2. cancel.listed \subseteq Runs
    BY DEF QueueInv, TypeOK, Cancels
  <2>3. report' = report /\ cancel' = cancel
    BY DEF RenewLease
  <2>4. \A v \in Workers : Known(v)' => run'[worker'[v].job].status \notin {"absent", "queued"}
    BY <1>3, <1>4, <1>6 DEF Known, QueueInv, RowsKnown
  <2>5. \A v \in Workers : report'[v].stage # "none" => run'[report'[v].run].status \notin {"absent", "queued"}
    BY <1>3, <2>1, <2>3 DEF QueueInv, RowsKnown
  <2>6. \A q \in cancel'.listed : run'[q].status # "absent"
    BY <1>3, <2>2, <2>3 DEF QueueInv, RowsKnown
  <2> QED  BY <2>4, <2>5, <2>6 DEF RowsKnown, Known
<1>9. RunningEligible'
  BY <1>3 DEF QueueInv, RunningEligible
<1>10. GrantBacked'
  <2> SUFFICES ASSUME NEW v \in Workers, Working(v)', worker'[v].hold # Expired,
                      run'[worker'[v].job].status = "running"
               PROVE  OwnsJob(v)' /\ worker'[v].hold <= run'[worker'[v].job].lease
    BY DEF GrantBacked
  <2>1. CASE v = w
    BY <1>1, <1>2, <1>3, <1>4, <2>1 DEF OwnsJob
  <2>2. CASE v # w
    <3>1. /\ Working(v) /\ worker[v].job \in Runs /\ worker[v].hold # Expired
          /\ run[worker[v].job].status = "running"
      BY <1>3, <1>4, <1>5, <1>7, <2>2
    <3>2. OwnsJob(v) /\ worker[v].hold <= run[worker[v].job].lease
      BY <3>1 DEF QueueInv, GrantBacked
    <3>3. worker[v].hold \in Leases
      BY DEF QueueInv, TypeOK, Goroutines
    <3> QED  BY <1>2, <1>3, <1>4, <2>2, <3>1, <3>2, <3>3 DEF OwnsJob, Leases, Expired
  <2> QED  BY <2>1, <2>2
<1>11. LeaseExclusive'
  <2>1. ASSUME NEW v \in Workers, Working(v), worker[v].job = r, worker[v].hold # Expired
        PROVE  NodeOf[v] = NodeOf[w]
    BY <1>1, <2>1 DEF QueueInv, GrantBacked, OwnsJob
  <2> QED  BY <1>4, <1>5, <2>1 DEF QueueInv, LeaseExclusive
<1> QED  BY <1>8, <1>9, <1>10, <1>11 DEF QueueInv

\* The clock: rows and grants lose the same tick.
LEMMA TimeKeepsInv ==
  ASSUME QueueInv, TypeOK', TimePasses, report' = report, cancel' = cancel
  PROVE  QueueInv'
<1>1. /\ \A q \in Runs : /\ run'[q].status = run[q].status /\ run'[q].node = run[q].node
                         /\ run'[q].lease = RunDown(run[q].lease)
      /\ \A v \in Workers : /\ worker'[v].job = worker[v].job /\ worker'[v].pc = worker[v].pc
                            /\ worker'[v].hold = RunDown(worker[v].hold)
  BY TimeUpdate DEF QueueInv
<1>2. \A v \in Workers : Working(v)' <=> Working(v)
  BY <1>1 DEF Working
<1>3. \A v \in Workers : Known(v) => worker[v].job \in Runs
  BY DEF QueueInv, TypeOK, Known
<1>4. \A v \in Workers : Working(v) => worker[v].job \in Runs
  BY <1>3, WorkingKnown DEF QueueInv
<1>5. RowsKnown'
  <2>1. \A v \in Workers : report[v].stage # "none" => report[v].run \in Runs
    BY DEF QueueInv, TypeOK
  <2>2. cancel.listed \subseteq Runs
    BY DEF QueueInv, TypeOK, Cancels
  <2>4. \A v \in Workers : Known(v)' => run'[worker'[v].job].status \notin {"absent", "queued"}
    BY <1>1, <1>3 DEF Known, QueueInv, RowsKnown
  <2>5. \A v \in Workers : report'[v].stage # "none" => run'[report'[v].run].status \notin {"absent", "queued"}
    BY <1>1, <2>1 DEF QueueInv, RowsKnown
  <2>6. \A q \in cancel'.listed : run'[q].status # "absent"
    BY <1>1, <2>2 DEF QueueInv, RowsKnown
  <2> QED  BY <2>4, <2>5, <2>6 DEF RowsKnown, Known
<1>6. RunningEligible'
  BY <1>1 DEF QueueInv, RunningEligible
<1>7. GrantBacked'
  <2> SUFFICES ASSUME NEW v \in Workers, Working(v)', worker'[v].hold # Expired,
                      run'[worker'[v].job].status = "running"
               PROVE  OwnsJob(v)' /\ worker'[v].hold <= run'[worker'[v].job].lease
    BY DEF GrantBacked
  <2>1. worker[v].hold \in Leases /\ worker'[v].hold = RunDown(worker[v].hold)
    BY <1>1 DEF QueueInv, TypeOK, Goroutines
  <2>2. worker[v].job \in Runs /\ Working(v)
    BY <1>2, <1>4
  <2>3. run[worker[v].job].lease \in Leases
    BY <2>2 DEF QueueInv, TypeOK, Rows
  <2>4. OwnsJob(v) /\ worker[v].hold <= run[worker[v].job].lease
    BY <1>1, <2>1, <2>2 DEF QueueInv, GrantBacked, RunDown
  <2>5. RunDown(worker[v].hold) <= RunDown(run[worker[v].job].lease)
    BY <2>1, <2>3, <2>4 DEF RunDown, Leases, Expired
  <2> QED  BY <1>1, <2>2, <2>4, <2>5 DEF OwnsJob
<1>8. LeaseExclusive'
  BY <1>1, <1>2 DEF QueueInv, LeaseExclusive, RunDown
<1> QED  BY <1>5, <1>6, <1>7, <1>8 DEF QueueInv

LEMMA InitInv == Init => QueueInv
<1> SUFFICES ASSUME Init PROVE QueueInv
  OBVIOUS
<1>1. TypeOK
  BY InitType
<1>2. \A w \in Workers : ~Working(w) /\ ~Known(w) /\ report[w].stage = "none"
  BY DEF Init, Working, Known, IdleWorker, NoReport
<1>3. \A r \in Runs : run[r].status = "absent"
  BY DEF Init, EndedRow
<1>4. cancel.listed = {}
  BY DEF Init, NoCancel
<1> QED  BY <1>1, <1>2, <1>3, <1>4
         DEF QueueInv, RowsKnown, RunningEligible, GrantBacked, LeaseExclusive, Known

LEMMA NextInv ==
  ASSUME QueueInv, [Next]_vars
  PROVE  QueueInv'
<1>1. TypeOK'
  BY NextType DEF QueueInv
<1>2. ASSUME NEW w \in Workers, WorkerStep(w)
      PROVE  QueueInv'
  <2>1. CASE ClaimRun(w)
    BY <1>1, <2>1, ClaimKeepsInv
  <2>2. CASE RenewLease(w)
    BY <1>1, <2>2, RenewalKeepsInv
  <2>3. CASE ~ClaimRun(w) /\ ~RenewLease(w)
    BY <1>1, <1>2, <2>3, QuietWorkerSteps, QuietKeepsInv
  <2> QED  BY <2>1, <2>2, <2>3
<1>3. ASSUME NEW w \in Workers, ReportStep(w)
      PROVE  QueueInv'
  BY <1>1, <1>3, QuietReportSteps, QuietKeepsInv
<1>4. CASE CancelStep
  BY <1>1, <1>4, QuietCancelSteps, QuietKeepsInv
<1>5. CASE Tick \/ Stall
  BY <1>1, <1>5, TimeKeepsInv DEF Tick, Stall
<1>6. CASE \/ UNCHANGED vars
           \/ \E r \in Runs : Enqueue(r)
           \/ \E n \in Nodes : Disable(n) \/ Enable(n) \/ NodeCrash(n)
           \/ \E t \in Tasks : ReopenTask(t)
  BY <1>1, <1>6, QuietOtherSteps, QuietKeepsInv
<1> QED  BY <1>2, <1>3, <1>4, <1>5, <1>6 DEF Next

\* The inductive invariant holds in every reachable state.
THEOREM QueueInvariant == Spec => []QueueInv
<1>1. Init => QueueInv
  BY InitInv
<1>2. QueueInv /\ [Next]_vars => QueueInv'
  BY NextInv
<1> QED  BY <1>1, <1>2, PTL DEF Spec

\* Workers of two nodes never both hold a live grant of one run.
THEOREM LeaseExclusivity == Spec => []LeaseExclusive
<1>1. QueueInv => LeaseExclusive
  BY DEF QueueInv
<1> QED  BY <1>1, QueueInvariant, PTL

-----------------------------------------------------------------------------
(***************************************************************************)
(* busyAgents.  coord.mu admits one claim of a node at a time, and the     *)
(* agent of every run past its claim is in the list until the run returns: *)
(* with no fork session of the agent to delete the key early, a claim      *)
(* cannot pick the agent again.                                            *)
(***************************************************************************)
ForkFree == {a \in Agents : \A r \in Forks : AgentOf[r] # a}

Claims(w) == worker[w].pc \in {"claiming", "checking"}
Marked(w) == Known(w) /\ worker[w].pc # "checking"
Agent(w)  == AgentOf[worker[w].job]

ClaimsSerial ==
  \A v, w \in Workers : v # w /\ NodeOf[v] = NodeOf[w] => ~(Claims(v) /\ Claims(w))

AgentsMarked ==
  \A w \in Workers : Marked(w) /\ Agent(w) \in ForkFree => Agent(w) \in busy[NodeOf[w]]

AgentsApart ==
  \A v, w \in Workers :
    v # w /\ NodeOf[v] = NodeOf[w] /\ Known(v) /\ Known(w) /\ Agent(v) \in ForkFree
    => Agent(v) # Agent(w)

BusyInv == ClaimsSerial /\ AgentsMarked /\ AgentsApart

\* a worker that neither takes up a claim nor a run, and is not marked afresh
Stays(v) ==
  /\ Claims(v)' => Claims(v)
  /\ Marked(v)' => Marked(v)
  /\ Known(v)' => Known(v) /\ worker'[v].job = worker[v].job

LEMMA StayingKeepsBusy ==
  ASSUME BusyInv, \A v \in Workers : Stays(v),
         \A v \in Workers : Marked(v)' /\ Agent(v) \in ForkFree /\ Agent(v) \in busy[NodeOf[v]]
                              => Agent(v) \in busy'[NodeOf[v]]
  PROVE  BusyInv'
<1>0. \A v \in Workers : Marked(v)' => Known(v)'
  BY DEF Marked, Known
<1>1. ClaimsSerial'
  BY DEF BusyInv, ClaimsSerial, Stays
<1>2. AgentsMarked'
  BY <1>0 DEF BusyInv, AgentsMarked, Stays, Agent
<1>3. AgentsApart'
  BY DEF BusyInv, AgentsApart, Stays, Agent
<1> QED  BY <1>1, <1>2, <1>3 DEF BusyInv

LEMMA SamePcs ==
  ASSUME BusyInv, busy' = busy,
         \A v \in Workers : worker'[v].pc = worker[v].pc /\ worker'[v].job = worker[v].job
  PROVE  BusyInv'
  BY StayingKeepsBusy DEF Stays, Claims, Marked, Known

\* one worker goes idle, or from one place of its run to another
LEMMA MovesOn ==
  ASSUME BusyInv, busy' = busy, NEW w \in Workers,
         \A v \in Workers : v # w => worker'[v] = worker[v],
         \/ worker'[w].pc = "idle"
         \/ worker'[w].job = worker[w].job /\ Marked(w) /\ Marked(w)'
         \/ worker'[w].pc = worker[w].pc /\ worker'[w].job = worker[w].job
  PROVE  BusyInv'
<1>1. \A v \in Workers : v # w => Stays(v)
  BY DEF Stays, Claims, Marked, Known
<1>2. Stays(w)
  BY DEF Stays, Claims, Marked, Known
<1> QED  BY <1>1, <1>2, StayingKeepsBusy

\* The claim: the agents of the node's other runs are all marked, because no
\* other worker of the node is between its claim and its answer.
LEMMA ClaimKeepsBusy ==
  ASSUME TypeOK, BusyInv, NEW w \in Workers, ClaimRun(w)
  PROVE  BusyInv'
<1>1. PICK r \in Claimable(NodeOf[w]) :
        worker' = [worker EXCEPT ![w] =
          [pc |-> "checking", job |-> r, hold |-> LeaseTicks, outcome |-> "none"]]
  BY DEF ClaimRun, NextClaim
<1>2. /\ worker'[w].pc = "checking" /\ worker'[w].job = r /\ Claims(w)
      /\ \A v \in Workers : v # w => worker'[v] = worker[v]
      /\ busy' = busy /\ worker[w].pc = "claiming"
  BY <1>1 DEF TypeOK, ClaimRun, Claims
<1>3. r \in Runs /\ (AgentOf[r] \in ForkFree => AgentOf[r] \notin busy[NodeOf[w]])
  <2>1. r \in Runs /\ (r \in Forks \/ AgentOf[r] \notin busy[NodeOf[w]])
    BY <1>1 DEF Claimable
  <2> QED  BY <2>1 DEF ForkFree
<1>4. ASSUME NEW v \in Workers, v # w, NodeOf[v] = NodeOf[w], Known(v)
      PROVE  Marked(v)
  BY <1>2, <1>4 DEF BusyInv, ClaimsSerial, Claims, Marked, Known
<1>5. ClaimsSerial'
  BY <1>2 DEF BusyInv, ClaimsSerial, Claims
<1>6. AgentsMarked'
  BY <1>2 DEF BusyInv, AgentsMarked, Marked, Known, Agent
<1>7. ASSUME NEW v \in Workers, v # w, NodeOf[v] = NodeOf[w], Known(v), Agent(v) \in ForkFree
      PROVE  Agent(v) # AgentOf[r]
  BY <1>3, <1>4, <1>7 DEF BusyInv, AgentsMarked
<1>8. AgentsApart'
  <2> SUFFICES ASSUME NEW u \in Workers, NEW v \in Workers, u # v, NodeOf[u] = NodeOf[v],
                      Known(u)', Known(v)', Agent(u)' \in ForkFree
               PROVE  Agent(u)' # Agent(v)'
    BY DEF AgentsApart, ForkFree
  <2>1. CASE u # w /\ v # w
    BY <1>2, <2>1 DEF BusyInv, AgentsApart, Known, Agent
  <2>2. CASE u = w
    <3>1. v # w /\ Known(v) /\ Agent(v)' = Agent(v) /\ Agent(u)' = AgentOf[r]
      BY <1>2, <2>2 DEF Known, Agent
    <3> QED  BY <1>7, <2>2, <3>1
  <2>3. CASE v = w
    <3>1. u # w /\ Known(u) /\ Agent(u)' = Agent(u) /\ Agent(v)' = AgentOf[r]
      BY <1>2, <2>3 DEF Known, Agent
    <3> QED  BY <1>7, <2>3, <3>1
  <2> QED  BY <2>1, <2>2, <2>3
<1> QED  BY <1>5, <1>6, <1>8 DEF BusyInv

LEMMA StartKeepsBusy ==
  ASSUME TypeOK, BusyInv, NEW w \in Workers, StartClaim(w)
  PROVE  BusyInv'
<1>1. /\ worker'[w].pc = "claiming" /\ busy' = busy
      /\ \A v \in Workers : v # w => worker'[v] = worker[v]
  <2>1. "claiming" \in WorkerPcs
    BY DEF WorkerPcs
  <2> QED  BY <2>1, PcUpdate DEF TypeOK, StartClaim
<1>2. \A v \in Workers : NodeOf[v] = NodeOf[w] => ~Claims(v)
  BY DEF StartClaim, Locked, Claims
<1>3. ClaimsSerial'
  BY <1>1, <1>2 DEF BusyInv, ClaimsSerial, Claims
<1>4. AgentsMarked'
  BY <1>1 DEF BusyInv, AgentsMarked, Marked, Known, Agent
<1>5. AgentsApart'
  BY <1>1 DEF BusyInv, AgentsApart, Known, Agent
<1> QED  BY <1>3, <1>4, <1>5 DEF BusyInv

LEMMA HandOverKeepsBusy ==
  ASSUME TypeOK, BusyInv, NEW w \in Workers, HandOver(w)
  PROVE  BusyInv'
<1>1. /\ worker'[w].pc = "claimed" /\ worker'[w].job = worker[w].job
      /\ \A v \in Workers : v # w => worker'[v] = worker[v]
      /\ Known(w)
  <2>1. "claimed" \in WorkerPcs
    BY DEF WorkerPcs
  <2> QED  BY <2>1, PcUpdate DEF TypeOK, HandOver, Known
<1>2. /\ Agent(w) \in busy'[NodeOf[w]]
      /\ \A n \in Nodes : busy[n] \subseteq busy'[n]
  BY DEF TypeOK, HandOver, Agent
<1>3. \A v \in Workers : NodeOf[v] \in Nodes
  OBVIOUS
<1>4. ClaimsSerial'
  BY <1>1 DEF BusyInv, ClaimsSerial, Claims
<1>5. AgentsMarked'
  BY <1>1, <1>2, <1>3 DEF BusyInv, AgentsMarked, Marked, Known, Agent
<1>6. AgentsApart'
  BY <1>1 DEF BusyInv, AgentsApart, Known, Agent
<1> QED  BY <1>4, <1>5, <1>6 DEF BusyInv

\* The return deletes the agent's key, which no other run of the node has.
LEMMA ReturnKeepsBusy ==
  ASSUME TypeOK, BusyInv, NEW w \in Workers, Return(w)
  PROVE  BusyInv'
<1>1. /\ ~Known(w)' /\ ~Claims(w)' /\ Known(w)
      /\ \A v \in Workers : v # w => worker'[v] = worker[v]
  BY IdleGoroutine DEF TypeOK, Return, Known, Claims
<1>2. \A n \in Nodes : busy'[n] = IF n = NodeOf[w] THEN busy[n] \ {Agent(w)} ELSE busy[n]
  BY DEF TypeOK, Return, Agent
<1>3. \A v \in Workers : Stays(v)
  <2>1. \A v \in Workers : v # w => Stays(v)
    BY <1>1 DEF Stays, Claims, Marked, Known
  <2>2. Stays(w)
    BY <1>1 DEF Stays, Marked, Known
  <2> QED  BY <2>1, <2>2
<1>4. ASSUME NEW v \in Workers, Marked(v)', Agent(v) \in ForkFree, Agent(v) \in busy[NodeOf[v]]
      PROVE  Agent(v) \in busy'[NodeOf[v]]
  <2>1. v # w /\ Known(v)
    BY <1>1, <1>3, <1>4 DEF Stays, Marked, Known
  <2>2. NodeOf[v] = NodeOf[w] => Agent(v) # Agent(w)
    BY <1>1, <1>4, <2>1 DEF BusyInv, AgentsApart
  <2>3. NodeOf[v] \in Nodes
    OBVIOUS
  <2> QED  BY <1>2, <1>4, <2>2, <2>3
<1> QED  BY <1>3, <1>4, StayingKeepsBusy

LEMMA CrashKeepsBusy ==
  ASSUME TypeOK, BusyInv, NEW n \in Nodes, NodeCrash(n)
  PROVE  BusyInv'
<1>1. \A v \in Workers : IF NodeOf[v] = n THEN worker'[v].pc = "idle" ELSE worker'[v] = worker[v]
  BY IdleGoroutine DEF NodeCrash
<1>2. \A m \in Nodes : m # n => busy'[m] = busy[m]
  BY DEF NodeCrash, TypeOK
<1>3. \A v \in Workers : Stays(v)
  BY <1>1 DEF Stays, Claims, Marked, Known
<1>4. \A v \in Workers : Marked(v)' => NodeOf[v] # n
  BY <1>1 DEF Marked, Known
<1> QED  BY <1>2, <1>3, <1>4, StayingKeepsBusy

LEMMA WorkersKeepBusy ==
  ASSUME TypeOK, BusyInv, NEW w \in Workers, WorkerStep(w)
  PROVE  BusyInv'
<1>0. WorkersTyped /\ {"claiming", "exec", "returning"} \subseteq WorkerPcs
      /\ {"unprepared", "succeeded", "failed"} \subseteq Outcomes
  BY WorkersFacts DEF WorkerPcs, Outcomes
<1>1. CASE NothingToClaim(w) \/ LoseClaim(w)
  <2>1. /\ worker'[w].pc = "idle" /\ \A v \in Workers : v # w => worker'[v] = worker[v]
        /\ busy' = busy
    BY <1>1, IdleGoroutine DEF TypeOK, NothingToClaim, LoseClaim
  <2> QED  BY <2>1, MovesOn
<1>2. CASE SkipDoneTask(w)
  <2>1. /\ worker'[w].pc = "claiming" /\ worker[w].pc = "checking" /\ busy' = busy
        /\ \A v \in Workers : v # w => worker'[v] = worker[v]
    BY <1>2, IdleGoroutine DEF TypeOK, SkipDoneTask
  <2>2. \A v \in Workers : Stays(v)
    <3>1. \A v \in Workers : v # w => Stays(v)
      BY <2>1 DEF Stays, Claims, Marked, Known
    <3>2. Stays(w)
      BY <2>1 DEF Stays, Claims, Marked, Known
    <3> QED  BY <3>1, <3>2
  <2> QED  BY <2>1, <2>2, StayingKeepsBusy
<1>3. ASSUME NEW p \in {"exec", "returning"}, worker' = [worker EXCEPT ![w].pc = p],
             Marked(w), busy' = busy
      PROVE  BusyInv'
  <2>1. /\ \A v \in Workers : v # w => worker'[v] = worker[v]
        /\ worker'[w].job = worker[w].job /\ worker'[w].pc = p
    BY <1>0, <1>3, PcUpdate DEF WorkersTyped
  <2>2. Marked(w)'
    BY <2>1 DEF Marked, Known
  <2> QED  BY <1>3, <2>1, <2>2, MovesOn
<1>4. ASSUME NEW o \in Outcomes, worker' = ToReport(w, o), Marked(w), busy' = busy
      PROVE  BusyInv'
  <2>1. /\ \A v \in Workers : v # w => worker'[v] = worker[v]
        /\ worker'[w].job = worker[w].job /\ worker'[w].pc = "reporting"
    BY <1>4 DEF ToReport, TypeOK
  <2>2. Marked(w)'
    BY <2>1 DEF Marked, Known
  <2> QED  BY <1>4, <2>1, <2>2, MovesOn
<1>5. CASE FetchSpec(w) \/ PrepareFails(w)
  <2>1. /\ \/ \E p \in {"exec", "returning"} : worker' = [worker EXCEPT ![w].pc = p]
           \/ worker' = ToReport(w, "unprepared")
        /\ Marked(w) /\ busy' = busy
    BY <1>5 DEF FetchSpec, PrepareFails, Marked, Known
  <2> QED  BY <1>0, <1>3, <1>4, <2>1
<1>6. CASE LearnCancelled(w)
  <2>1. Marked(w) /\ busy' = busy /\ worker' = [worker EXCEPT ![w].pc = "returning"]
    BY <1>6 DEF LearnCancelled, Executing, Marked, Known
  <2> QED  BY <1>3, <2>1
<1>7. ASSUME NEW o \in {"succeeded", "failed"}, AgentStops(w, o)
      PROVE  BusyInv'
  <2>1. Marked(w) /\ busy' = busy /\ worker' = ToReport(w, o)
    BY <1>7 DEF AgentStops, Executing, Marked, Known
  <2> QED  BY <1>0, <1>4, <2>1
<1>8. ASSUME NEW s \in TaskStatuses \ {"open"}, AgentUpdatesTask(w, s)
      PROVE  BusyInv'
  BY <1>8, SamePcs DEF AgentUpdatesTask
<1>9. CASE RenewLease(w)
  <2>1. LeaseTicks \in Leases /\ busy' = busy
    BY <1>9 DEF RenewLease, Leases, Expired
  <2>2. \A v \in Workers : worker'[v].pc = worker[v].pc /\ worker'[v].job = worker[v].job
    BY <1>9, <2>1, HoldUpdate DEF RenewLease, TypeOK
  <2> QED  BY <2>1, <2>2, SamePcs
<1> QED  BY <1>1, <1>2, <1>5, <1>6, <1>7, <1>8, <1>9, StartKeepsBusy, ClaimKeepsBusy,
            HandOverKeepsBusy, ReturnKeepsBusy DEF WorkerStep

LEMMA ReportsKeepBusy ==
  ASSUME TypeOK, BusyInv, NEW w \in Workers, ReportStep(w)
  PROVE  BusyInv'
<1>0. WorkersTyped /\ {"sent", "returning"} \subseteq WorkerPcs
  BY WorkersFacts DEF WorkerPcs
<1>1. ASSUME NEW p \in {"sent", "returning"}, worker' = [worker EXCEPT ![w].pc = p],
             Marked(w), busy' = busy
      PROVE  BusyInv'
  <2>1. /\ \A v \in Workers : v # w => worker'[v] = worker[v]
        /\ worker'[w].job = worker[w].job /\ worker'[w].pc = p
    BY <1>0, <1>1, PcUpdate DEF WorkersTyped
  <2>2. Marked(w)'
    BY <2>1 DEF Marked, Known
  <2> QED  BY <1>1, <2>1, <2>2, MovesOn
<1>2. ASSUME worker' = Answer(w), busy' = busy
      PROVE  BusyInv'
  <2>1. CASE worker[w].pc = "sent"
    BY <1>1, <1>2, <2>1 DEF Answer, Marked, Known
  <2>2. CASE worker[w].pc # "sent"
    BY <1>2, <2>2, SamePcs DEF Answer
  <2> QED  BY <2>1, <2>2
<1>3. CASE ReadRun(w) \/ LoseReport(w)
  <2>1. /\ \E p \in {"sent", "returning"} : worker' = [worker EXCEPT ![w].pc = p]
        /\ Marked(w) /\ busy' = busy
    BY <1>3 DEF ReadRun, LoseReport, Marked, Known
  <2> QED  BY <1>1, <2>1
<1>4. CASE JudgeTask(w) \/ SettleTask(w)
  BY <1>4, SamePcs DEF JudgeTask, SettleTask
<1>5. CASE WriteRun(w) \/ ReportTimesOut(w) \/ ReportFails(w)
  BY <1>2, <1>5 DEF WriteRun, ReportTimesOut, ReportFails
<1> QED  BY <1>3, <1>4, <1>5 DEF ReportStep

LEMMA OthersKeepBusy ==
  ASSUME TypeOK, BusyInv
  PROVE  /\ \A r \in Runs : Enqueue(r) => BusyInv'
         /\ \A n \in Nodes : Disable(n) \/ Enable(n) => BusyInv'
         /\ \A t \in Tasks : ReopenTask(t) => BusyInv'
         /\ CancelStep \/ Tick \/ Stall \/ UNCHANGED vars => BusyInv'
<1>1. ASSUME worker' = worker, busy' = busy
      PROVE  BusyInv'
  BY <1>1, SamePcs
<1>2. CASE CancelStep
  BY <1>1, <1>2 DEF CancelStep, ReadTaskToCancel, CancelTask, AbortAgent, ListRuns, AllWritten,
     AnswerCancel, CancelFails, WriteCancelled
<1>3. CASE Tick \/ Stall
  BY <1>3, TimeUpdate, SamePcs DEF Tick, Stall
<1> QED  BY <1>1, <1>2, <1>3 DEF Enqueue, Disable, Enable, ReopenTask, vars

\* A node never works for a fork-free agent twice at a time.
THEOREM BusyAgentsExclude == Spec => []BusyAgentExclusive
<1>1. Init => BusyInv
  BY DEF Init, IdleWorker, BusyInv, ClaimsSerial, AgentsMarked, AgentsApart, Claims, Marked, Known
<1>2. TypeOK /\ BusyInv /\ [Next]_vars => BusyInv'
  BY WorkersKeepBusy, ReportsKeepBusy, OthersKeepBusy, CrashKeepsBusy DEF Next
<1>3. TypeOK /\ BusyInv => BusyAgentExclusive
  BY WorkingKnown DEF BusyInv, AgentsApart, BusyAgentExclusive, MainRunsExclusive, ForkFree, Agent
<1> QED  BY <1>1, <1>2, <1>3, TypeCorrect, PTL DEF Spec

-----------------------------------------------------------------------------
(***************************************************************************)
(* No key outlives its runs.  A run's worker is marked from the step that  *)
(* adds the key to the step that deletes it, or dies with the list.        *)
(***************************************************************************)
\* worker w serves agent a for node n
Serves(w, n, a) == NodeOf[w] = n /\ Marked(w) /\ Agent(w) = a

LEMMA ServedKeys ==
  BusyKeysLive <=> \A n \in Nodes : \A a \in busy[n] : \E w \in Workers : Serves(w, n, a)
  BY DEF BusyKeysLive, Serves, Marked, Known, Agent

\* a step of w that leaves the list alone, and w's run if w is marked
LEMMA KeysStay ==
  ASSUME BusyKeysLive, busy' = busy, NEW w \in Workers,
         \A v \in Workers : v # w => worker'[v] = worker[v],
         Marked(w) => Marked(w)' /\ worker'[w].job = worker[w].job
  PROVE  BusyKeysLive'
<1>1. \A v \in Workers : Marked(v) => Marked(v)' /\ worker'[v].job = worker[v].job
  BY DEF Marked, Known
<1>2. \A v \in Workers, n \in Nodes : \A a \in busy[n] : Serves(v, n, a) => Serves(v, n, a)'
  BY <1>1 DEF Serves, Agent
<1>3. \A n \in Nodes : \A a \in busy'[n] : \E v \in Workers : Serves(v, n, a)'
  BY <1>2, ServedKeys
<1>4. (BusyKeysLive <=> \A n \in Nodes : \A a \in busy[n] : \E v \in Workers : Serves(v, n, a))'
  BY DEF BusyKeysLive, Serves, Marked, Known, Agent
<1> QED  BY <1>3, <1>4

LEMMA SameJobsKeepKeys ==
  ASSUME BusyKeysLive, busy' = busy,
         \A v \in Workers : worker'[v].pc = worker[v].pc /\ worker'[v].job = worker[v].job
  PROVE  BusyKeysLive'
  BY DEF BusyKeysLive

\* The key is added with the step that marks its worker ...
LEMMA HandOverKeepsKeys ==
  ASSUME TypeOK, BusyKeysLive, NEW w \in Workers, HandOver(w)
  PROVE  BusyKeysLive'
<1>1. /\ worker'[w].pc = "claimed" /\ worker'[w].job = worker[w].job
      /\ \A v \in Workers : v # w => worker'[v] = worker[v]
      /\ worker[w].pc = "checking"
  <2>1. "claimed" \in WorkerPcs
    BY DEF WorkerPcs
  <2> QED  BY <2>1, PcUpdate DEF TypeOK, HandOver
<1>2. \A n \in Nodes : busy'[n] \subseteq IF n = NodeOf[w] THEN busy[n] \cup {Agent(w)} ELSE busy[n]
  BY DEF TypeOK, HandOver, Agent
<1> SUFFICES ASSUME NEW n \in Nodes, NEW a \in busy'[n]
             PROVE  \E v \in Workers : /\ NodeOf[v] = n
                                       /\ worker'[v].pc \notin {"idle", "claiming", "checking"}
                                       /\ AgentOf[worker'[v].job] = a
  BY DEF BusyKeysLive
<1>3. CASE a \in busy[n]
  <2>1. PICK v \in Workers : /\ NodeOf[v] = n
                             /\ worker[v].pc \notin {"idle", "claiming", "checking"}
                             /\ AgentOf[worker[v].job] = a
    BY <1>3 DEF BusyKeysLive
  <2> QED  BY <1>1, <2>1
<1>4. CASE a \notin busy[n]
  <2>1. n = NodeOf[w] /\ a = Agent(w)
    BY <1>2, <1>4
  <2> QED  BY <1>1, <2>1 DEF Agent
<1> QED  BY <1>3, <1>4

\* ... and deleted with the one that ends it; the others serve other agents.
LEMMA ReturnKeepsKeys ==
  ASSUME TypeOK, BusyKeysLive, NEW w \in Workers, Return(w)
  PROVE  BusyKeysLive'
<1>1. \A v \in Workers : v # w => worker'[v] = worker[v]
  BY DEF TypeOK, Return
<1>2. \A n \in Nodes : busy'[n] = IF n = NodeOf[w] THEN busy[n] \ {Agent(w)} ELSE busy[n]
  BY DEF TypeOK, Return, Agent
<1> SUFFICES ASSUME NEW n \in Nodes, NEW a \in busy'[n]
             PROVE  \E v \in Workers : /\ NodeOf[v] = n
                                       /\ worker'[v].pc \notin {"idle", "claiming", "checking"}
                                       /\ AgentOf[worker'[v].job] = a
  BY DEF BusyKeysLive
<1>3. a \in busy[n] /\ (n = NodeOf[w] => a # Agent(w))
  BY <1>2
<1>4. PICK v \in Workers : /\ NodeOf[v] = n
                           /\ worker[v].pc \notin {"idle", "claiming", "checking"}
                           /\ AgentOf[worker[v].job] = a
  BY <1>3 DEF BusyKeysLive
<1>5. v # w
  BY <1>3, <1>4 DEF Agent
<1> QED  BY <1>1, <1>4, <1>5

LEMMA CrashKeepsKeys ==
  ASSUME TypeOK, BusyKeysLive, NEW m \in Nodes, NodeCrash(m)
  PROVE  BusyKeysLive'
<1>1. \A v \in Workers : NodeOf[v] # m => worker'[v] = worker[v]
  BY DEF NodeCrash
<1>2. \A n \in Nodes : busy'[n] = IF n = m THEN {} ELSE busy[n]
  BY DEF NodeCrash, TypeOK
<1> SUFFICES ASSUME NEW n \in Nodes, NEW a \in busy'[n]
             PROVE  \E v \in Workers : /\ NodeOf[v] = n
                                       /\ worker'[v].pc \notin {"idle", "claiming", "checking"}
                                       /\ AgentOf[worker'[v].job] = a
  BY DEF BusyKeysLive
<1>3. n # m /\ a \in busy[n]
  BY <1>2
<1>4. PICK v \in Workers : /\ NodeOf[v] = n
                           /\ worker[v].pc \notin {"idle", "claiming", "checking"}
                           /\ AgentOf[worker[v].job] = a
  BY <1>3 DEF BusyKeysLive
<1> QED  BY <1>1, <1>3, <1>4

LEMMA WorkersKeepKeys ==
  ASSUME TypeOK, BusyKeysLive, NEW w \in Workers, WorkerStep(w)
  PROVE  BusyKeysLive'
<1>0. WorkersTyped /\ {"claiming", "exec", "returning"} \subseteq WorkerPcs
      /\ {"unprepared", "succeeded", "failed"} \subseteq Outcomes
  BY WorkersFacts DEF WorkerPcs, Outcomes
<1>1. CASE StartClaim(w) \/ ClaimRun(w) \/ NothingToClaim(w) \/ SkipDoneTask(w) \/ LoseClaim(w)
  <2>1. /\ worker[w].pc \in {"idle", "claiming", "checking"} /\ busy' = busy
        /\ \A v \in Workers : v # w => worker'[v] = worker[v]
    BY <1>1 DEF TypeOK, StartClaim, ClaimRun, NothingToClaim, SkipDoneTask, LoseClaim
  <2> QED  BY <2>1, KeysStay DEF Marked, Known
<1>2. ASSUME NEW p \in {"exec", "returning"}, worker' = [worker EXCEPT ![w].pc = p], busy' = busy
      PROVE  BusyKeysLive'
  <2>1. /\ \A v \in Workers : v # w => worker'[v] = worker[v]
        /\ worker'[w].job = worker[w].job /\ worker'[w].pc = p
    BY <1>0, <1>2, PcUpdate DEF WorkersTyped
  <2>2. Marked(w)'
    BY <2>1 DEF Marked, Known
  <2> QED  BY <1>2, <2>1, <2>2, KeysStay
<1>3. ASSUME NEW o \in Outcomes, worker' = ToReport(w, o), busy' = busy
      PROVE  BusyKeysLive'
  <2>1. /\ \A v \in Workers : v # w => worker'[v] = worker[v]
        /\ worker'[w].job = worker[w].job /\ worker'[w].pc = "reporting"
    BY <1>3 DEF ToReport, TypeOK
  <2>2. Marked(w)'
    BY <2>1 DEF Marked, Known
  <2> QED  BY <1>3, <2>1, <2>2, KeysStay
<1>4. CASE FetchSpec(w) \/ PrepareFails(w) \/ LearnCancelled(w)
  <2>1. /\ \/ \E p \in {"exec", "returning"} : worker' = [worker EXCEPT ![w].pc = p]
           \/ worker' = ToReport(w, "unprepared")
        /\ busy' = busy
    BY <1>4 DEF FetchSpec, PrepareFails, LearnCancelled
  <2> QED  BY <1>0, <1>2, <1>3, <2>1
<1>5. ASSUME NEW o \in {"succeeded", "failed"}, AgentStops(w, o)
      PROVE  BusyKeysLive'
  BY <1>0, <1>3, <1>5 DEF AgentStops
<1>6. ASSUME NEW s \in TaskStatuses \ {"open"}, AgentUpdatesTask(w, s)
      PROVE  BusyKeysLive'
  BY <1>6, SameJobsKeepKeys DEF AgentUpdatesTask
<1>7. CASE RenewLease(w)
  <2>1. LeaseTicks \in Leases /\ busy' = busy
    BY <1>7 DEF RenewLease, Leases, Expired
  <2>2. \A v \in Workers : worker'[v].pc = worker[v].pc /\ worker'[v].job = worker[v].job
    BY <1>7, <2>1, HoldUpdate DEF RenewLease, TypeOK
  <2> QED  BY <2>1, <2>2, SameJobsKeepKeys
<1> QED  BY <1>1, <1>4, <1>5, <1>6, <1>7, HandOverKeepsKeys, ReturnKeepsKeys DEF WorkerStep

LEMMA ReportsKeepKeys ==
  ASSUME TypeOK, BusyKeysLive, NEW w \in Workers, ReportStep(w)
  PROVE  BusyKeysLive'
<1>0. WorkersTyped /\ {"sent", "returning"} \subseteq WorkerPcs
  BY WorkersFacts DEF WorkerPcs
<1>1. ASSUME NEW p \in {"sent", "returning"}, worker' = [worker EXCEPT ![w].pc = p], busy' = busy
      PROVE  BusyKeysLive'
  <2>1. /\ \A v \in Workers : v # w => worker'[v] = worker[v]
        /\ worker'[w].job = worker[w].job /\ worker'[w].pc = p
    BY <1>0, <1>1, PcUpdate DEF WorkersTyped
  <2>2. Marked(w)'
    BY <2>1 DEF Marked, Known
  <2> QED  BY <1>1, <2>1, <2>2, KeysStay
<1>2. ASSUME worker' = Answer(w), busy' = busy
      PROVE  BusyKeysLive'
  BY <1>1, <1>2, SameJobsKeepKeys DEF Answer
<1>3. CASE ReadRun(w) \/ LoseReport(w)
  BY <1>1, <1>3 DEF ReadRun, LoseReport
<1>4. CASE JudgeTask(w) \/ SettleTask(w)
  BY <1>4, SameJobsKeepKeys DEF JudgeTask, SettleTask
<1>5. CASE WriteRun(w) \/ ReportTimesOut(w) \/ ReportFails(w)
  BY <1>2, <1>5 DEF WriteRun, ReportTimesOut, ReportFails
<1> QED  BY <1>3, <1>4, <1>5 DEF ReportStep

\* A node refuses the runs of an agent only while a worker of it has a run of
\* that agent: no fault, cancellation or lost answer leaves a key in busyAgents
\* (runtime_node.go:288 and 292).
THEOREM BusyKeysAreLive == Spec => []BusyKeysLive
<1>1. Init => BusyKeysLive
  BY DEF Init, BusyKeysLive
<1>2. TypeOK /\ BusyKeysLive /\ [Next]_vars => BusyKeysLive'
  <2> SUFFICES ASSUME TypeOK, BusyKeysLive, [Next]_vars PROVE BusyKeysLive'
    OBVIOUS
  <2>1. ASSUME worker' = worker, busy' = busy
        PROVE  BusyKeysLive'
    BY <2>1, SameJobsKeepKeys
  <2>2. CASE CancelStep
    BY <2>1, <2>2 DEF CancelStep, ReadTaskToCancel, CancelTask, AbortAgent, ListRuns, AllWritten,
       AnswerCancel, CancelFails, WriteCancelled
  <2>3. CASE Tick \/ Stall
    BY <2>3, TimeUpdate, SameJobsKeepKeys DEF Tick, Stall
  <2>4. \/ \E r \in Runs : Enqueue(r)
        \/ \E n \in Nodes : Disable(n) \/ Enable(n)
        \/ \E t \in Tasks : ReopenTask(t)
        \/ UNCHANGED vars
        => BusyKeysLive'
    BY <2>1 DEF Enqueue, Disable, Enable, ReopenTask, vars
  <2> QED  BY <2>2, <2>3, <2>4, WorkersKeepKeys, ReportsKeepKeys, CrashKeepsKeys DEF Next
<1> QED  BY <1>1, <1>2, TypeCorrect, PTL DEF Spec

-----------------------------------------------------------------------------
(***************************************************************************)
(* Settling.  A report that is ready to end its run has dealt with the     *)
(* task, and once a task is no longer open only a step that excuses it     *)
(* opens it again.                                                         *)
(***************************************************************************)
\* run r owes a task that the report must not leave open
Owes(r) == r \notin ForkKind /\ TaskOf[r] \in Tasks \ excused

ReportsSettled ==
  \A w \in Workers : report[w].stage = "settled" /\ Owes(report[w].run) =>
    task[TaskOf[report[w].run]] # "open"

SettledInv == ReportsSettled /\ EndedRunSettlesTask

TasksSettle ==
  /\ excused \subseteq excused'
  /\ \A t \in Tasks \ excused' : task[t] # "open" => task'[t] # "open"

\* the rows that end this step end with their task settled
RowsSettle ==
  \A r \in Runs : run'[r].status \in {"succeeded", "failed"} =>
    \/ run[r].status \in {"succeeded", "failed"}
    \/ Owes(r) => task[TaskOf[r]] # "open"

ReportsStay ==
  \A w \in Workers : report'[w].stage = "settled" =>
    /\ report[w].stage = "settled" /\ report'[w].run = report[w].run
    /\ report[w].run \in Runs

LEMMA SettledStep ==
  ASSUME SettledInv, TypeOK, TasksSettle, RowsSettle, ReportsStay
  PROVE  SettledInv'
<1>1. \A r \in Runs : Owes(r)' => Owes(r)
  BY DEF Owes, TasksSettle
<1>2. \A r \in Runs : Owes(r)' /\ task[TaskOf[r]] # "open" => task'[TaskOf[r]] # "open"
  BY DEF Owes, TasksSettle
<1>3. ReportsSettled'
  BY <1>1, <1>2 DEF ReportsStay, SettledInv, ReportsSettled
<1>4. \A r \in Runs : run'[r].status \in {"succeeded", "failed"} /\ Owes(r)' =>
        task'[TaskOf[r]] # "open"
  BY <1>1, <1>2 DEF RowsSettle, SettledInv, EndedRunSettlesTask, Owes
<1>5. EndedRunSettlesTask'
  BY <1>4 DEF EndedRunSettlesTask, Owes
<1> QED  BY <1>3, <1>5 DEF SettledInv

LEMMA SameReports == ASSUME TypeOK, report' = report PROVE ReportsStay
  BY DEF ReportsStay, TypeOK

LEMMA SameTasks == ASSUME task' = task, excused' = excused PROVE TasksSettle
  BY DEF TasksSettle

LEMMA SameStatuses ==
  ASSUME \A r \in Runs : run'[r].status \in {"succeeded", "failed"} => run'[r].status = run[r].status
  PROVE  RowsSettle
  BY DEF RowsSettle

LEMMA WorkersSettle ==
  ASSUME TypeOK, SettledInv, NEW w \in Workers, WorkerStep(w)
  PROVE  SettledInv'
<1>0. report' = report /\ excused' = excused
  BY DEF WorkerStep, StartClaim, ClaimRun, NothingToClaim, SkipDoneTask, HandOver, LoseClaim,
         FetchSpec, PrepareFails, RenewLease, LearnCancelled, Return, AgentStops, AgentUpdatesTask
<1>1. ReportsStay
  BY <1>0, SameReports
<1>2. TasksSettle
  <2>1. CASE \E s \in TaskStatuses \ {"open"} : AgentUpdatesTask(w, s)
    BY <1>0, <2>1 DEF AgentUpdatesTask, TypeOK, TasksSettle
  <2>2. CASE ~ \E s \in TaskStatuses \ {"open"} : AgentUpdatesTask(w, s)
    <3>1. task' = task
      BY <2>2 DEF WorkerStep, StartClaim, ClaimRun, NothingToClaim, SkipDoneTask, HandOver, LoseClaim,
           FetchSpec, PrepareFails, RenewLease, LearnCancelled, Return, AgentStops
    <3> QED  BY <1>0, <3>1, SameTasks
  <2> QED  BY <2>1, <2>2
<1>3. RowsSettle
  <2>1. CASE ClaimRun(w)
    <3>1. PICK r \in Runs :
            run' = [run EXCEPT ![r] = [status |-> "running", node |-> NodeOf[w], lease |-> LeaseTicks]]
      BY <2>1 DEF ClaimRun, NextClaim, Claimable
    <3>2. \A q \in Runs : run'[q] = run[q] \/ run'[q].status = "running"
      BY <3>1 DEF TypeOK
    <3> QED  BY <3>2, SameStatuses
  <2>2. CASE SkipDoneTask(w)
    <3>1. worker[w].job \in Runs /\ TaskOf[worker[w].job] \in Tasks
      BY <2>2 DEF SkipDoneTask, TaskDoneAlready, TypeOK
    <3>2. task[TaskOf[worker[w].job]] # "open"
      BY <2>2 DEF SkipDoneTask, TaskDoneAlready, TaskDone
    <3>3. \A q \in Runs : q # worker[w].job => run'[q] = run[q]
      BY <2>2 DEF SkipDoneTask, TypeOK
    <3> QED  BY <3>2, <3>3 DEF RowsSettle
  <2>3. CASE RenewLease(w)
    <3>1. worker[w].job \in Runs /\ LeaseTicks \in Leases
      BY <2>3 DEF RenewLease, Renewing, TypeOK, Leases, Expired
    <3>2. \A q \in Runs : run'[q].status = run[q].status
      BY <2>3, <3>1, LeaseUpdate DEF RenewLease, TypeOK
    <3> QED  BY <3>2, SameStatuses
  <2>4. CASE ~ClaimRun(w) /\ ~SkipDoneTask(w) /\ ~RenewLease(w)
    <3>1. run' = run
      BY <2>4 DEF WorkerStep, StartClaim, NothingToClaim, HandOver, LoseClaim,
           FetchSpec, PrepareFails, LearnCancelled, Return, AgentStops, AgentUpdatesTask
    <3> QED  BY <3>1, SameStatuses
  <2> QED  BY <2>1, <2>2, <2>3, <2>4
<1> QED  BY <1>1, <1>2, <1>3, SettledStep

LEMMA ReportsSettle ==
  ASSUME TypeOK, SettledInv, NEW w \in Workers, ReportStep(w)
  PROVE  SettledInv'
<1>0. /\ report \in [Workers -> Reports]
      /\ \A v \in Workers : report[v].stage # "none" => report[v].run \in Runs
  BY DEF TypeOK
<1>1. CASE ReadRun(w)
  <2>1. run' = run /\ task' = task /\ excused' = excused
    BY <1>1 DEF ReadRun
  <2>2. \A v \in Workers : report'[v] = report[v] \/ report'[v].stage = "read"
    BY <1>0, <1>1 DEF ReadRun
  <2>3. ReportsStay
    BY <1>0, <2>2 DEF ReportsStay
  <2> QED  BY <2>1, <2>3, SameTasks, SameStatuses, SettledStep
<1>2. CASE JudgeTask(w)
  <2> DEFINE r == report[w].run
             settles == TaskOf[r] \in Tasks /\ r \notin ForkKind /\ task[TaskOf[r]] = "open"
  <2>1. r \in Runs /\ run' = run /\ task' = task /\ excused \subseteq excused'
    BY <1>0, <1>2 DEF JudgeTask
  <2>2. \E g \in {"judged", "settled"} : report' = [report EXCEPT ![w].stage = g]
    BY <1>2 DEF JudgeTask
  <2>3. /\ \A v \in Workers : report'[v].run = report[v].run
        /\ \A v \in Workers : v # w => report'[v].stage = report[v].stage
    BY <1>0, <2>2, StageUpdate
  <2>4. report'[w].stage = "settled" => ~settles \/ TaskOf[r] \in excused'
    BY <1>0, <1>2, StageUpdate DEF JudgeTask
  <2>5. ReportsSettled'
    BY <2>1, <2>3, <2>4 DEF SettledInv, ReportsSettled, Owes
  <2>6. EndedRunSettlesTask'
    BY <2>1 DEF SettledInv, EndedRunSettlesTask
  <2> QED  BY <2>5, <2>6 DEF SettledInv
<1>3. CASE SettleTask(w)
  <2> DEFINE t == TaskOf[report[w].run]
  <2>1. /\ \A v \in Workers : v # w => report'[v] = report[v]
        /\ report'[w].run = report[w].run /\ report[w].run \in Runs /\ run' = run
    BY <1>0, <1>3 DEF SettleTask
  <2>2. \/ t \in excused' /\ task' = task
        \/ \E s \in {"done_failed", "done_success"} : task' = [task EXCEPT ![t] = s]
    BY <1>3 DEF SettleTask
  <2>3. TasksSettle
    BY <1>3, <2>2 DEF SettleTask, TasksSettle, TypeOK
  <2>4. t \in Tasks \ excused' => task'[t] # "open"
    BY <2>2 DEF TypeOK
  <2>5. ReportsSettled'
    <3>1. \A q \in Runs : Owes(q)' => Owes(q)
      BY <2>3 DEF Owes, TasksSettle
    <3>2. \A q \in Runs : Owes(q)' /\ task[TaskOf[q]] # "open" => task'[TaskOf[q]] # "open"
      BY <2>3 DEF Owes, TasksSettle
    <3>3. Owes(report[w].run)' => task'[TaskOf[report'[w].run]] # "open"
      BY <2>1, <2>4 DEF Owes
    <3> QED  BY <1>0, <2>1, <3>1, <3>2, <3>3 DEF SettledInv, ReportsSettled
  <2>6. EndedRunSettlesTask'
    BY <2>1, <2>3 DEF SettledInv, EndedRunSettlesTask, TasksSettle
  <2> QED  BY <2>5, <2>6 DEF SettledInv
<1>4. CASE WriteRun(w)
  <2>1. report[w].run \in Runs /\ task' = task /\ excused' = excused
    BY <1>0, <1>4 DEF WriteRun
  <2>2. \A q \in Runs : q # report[w].run => run'[q] = run[q]
    BY <1>4, <2>1 DEF WriteRun, TypeOK
  <2>3. Owes(report[w].run) => task[TaskOf[report[w].run]] # "open"
    BY <1>4 DEF WriteRun, SettledInv, ReportsSettled
  <2>4. RowsSettle
    BY <2>2, <2>3 DEF RowsSettle
  <2>5. ReportsStay
    BY <1>0, <1>4, NoReportType DEF WriteRun, ReportsStay
  <2> QED  BY <2>1, <2>4, <2>5, SameTasks, SettledStep
<1>5. CASE LoseReport(w) \/ ReportTimesOut(w)
  BY <1>5, SameReports, SameTasks, SameStatuses, SettledStep DEF LoseReport, ReportTimesOut
<1>6. CASE ReportFails(w)
  <2>1. ReportsStay
    BY <1>0, <1>6, NoReportType DEF ReportFails, ReportsStay
  <2> QED  BY <1>6, <2>1, SameTasks, SameStatuses, SettledStep DEF ReportFails
<1> QED  BY <1>1, <1>2, <1>3, <1>4, <1>5, <1>6 DEF ReportStep

LEMMA CancelsSettle ==
  ASSUME TypeOK, SettledInv, CancelStep
  PROVE  SettledInv'
<1>1. ReportsStay
  BY SameReports DEF CancelStep, ReadTaskToCancel, CancelTask, AbortAgent, ListRuns, AllWritten,
     AnswerCancel, CancelFails, WriteCancelled
<1>2. TasksSettle
  <2>1. ASSUME NEW t \in Tasks, CancelTask(t)
        PROVE  TasksSettle
    BY <2>1 DEF CancelTask, TypeOK, TasksSettle
  <2>2. CASE ~ \E t \in Tasks : CancelTask(t)
    BY <2>2, SameTasks DEF CancelStep, ReadTaskToCancel, AbortAgent, ListRuns, AllWritten,
       AnswerCancel, CancelFails, WriteCancelled
  <2> QED  BY <2>1, <2>2
<1>3. RowsSettle
  <2>1. ASSUME NEW r \in Runs, WriteCancelled(r)
        PROVE  RowsSettle
    <3>1. \A q \in Runs : run'[q] = run[q] \/ run'[q].status = "cancelled"
      BY <2>1 DEF WriteCancelled, EndedRow, TypeOK
    <3> QED  BY <3>1, SameStatuses
  <2>2. CASE ~ \E r \in Runs : WriteCancelled(r)
    BY <2>2, SameStatuses DEF CancelStep, ReadTaskToCancel, CancelTask, AbortAgent, ListRuns,
       AllWritten, AnswerCancel, CancelFails
  <2> QED  BY <2>1, <2>2
<1> QED  BY <1>1, <1>2, <1>3, SettledStep

LEMMA OthersSettle ==
  ASSUME TypeOK, SettledInv
  PROVE  /\ \A r \in Runs : Enqueue(r) => SettledInv'
         /\ \A n \in Nodes : Disable(n) \/ Enable(n) \/ NodeCrash(n) => SettledInv'
         /\ \A t \in Tasks : ReopenTask(t) => SettledInv'
         /\ Tick \/ Stall \/ UNCHANGED vars => SettledInv'
<1>1. ASSUME NEW r \in Runs, Enqueue(r)
      PROVE  SettledInv'
  <2>1. \A q \in Runs : run'[q] = run[q] \/ run'[q].status = "queued"
    BY <1>1 DEF Enqueue, TypeOK, Rows
  <2> QED  BY <1>1, <2>1, SameReports, SameTasks, SameStatuses, SettledStep DEF Enqueue
<1>2. ASSUME NEW n \in Nodes, Disable(n) \/ Enable(n) \/ NodeCrash(n)
      PROVE  SettledInv'
  BY <1>2, SameReports, SameTasks, SameStatuses, SettledStep DEF Disable, Enable, NodeCrash
<1>3. ASSUME NEW t \in Tasks, ReopenTask(t)
      PROVE  SettledInv'
  <2>1. TasksSettle
    BY <1>3 DEF ReopenTask, TasksSettle, TypeOK
  <2> QED  BY <1>3, <2>1, SameReports, SameStatuses, SettledStep DEF ReopenTask
<1>4. CASE Tick \/ Stall
  <2>1. \A r \in Runs : run'[r].status = run[r].status
    BY <1>4, TimeUpdate DEF Tick, Stall
  <2> QED  BY <1>4, <2>1, SameReports, SameTasks, SameStatuses, SettledStep DEF Tick, Stall
<1>5. CASE UNCHANGED vars
  BY <1>5, SameReports, SameTasks, SameStatuses, SettledStep DEF vars
<1> QED  BY <1>1, <1>2, <1>3, <1>4, <1>5

\* A run reported as ended has settled its task.
THEOREM EndedRunsSettleTasks == Spec => []EndedRunSettlesTask
<1>1. Init => SettledInv
  BY DEF Init, EndedRow, NoReport, SettledInv, ReportsSettled, EndedRunSettlesTask
<1>2. TypeOK /\ SettledInv /\ [Next]_vars => SettledInv'
  BY WorkersSettle, ReportsSettle, CancelsSettle, OthersSettle DEF Next
<1>3. SettledInv => EndedRunSettlesTask
  BY DEF SettledInv
<1> QED  BY <1>1, <1>2, <1>3, TypeCorrect, PTL DEF Spec

-----------------------------------------------------------------------------
(***************************************************************************)
(* Cancelling.  A row only moves forward, so the rows that were active when *)
(* the request began are, between its listings, either over, in the list   *)
(* being written, or about to be found by the listing still to come.       *)
(***************************************************************************)
RowsForward ==
  \A r \in Runs :
    /\ run[r].status # "absent" => run'[r].status # "absent"
    /\ run[r].status = "running" => run'[r].status \in {"running"} \cup Ended
    /\ run[r].status \in Ended => run'[r].status \in Ended

DueCovered ==
  /\ cancel.stage \in {"idle", "read"} => cancel.due = {}
  /\ cancel.due \subseteq cancel.scope
  /\ \A r \in cancel.due :
       /\ run[r].status # "absent"
       /\ cancel.stage = "writing queued" =>
            r \in cancel.listed \/ run[r].status \in {"running"} \cup Ended
       /\ cancel.stage = "running" => run[r].status \in {"running"} \cup Ended
       /\ cancel.stage = "writing running" => r \in cancel.listed \/ run[r].status \in Ended
       /\ cancel.stage = "done" => run[r].status \in Ended

\* Nothing brings a row back: an ended run stays ended, a running one is not
\* queued again.
LEMMA StepsMoveRowsForward ==
  ASSUME QueueInv, [Next]_vars
  PROVE  RowsForward
<1>0. /\ \A r \in Runs : run[r].status \in {"absent", "queued", "running"} \cup Ended
      /\ \A r \in Runs : run'[r].status \in {"absent", "queued", "running"} \cup Ended
      /\ Ended \cap {"absent", "queued", "running"} = {}
  <2>1. TypeOK'
    BY NextType DEF QueueInv
  <2> QED  BY <2>1 DEF QueueInv, TypeOK, Rows, Active, Ended
<1>1. ASSUME Quiet
      PROVE  RowsForward
  BY <1>0, <1>1 DEF Quiet, RowsQuiet, RowsAdvance, RowsForward
<1>2. ASSUME \A r \in Runs : run'[r].status = run[r].status
      PROVE  RowsForward
  BY <1>2 DEF RowsForward
<1>3. ASSUME NEW w \in Workers, ClaimRun(w)
      PROVE  RowsForward
  <2>1. PICK r \in Claimable(NodeOf[w]) :
          run' = [run EXCEPT ![r] = [status |-> "running", node |-> NodeOf[w], lease |-> LeaseTicks]]
    BY <1>3 DEF ClaimRun, NextClaim
  <2>2. r \in Runs /\ run[r].status \in Active
    BY <2>1 DEF Claimable, Active
  <2>3. /\ run'[r].status = "running"
        /\ \A q \in Runs : q # r => run'[q] = run[q]
    BY <2>1, <2>2 DEF QueueInv, TypeOK
  <2> QED  BY <1>0, <2>2, <2>3 DEF RowsForward, Active
<1>4. ASSUME NEW w \in Workers, RenewLease(w)
      PROVE  RowsForward
  <2>1. worker[w].job \in Runs /\ LeaseTicks \in Leases
    BY <1>4 DEF RenewLease, Renewing, QueueInv, TypeOK, Leases, Expired
  <2> QED  BY <1>2, <1>4, <2>1, LeaseUpdate DEF RenewLease, QueueInv, TypeOK
<1>5. CASE Tick \/ Stall
  BY <1>2, <1>5, TimeUpdate DEF Tick, Stall, QueueInv
<1>6. ASSUME NEW w \in Workers, WorkerStep(w)
      PROVE  RowsForward
  BY <1>1, <1>3, <1>4, <1>6, QuietWorkerSteps
<1>7. ASSUME NEW w \in Workers, ReportStep(w)
      PROVE  RowsForward
  BY <1>1, <1>7, QuietReportSteps
<1>8. CASE CancelStep
  BY <1>1, <1>8, QuietCancelSteps
<1>9. CASE \/ UNCHANGED vars
           \/ \E r \in Runs : Enqueue(r)
           \/ \E n \in Nodes : Disable(n) \/ Enable(n) \/ NodeCrash(n)
           \/ \E t \in Tasks : ReopenTask(t)
  BY <1>1, <1>9, QuietOtherSteps
<1> QED  BY <1>5, <1>6, <1>7, <1>8, <1>9 DEF Next

\* The handler's own steps: what leaves the list has been written, and what a
\* listing does not find is over or, at the first, running.
LEMMA CancelStepsCover ==
  ASSUME QueueInv, RowsForward, DueCovered, CancelStep
  PROVE  DueCovered'
<1>0. /\ cancel \in Cancels /\ cancel.due \subseteq Runs /\ cancel.listed \subseteq Runs
      /\ \A r \in Runs : run[r].status \in {"absent", "queued", "running"} \cup Ended
  BY DEF QueueInv, TypeOK, Cancels, Rows, Active
<1>n. NoCancel.due = {} /\ NoCancel.stage = "idle"
  BY DEF NoCancel
<1>1. ASSUME NEW t \in Tasks, ReadTaskToCancel(t)
      PROVE  DueCovered'
  <2>1. cancel'.due = {} /\ cancel'.stage = "read"
    BY <1>0, <1>1 DEF ReadTaskToCancel, DueCovered, Cancels
  <2> QED  BY <2>1 DEF DueCovered
<1>2. ASSUME cancel'.stage = "queued", cancel'.due = ActiveIn(cancel'.scope),
             cancel'.scope \subseteq Runs
      PROVE  DueCovered'
  <2>1. \A r \in cancel'.due : r \in Runs /\ run[r].status # "absent"
    BY <1>2 DEF ActiveIn, Active
  <2>2. cancel'.due \subseteq cancel'.scope
    BY <1>2 DEF ActiveIn
  <2> QED  BY <1>2, <2>1, <2>2 DEF DueCovered, RowsForward
<1>3. ASSUME NEW t \in Tasks, CancelTask(t)
      PROVE  DueCovered'
  <2>1. /\ cancel'.stage = "queued" /\ cancel'.scope = cancel.scope
        /\ cancel'.due = ActiveIn(cancel.scope) /\ cancel.scope \subseteq Runs
    BY <1>0, <1>3 DEF CancelTask, Cancels
  <2> QED  BY <1>2, <2>1
<1>4. ASSUME NEW a \in Agents, AbortAgent(a)
      PROVE  DueCovered'
  <2> DEFINE scope == {r \in Runs : AgentOf[r] = a}
  <2>1. /\ cancel'.stage = "queued" /\ cancel'.scope = scope
        /\ cancel'.due = ActiveIn(scope)
    BY <1>0, <1>4 DEF AbortAgent, Cancels
  <2> QED  BY <1>2, <2>1
<1>5. CASE ListRuns
  <2> DEFINE found == {r \in cancel.scope : run[r].status = cancel.stage}
  <2>1. /\ cancel.stage \in {"queued", "running"} /\ run' = run
        /\ cancel'.stage = IF cancel.stage = "queued" THEN "writing queued" ELSE "writing running"
        /\ cancel'.listed = found
        /\ cancel'.scope = cancel.scope /\ cancel'.due = cancel.due
    BY <1>0, <1>5 DEF ListRuns, Cancels
  <2>2. CASE cancel.stage = "queued"
    <3>1. \A r \in cancel.due : r \in found \/ run[r].status \in {"running"} \cup Ended
      BY <1>0, <2>2 DEF DueCovered
    <3> QED  BY <2>1, <2>2, <3>1 DEF DueCovered
  <2>3. CASE cancel.stage = "running"
    <3>1. \A r \in cancel.due : r \in found \/ run[r].status \in Ended
      BY <2>3 DEF DueCovered
    <3> QED  BY <2>1, <2>3, <3>1 DEF DueCovered
  <2> QED  BY <2>1, <2>2, <2>3
<1>6. CASE AllWritten
  <2>1. /\ cancel.stage \in {"writing queued", "writing running"} /\ cancel.listed = {} /\ run' = run
        /\ cancel'.stage = IF cancel.stage = "writing queued" THEN "running" ELSE "done"
        /\ cancel'.scope = cancel.scope /\ cancel'.due = cancel.due
    BY <1>0, <1>6 DEF AllWritten, Cancels
  <2> QED  BY <2>1 DEF DueCovered
<1>7. CASE AnswerCancel \/ CancelFails
  BY <1>7, <1>n DEF AnswerCancel, CancelFails, DueCovered
<1>8. ASSUME NEW r \in Runs, WriteCancelled(r)
      PROVE  DueCovered'
  <2>1. /\ cancel'.stage = cancel.stage /\ cancel'.listed = cancel.listed \ {r}
        /\ cancel'.scope = cancel.scope /\ cancel'.due = cancel.due
    BY <1>0, <1>8 DEF WriteCancelled, Cancels
  <2>2. run'[r].status \in Ended
    BY <1>8 DEF WriteCancelled, EndedRow, Ended, QueueInv, TypeOK
  <2> QED  BY <1>0, <2>1, <2>2 DEF DueCovered, RowsForward
<1> QED  BY <1>1, <1>3, <1>4, <1>5, <1>6, <1>7, <1>8 DEF CancelStep

\* Any other step leaves the request alone and only moves rows forward.
LEMMA OthersCover ==
  ASSUME QueueInv, RowsForward, DueCovered, cancel' = cancel
  PROVE  DueCovered'
<1>1. cancel.due \subseteq Runs
  BY DEF QueueInv, TypeOK, Cancels
<1> QED  BY <1>1 DEF DueCovered, RowsForward

LEMMA CancelUntouched ==
  ASSUME [Next]_vars, ~CancelStep
  PROVE  cancel' = cancel
<1>1. ASSUME NEW w \in Workers, WorkerStep(w) \/ ReportStep(w)
      PROVE  cancel' = cancel
  <2>1. CASE WorkerStep(w)
    BY <2>1 DEF WorkerStep, StartClaim, ClaimRun, NothingToClaim, SkipDoneTask, HandOver, LoseClaim,
         FetchSpec, PrepareFails, RenewLease, LearnCancelled, Return, AgentStops, AgentUpdatesTask
  <2>2. CASE ReportStep(w)
    BY <2>2 DEF ReportStep, ReadRun, JudgeTask, SettleTask, WriteRun, LoseReport, ReportTimesOut, ReportFails
  <2> QED  BY <1>1, <2>1, <2>2
<1> QED  BY <1>1 DEF Next, vars, Enqueue, Disable, Enable, NodeCrash, ReopenTask, Tick, Stall

\* An answered cancel has ended every run that was active when it began.
THEOREM CancelsMissNothing == Spec => []CancelMissesNothing
<1>1. Init => DueCovered
  BY DEF Init, NoCancel, DueCovered
<1>2. QueueInv /\ DueCovered /\ [Next]_vars => DueCovered'
  BY StepsMoveRowsForward, CancelStepsCover, OthersCover, CancelUntouched
<1>3. DueCovered => CancelMissesNothing
  BY DEF DueCovered, CancelMissesNothing
<1> QED  BY <1>1, <1>2, <1>3, QueueInvariant, PTL DEF Spec

=============================================================================
