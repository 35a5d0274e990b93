---------------------------- MODULE RuntimeQueue ----------------------------
(***************************************************************************)
(* The remote run queue: the table runtime_runs of the control plane, the  *)
(* HTTP handlers that move its rows, and the worker goroutines of the      *)
(* runtime nodes that claim a run, execute the agent and report.           *)
(*                                                                         *)
(* The database is SQLite with one connection, so a statement or a         *)
(* transaction is one step; a handler is as many steps as it makes         *)
(* database calls whose order matters, and any other request may fall      *)
(* between two of them.                                                    *)
(***************************************************************************)
EXTENDS Integers, FiniteSets

CONSTANTS
  Nodes,          \* runtime nodes (rows of runtime_nodes)
  NoNode,         \* the empty runtime_node_id / desired_runtime_node_id
  Workers,        \* worker goroutines, those of all nodes together
  NodeOf,         \* the node a worker belongs to
  Runs,           \* run ids
  NoRun,          \* a worker that holds no run
  Rank,           \* position of a run in ORDER BY priority, created_at, id
  DesiredNode,    \* desired_runtime_node_id of a run
  Agents, AgentOf,\* the agent key of a run (worker/<id> or project/agent)
  Forks,          \* runs with a fork_session_id
  ForkKind,       \* those of them whose spec has kind fork_session
  Tasks, NoTask,  \* tasks and the empty task_id
  TaskOf,         \* task_id of a run
  WorkflowTasks,  \* tasks driven by a workflow instance
  LeaseTicks,     \* the 90 s lease, in clock ticks
  MaxDisruptions  \* how many faults or operator interventions a behaviour has

ASSUME NodesAssumption == NoNode \notin Nodes /\ NodeOf \in [Workers -> Nodes]
ASSUME RunsAssumption ==
  /\ NoRun \notin Runs
  /\ DesiredNode \in [Runs -> Nodes \cup {NoNode}]
  /\ AgentOf \in [Runs -> Agents]
  /\ ForkKind \subseteq Forks /\ Forks \subseteq Runs
ASSUME RankAssumption ==
  /\ Rank \in [Runs -> Nat]
  /\ \A r, s \in Runs : Rank[r] = Rank[s] => r = s
ASSUME TasksAssumption ==
  /\ NoTask \notin Tasks /\ WorkflowTasks \subseteq Tasks
  /\ TaskOf \in [Runs -> Tasks \cup {NoTask}]
ASSUME LeaseAssumption == LeaseTicks \in Nat \ {0} /\ MaxDisruptions \in Nat

VARIABLES
  run,         \* run[r]: the row of r
  task,        \* task[t]: status of the task record
  excused,     \* tasks moved back to open, or whose verdict was not saved (history)
  enabled,     \* enabled[n]: the status of node n is not "disabled"
  busy,        \* busy[n]: coord.busyAgents of node n's process
  worker,      \* worker[w]: the goroutine
  report,      \* report[w]: complete/fail request of w inside the server
  cancel,      \* the cancel or abort request inside the server
  disruptions  \* faults and interventions so far

vars == <<run, task, excused, enabled, busy, worker, report, cancel, disruptions>>

(***************************************************************************)
(* Rows and tasks.  lease counts the ticks left before lease_expires_at    *)
(* is in the past; an ended row's lease_expires_at is never looked at, so  *)
(* it is kept at Expired.                                                  *)
(***************************************************************************)
Expired == -1
Leases  == Expired .. LeaseTicks
Active  == {"queued", "running"}
Ended   == {"succeeded", "failed", "cancelled"}
Rows    == [status : {"absent"} \cup Active \cup Ended,
            node   : Nodes \cup {NoNode},
            lease  : Leases]

\* open is pending or in_progress, waiting any other status that is not final
TaskDone == {"done_success", "done_failed", "cancelled"}
TaskStatuses == {"open", "waiting"} \cup TaskDone

TaskDoneAlready(r) == TaskOf[r] \in Tasks /\ task[TaskOf[r]] \in TaskDone

EndedRow(s, n) == [status |-> s, node |-> n, lease |-> Expired]

(***************************************************************************)
(* Workers.  hold is the lease the server granted with its last answer,    *)
(* running down with the clock; the node's code ignores it, it is kept to  *)
(* say when the server has promised a run to this worker.                  *)
(***************************************************************************)
WorkerPcs == {"idle", "claiming", "checking", "claimed", "exec",
              "reporting", "sent", "returning"}
Outcomes  == {"none", "unprepared", "succeeded", "failed"}
Goroutines == [pc : WorkerPcs, job : Runs \cup {NoRun}, hold : Leases, outcome : Outcomes]
IdleWorker == [pc |-> "idle", job |-> NoRun, hold |-> Expired, outcome |-> "none"]

Working(w) == worker[w].pc \in {"checking", "claimed", "exec", "reporting", "sent"}
Executing(w) == worker[w].pc = "exec"

\* the lease goroutine runs from the start of the agent until executeRun returns
Renewing(w) == \/ worker[w].pc = "exec"
               \/ worker[w].pc \in {"reporting", "sent"} /\ worker[w].outcome # "unprepared"

OwnsJob(w) == run[worker[w].job].node = NodeOf[w]

\* w waits for the server or holds coord.mu for another reason
Locked(n) == \E w \in Workers : NodeOf[w] = n /\ worker[w].pc \in {"claiming", "checking"}

\* a request inside the server: where its handler stands and what it has read
Reports == [stage : {"none", "read", "judged", "settled"}, run : Runs \cup {NoRun},
            status : {"none", "succeeded", "failed"}]
Cancels == [stage : {"idle", "read", "queued", "writing queued",
                     "running", "writing running", "done"},
            scope : SUBSET Runs, listed : SUBSET Runs,
            node : [Runs -> Nodes \cup {NoNode}], due : SUBSET Runs]

NoReport == [stage |-> "none", run |-> NoRun, status |-> "none"]
NoCancel == [stage |-> "idle", scope |-> {}, listed |-> {},
             node |-> [r \in Runs |-> NoNode], due |-> {}]

Init ==
  /\ run = [r \in Runs |-> EndedRow("absent", NoNode)]
  /\ task = [t \in Tasks |-> "open"]
  /\ excused = {}
  /\ enabled = [n \in Nodes |-> TRUE]
  /\ busy = [n \in Nodes |-> {}]
  /\ worker = [w \in Workers |-> IdleWorker]
  /\ report = [w \in Workers |-> NoReport]
  /\ cancel = NoCancel
  /\ disruptions = 0

Disrupt == disruptions < MaxDisruptions /\ disruptions' = disruptions + 1

-----------------------------------------------------------------------------
(***************************************************************************)
(* The control plane queues a run.                                         *)
(***************************************************************************)
Enqueue(r) ==
  /\ run[r].status = "absent"
  /\ run' = [run EXCEPT ![r].status = "queued"]
  /\ UNCHANGED <<task, excused, enabled, busy, worker, report, cancel, disruptions>>

Disable(n) ==
  /\ enabled[n]
  /\ Disrupt
  /\ enabled' = [enabled EXCEPT ![n] = FALSE]
  /\ UNCHANGED <<run, task, excused, busy, worker, report, cancel>>

Enable(n) ==
  /\ ~enabled[n]
  /\ enabled' = [enabled EXCEPT ![n] = TRUE]
  /\ UNCHANGED <<run, task, excused, busy, worker, report, cancel, disruptions>>

(***************************************************************************)
(* Claiming.  A worker takes coord.mu, posts the claim with the list of    *)
(* busy agents and keeps the mutex until it has the answer.  A disabled    *)
(* node is refused on the row the authentication read.                     *)
(***************************************************************************)
StartClaim(w) ==
  /\ worker[w].pc = "idle"
  /\ ~Locked(NodeOf[w])
  /\ enabled[NodeOf[w]]
  /\ worker' = [worker EXCEPT ![w].pc = "claiming"]
  /\ UNCHANGED <<run, task, excused, enabled, busy, report, cancel, disruptions>>

\* variant: the lease of a running row is not compared with the clock
ClaimableWhileLeased(n) ==
  {r \in Runs : /\ run[r].status \in Active
                /\ DesiredNode[r] \in {NoNode, n}
                /\ r \in Forks \/ AgentOf[r] \notin busy[n]}

\* variant: a running row is never given out again
ClaimableOnce(n) ==
  {r \in Runs : /\ run[r].status = "queued"
                /\ DesiredNode[r] \in {NoNode, n}
                /\ r \in Forks \/ AgentOf[r] \notin busy[n]}

Claimable(n) ==
  {r \in Runs :
     /\ \/ run[r].status = "queued"
        \/ run[r].status = "running" /\ run[r].lease = Expired
     /\ DesiredNode[r] \in {NoNode, n}
     /\ r \in Forks \/ AgentOf[r] \notin busy[n]}

NextClaim(n) == {r \in Claimable(n) : \A s \in Claimable(n) : Rank[r] <= Rank[s]}

\* the ClaimRuntimeRun transaction
ClaimRun(w) ==
  /\ worker[w].pc = "claiming"
  /\ \E r \in NextClaim(NodeOf[w]) :
       /\ run' = [run EXCEPT ![r] = [status |-> "running", node |-> NodeOf[w], lease |-> LeaseTicks]]
       /\ worker' = [worker EXCEPT ![w] =
            [pc |-> "checking", job |-> r, hold |-> LeaseTicks, outcome |-> "none"]]
  /\ UNCHANGED <<task, excused, enabled, busy, report, cancel, disruptions>>

NothingToClaim(w) ==
  /\ worker[w].pc = "claiming"
  /\ Claimable(NodeOf[w]) = {}
  /\ worker' = [worker EXCEPT ![w] = IdleWorker]
  /\ UNCHANGED <<run, task, excused, enabled, busy, report, cancel, disruptions>>

\* finishClaimedRunIfTaskAlreadyTerminal writes the row it claimed back as ended
\* and the handler claims again; its ten attempts outnumber the runs of a model
SkipDoneTask(w) ==
  LET r == worker[w].job IN
  /\ worker[w].pc = "checking"
  /\ TaskDoneAlready(r)
  /\ run' = [run EXCEPT ![r] = EndedRow(
       IF task[TaskOf[r]] = "done_failed" THEN "failed" ELSE "succeeded", NodeOf[w])]
  /\ worker' = [worker EXCEPT ![w] = [IdleWorker EXCEPT !.pc = "claiming"]]
  /\ UNCHANGED <<task, excused, enabled, busy, report, cancel, disruptions>>

\* variant: the claimed agent is not added to busyAgents
HandOverUnmarked(w) ==
  /\ worker[w].pc = "checking"
  /\ ~TaskDoneAlready(worker[w].job)
  /\ worker' = [worker EXCEPT ![w].pc = "claimed"]
  /\ UNCHANGED <<run, task, excused, enabled, busy, report, cancel, disruptions>>

\* an error while the task is read or the skipped run written lets the run pass
HandOver(w) ==
  /\ worker[w].pc = "checking"
  /\ \/ ~TaskDoneAlready(worker[w].job) /\ UNCHANGED disruptions
     \/ TaskDoneAlready(worker[w].job) /\ Disrupt
  /\ worker' = [worker EXCEPT ![w].pc = "claimed"]
  /\ busy' = [busy EXCEPT ![NodeOf[w]] = @ \cup {AgentOf[worker[w].job]}]
  /\ UNCHANGED <<run, task, excused, enabled, report, cancel>>

\* the request or its answer is lost: the worker drops the mutex and polls
\* again; a run the transaction had claimed stays running, with nobody on it
LoseClaim(w) ==
  /\ worker[w].pc \in {"claiming", "checking"}
  /\ Disrupt
  /\ worker' = [worker EXCEPT ![w] = IdleWorker]
  /\ UNCHANGED <<run, task, excused, enabled, busy, report, cancel>>

-----------------------------------------------------------------------------
(***************************************************************************)
(* Executing.                                                              *)
(***************************************************************************)
ToReport(w, o) ==
  [worker EXCEPT ![w] = [pc |-> "reporting", job |-> worker[w].job,
                         hold |-> worker[w].hold, outcome |-> o]]

FetchSpec(w) ==
  LET row == run[worker[w].job] IN
  /\ worker[w].pc = "claimed"
  /\ worker' =
       IF OwnsJob(w)
       THEN [worker EXCEPT ![w].pc = IF row.status = "cancelled" THEN "returning" ELSE "exec"]
       ELSE ToReport(w, "unprepared")
  /\ UNCHANGED <<run, task, excused, enabled, busy, report, cancel, disruptions>>

\* an unsupported kind, an empty prompt, a directory that cannot be made
PrepareFails(w) ==
  /\ worker[w].pc = "claimed"
  /\ worker' = ToReport(w, "unprepared")
  /\ UNCHANGED <<run, task, excused, enabled, busy, report, cancel, disruptions>>

\* variant: the UPDATE does not compare runtime_node_id
RenewLeaseOfAnyNode(w) ==
  LET r == worker[w].job IN
  /\ Renewing(w)
  /\ run[r].status = "running"
  /\ run' = [run EXCEPT ![r].lease = LeaseTicks]
  /\ worker' = [worker EXCEPT ![w].hold = LeaseTicks]
  /\ UNCHANGED <<task, excused, enabled, busy, report, cancel, disruptions>>

\* variant: the row is written back as running without comparing its status
RenewLeaseOfAnyStatus(w) ==
  LET r == worker[w].job IN
  /\ Renewing(w) /\ OwnsJob(w)
  /\ run' = [run EXCEPT ![r] = [status |-> "running", node |-> NodeOf[w], lease |-> LeaseTicks]]
  /\ worker' = [worker EXCEPT ![w].hold = LeaseTicks]
  /\ UNCHANGED <<task, excused, enabled, busy, report, cancel, disruptions>>

\* the lease request of the ticker: only the node id and the status are checked
RenewLease(w) ==
  LET r == worker[w].job IN
  /\ Renewing(w)
  /\ OwnsJob(w) /\ run[r].status = "running"
  /\ run' = [run EXCEPT ![r].lease = LeaseTicks]
  /\ worker' = [worker EXCEPT ![w].hold = LeaseTicks]
  /\ UNCHANGED <<task, excused, enabled, busy, report, cancel, disruptions>>

\* the same request answered with cancelled: the agent is stopped, nothing is reported
LearnCancelled(w) ==
  /\ Executing(w)
  /\ OwnsJob(w) /\ run[worker[w].job].status = "cancelled"
  /\ worker' = [worker EXCEPT ![w].pc = "returning"]
  /\ UNCHANGED <<run, task, excused, enabled, busy, report, cancel, disruptions>>

AgentStops(w, o) ==
  /\ Executing(w)
  /\ worker' = ToReport(w, o)
  /\ UNCHANGED <<run, task, excused, enabled, busy, report, cancel, disruptions>>

\* the agent settles or parks its own task through the runtime API, whatever its
\* status has become meanwhile
AgentUpdatesTask(w, s) ==
  LET t == TaskOf[worker[w].job] IN
  /\ Executing(w)
  /\ t \in Tasks
  /\ task' = [task EXCEPT ![t] = s]
  /\ UNCHANGED <<run, excused, enabled, busy, worker, report, cancel, disruptions>>

\* a person confirms or edits the task, or its workflow moves on
ReopenTask(t) ==
  /\ task[t] # "open"
  /\ Disrupt
  /\ task' = [task EXCEPT ![t] = "open"]
  /\ excused' = excused \cup {t}
  /\ UNCHANGED <<run, enabled, busy, worker, report, cancel>>

Return(w) ==
  /\ worker[w].pc = "returning"
  /\ ~Locked(NodeOf[w])
  /\ busy' = [busy EXCEPT ![NodeOf[w]] = @ \ {AgentOf[worker[w].job]}]
  /\ worker' = [worker EXCEPT ![w] = IdleWorker]
  /\ UNCHANGED <<run, task, excused, enabled, report, cancel, disruptions>>

-----------------------------------------------------------------------------
(***************************************************************************)
(* Reporting: finishRuntimeNodeRun reads the row, settles the task from    *)
(* one read of it, and writes the whole row back.                          *)
(***************************************************************************)
Answer(w) == IF worker[w].pc = "sent" THEN [worker EXCEPT ![w].pc = "returning"] ELSE worker

ReadRun(w) ==
  LET r == worker[w].job IN
  /\ worker[w].pc = "reporting"
  /\ report[w] = NoReport
  /\ IF OwnsJob(w)
     THEN /\ report' = [report EXCEPT ![w] =
               [stage |-> "read", run |-> r,
                status |-> IF worker[w].outcome = "succeeded" THEN "succeeded" ELSE "failed"]]
          /\ worker' = [worker EXCEPT ![w].pc = "sent"]
     ELSE /\ worker' = [worker EXCEPT ![w].pc = "returning"]
          /\ UNCHANGED report
  /\ UNCHANGED <<run, task, excused, enabled, busy, cancel, disruptions>>

\* variant: the task of a workflow is left to the workflow
JudgeOwnTask(w) ==
  LET r == report[w].run
      settles == /\ TaskOf[r] \in Tasks \ WorkflowTasks
                 /\ r \notin ForkKind /\ task[TaskOf[r]] = "open"
  IN
  /\ report[w].stage = "read"
  /\ report' = [report EXCEPT ![w].stage = IF settles THEN "judged" ELSE "settled"]
  /\ UNCHANGED <<run, task, excused, enabled, busy, worker, cancel, disruptions>>

\* finalizeRuntimeTaskRun decides on the task as it is now, or gives up when it
\* cannot be read ...
JudgeTask(w) ==
  LET r == report[w].run
      settles == TaskOf[r] \in Tasks /\ r \notin ForkKind /\ task[TaskOf[r]] = "open"
  IN
  /\ report[w].stage = "read"
  /\ \/ /\ report' = [report EXCEPT ![w].stage = IF settles THEN "judged" ELSE "settled"]
        /\ UNCHANGED <<excused, disruptions>>
     \/ /\ settles /\ Disrupt
        /\ report' = [report EXCEPT ![w].stage = "settled"]
        /\ excused' = excused \cup {TaskOf[r]}
  /\ UNCHANGED <<run, task, enabled, busy, worker, cancel>>

\* ... and archives it with the verdict: a workflow step the agent did not
\* complete fails both the task and the run.  An error of ArchiveTask is dropped.
SettleTask(w) ==
  LET t == TaskOf[report[w].run]
      verdict == IF t \in WorkflowTasks THEN "failed" ELSE report[w].status
  IN
  /\ report[w].stage = "judged"
  /\ report' = [report EXCEPT ![w] =
       [stage |-> "settled", run |-> report[w].run, status |-> verdict]]
  /\ \/ /\ task' = [task EXCEPT ![t] = IF verdict = "failed" THEN "done_failed" ELSE "done_success"]
        /\ UNCHANGED <<excused, disruptions>>
     \/ /\ Disrupt
        /\ excused' = excused \cup {t}
        /\ UNCHANGED task
  /\ UNCHANGED <<run, enabled, busy, worker, cancel>>

WriteRun(w) ==
  /\ report[w].stage = "settled"
  /\ run' = [run EXCEPT ![report[w].run] = EndedRow(report[w].status, NodeOf[w])]
  /\ report' = [report EXCEPT ![w] = NoReport]
  /\ worker' = Answer(w)
  /\ UNCHANGED <<task, excused, enabled, busy, cancel, disruptions>>

\* the request never arrives; the node does not try again
LoseReport(w) ==
  /\ worker[w].pc = "reporting"
  /\ Disrupt
  /\ worker' = [worker EXCEPT ![w].pc = "returning"]
  /\ UNCHANGED <<run, task, excused, enabled, busy, report, cancel>>

\* the client's 60 s pass; the handler goes on
ReportTimesOut(w) ==
  /\ worker[w].pc = "sent"
  /\ Disrupt
  /\ worker' = Answer(w)
  /\ UNCHANGED <<run, task, excused, enabled, busy, report, cancel>>

\* a database error or a crash of the server ends the handler where it is
ReportFails(w) ==
  /\ report[w].stage # "none"
  /\ Disrupt
  /\ report' = [report EXCEPT ![w] = NoReport]
  /\ worker' = Answer(w)
  /\ UNCHANGED <<run, task, excused, enabled, busy, cancel>>

NodeCrash(n) ==
  /\ \E w \in Workers : NodeOf[w] = n /\ worker[w].pc # "idle"
  /\ Disrupt
  /\ worker' = [w \in Workers |-> IF NodeOf[w] = n THEN IdleWorker ELSE worker[w]]
  /\ busy' = [busy EXCEPT ![n] = {}]
  /\ UNCHANGED <<run, task, excused, enabled, report, cancel>>

-----------------------------------------------------------------------------
(***************************************************************************)
(* Cancelling: a task (handlePostCancelTask) or everything of an agent     *)
(* (handleSchedulerAbort).  Queued rows are listed and overwritten one by  *)
(* one, then the running ones; the rows written are the ones listed.       *)
(***************************************************************************)
ReadTaskToCancel(t) ==
  /\ cancel.stage = "idle"
  /\ task[t] \notin TaskDone
  /\ Disrupt
  /\ cancel' = [cancel EXCEPT !.stage = "read", !.scope = {r \in Runs : TaskOf[r] = t}]
  /\ UNCHANGED <<run, task, excused, enabled, busy, worker, report>>

ActiveIn(scope) == {r \in scope : run[r].status \in Active}

CancelTask(t) ==
  /\ cancel.stage = "read"
  /\ cancel.scope = {r \in Runs : TaskOf[r] = t}
  /\ task' = [task EXCEPT ![t] = "cancelled"]
  /\ cancel' = [cancel EXCEPT !.stage = "queued", !.due = ActiveIn(cancel.scope)]
  /\ UNCHANGED <<run, excused, enabled, busy, worker, report, disruptions>>

AbortAgent(a) ==
  LET scope == {r \in Runs : AgentOf[r] = a} IN
  /\ cancel.stage = "idle"
  /\ Disrupt
  /\ cancel' = [cancel EXCEPT !.stage = "queued", !.scope = scope, !.due = ActiveIn(scope)]
  /\ UNCHANGED <<run, task, excused, enabled, busy, worker, report>>

\* variant: the listing stops at its limit, here of one row
ListRunsUpToLimit ==
  LET all == {r \in cancel.scope : run[r].status = cancel.stage} IN
  /\ cancel.stage \in {"queued", "running"}
  /\ \E found \in SUBSET all :
       /\ Cardinality(found) = IF all = {} THEN 0 ELSE 1
       /\ cancel' = [cancel EXCEPT
            !.stage = IF cancel.stage = "queued" THEN "writing queued" ELSE "writing running",
            !.listed = found,
            !.node = [r \in Runs |-> IF r \in found THEN run[r].node ELSE NoNode]]
  /\ UNCHANGED <<run, task, excused, enabled, busy, worker, report, disruptions>>

\* stage "queued" lists the queued rows, stage "running" the running ones
ListRuns ==
  LET found == {r \in cancel.scope : run[r].status = cancel.stage} IN
  /\ cancel.stage \in {"queued", "running"}
  /\ cancel' = [cancel EXCEPT
       !.stage = IF cancel.stage = "queued" THEN "writing queued" ELSE "writing running",
       !.listed = found,
       !.node = [r \in Runs |-> IF r \in found THEN run[r].node ELSE NoNode]]
  /\ UNCHANGED <<run, task, excused, enabled, busy, worker, report, disruptions>>

WriteCancelled(r) ==
  /\ r \in cancel.listed
  /\ run' = [run EXCEPT ![r] = EndedRow("cancelled", cancel.node[r])]
  /\ cancel' = [cancel EXCEPT !.listed = @ \ {r}]
  /\ UNCHANGED <<task, excused, enabled, busy, worker, report, disruptions>>

AllWritten ==
  /\ cancel.stage \in {"writing queued", "writing running"} /\ cancel.listed = {}
  /\ cancel' = [cancel EXCEPT
       !.stage = IF cancel.stage = "writing queued" THEN "running" ELSE "done",
       !.node = [r \in Runs |-> NoNode]]
  /\ UNCHANGED <<run, task, excused, enabled, busy, worker, report, disruptions>>

AnswerCancel ==
  /\ cancel.stage = "done"
  /\ cancel' = NoCancel
  /\ UNCHANGED <<run, task, excused, enabled, busy, worker, report, disruptions>>

\* a database error ends the handler with what it has written so far
CancelFails ==
  /\ cancel.stage \notin {"idle", "done"}
  /\ Disrupt
  /\ cancel' = NoCancel
  /\ UNCHANGED <<run, task, excused, enabled, busy, worker, report>>

-----------------------------------------------------------------------------
(***************************************************************************)
(* Time.  The lease is renewed every 30 s of its 90, and a request takes   *)
(* less than 60 s, so a tick does not overtake a worker that holds its     *)
(* run's last tick, except in Stall: a suspended or disconnected node.     *)
(***************************************************************************)
RunDown(l) == IF l = Expired THEN Expired ELSE l - 1

TimePasses ==
  /\ run' = [r \in Runs |-> [run[r] EXCEPT !.lease = RunDown(@)]]
  /\ worker' = [w \in Workers |-> [worker[w] EXCEPT !.hold = RunDown(@)]]

OnTime == \A w \in Workers :
  ~(Working(w) /\ worker[w].hold = 0 /\ OwnsJob(w) /\ run[worker[w].job].status = "running")

Tick ==
  /\ OnTime
  /\ TimePasses
  /\ UNCHANGED <<task, excused, enabled, busy, report, cancel, disruptions>>

Stall ==
  /\ ~OnTime
  /\ Disrupt
  /\ TimePasses
  /\ UNCHANGED <<task, excused, enabled, busy, report, cancel>>

-----------------------------------------------------------------------------
WorkerStep(w) ==
  \/ StartClaim(w) \/ ClaimRun(w) \/ NothingToClaim(w) \/ SkipDoneTask(w)
  \/ HandOver(w) \/ LoseClaim(w) \/ FetchSpec(w) \/ PrepareFails(w)
  \/ RenewLease(w) \/ LearnCancelled(w) \/ Return(w)
  \/ \E o \in {"succeeded", "failed"} : AgentStops(w, o)
  \/ \E s \in TaskStatuses \ {"open"} : AgentUpdatesTask(w, s)

ReportStep(w) ==
  \/ ReadRun(w) \/ JudgeTask(w) \/ SettleTask(w) \/ WriteRun(w)
  \/ LoseReport(w) \/ ReportTimesOut(w) \/ ReportFails(w)

CancelStep ==
  \/ \E t \in Tasks : ReadTaskToCancel(t) \/ CancelTask(t)
  \/ \E a \in Agents : AbortAgent(a)
  \/ ListRuns \/ AllWritten \/ AnswerCancel \/ CancelFails
  \/ \E r \in Runs : WriteCancelled(r)

Next ==
  \/ \E r \in Runs : Enqueue(r)
  \/ \E n \in Nodes : Disable(n) \/ Enable(n) \/ NodeCrash(n)
  \/ \E w \in Workers : WorkerStep(w) \/ ReportStep(w)
  \/ \E t \in Tasks : ReopenTask(t)
  \/ CancelStep
  \/ Tick \/ Stall

Spec == Init /\ [][Next]_vars

(***************************************************************************)
(* Every goroutine that can move does; coord.mu is granted in turn (Go's   *)
(* mutex starves nobody), so the two steps that wait for it are strongly   *)
(* fair; the agent process ends; the clock advances.                       *)
(***************************************************************************)
WorkerFairness(w) ==
  /\ SF_vars(StartClaim(w)) /\ SF_vars(Return(w))
  /\ WF_vars(ClaimRun(w) \/ NothingToClaim(w) \/ SkipDoneTask(w) \/ HandOver(w))
  /\ WF_vars(FetchSpec(w)) /\ WF_vars(RenewLease(w))
  /\ WF_vars(\E o \in {"succeeded", "failed"} : AgentStops(w, o))
  /\ WF_vars(ReadRun(w) \/ JudgeTask(w) \/ SettleTask(w) \/ WriteRun(w))

Fairness == WF_vars(Tick) /\ \A w \in Workers : WorkerFairness(w)

FairSpec == Spec /\ Fairness

-----------------------------------------------------------------------------
(***************************************************************************)
(* Properties                                                              *)
(***************************************************************************)
TypeOK ==
  /\ run \in [Runs -> Rows]
  /\ task \in [Tasks -> TaskStatuses]
  /\ excused \subseteq Tasks \cup {NoTask}
  /\ enabled \in [Nodes -> BOOLEAN]
  /\ busy \in [Nodes -> SUBSET Agents]
  /\ worker \in [Workers -> Goroutines]
  /\ \A w \in Workers : worker[w].pc \notin {"idle", "claiming"} => worker[w].job \in Runs
  /\ report \in [Workers -> Reports]
  /\ \A w \in Workers : report[w].stage # "none" =>
       report[w].run \in Runs /\ report[w].status # "none"
  /\ cancel \in Cancels
  /\ disruptions \in 0 .. MaxDisruptions

\* Two nodes are never both entitled to the same run: while the lease a worker
\* was granted lasts, ClaimRuntimeRun gives the run to no other node, whatever
\* renewals, late reports and cancellations cross it.
LeaseExclusive ==
  \A v, w \in Workers :
    /\ Working(v) /\ Working(w) /\ worker[v].job = worker[w].job
    /\ worker[v].hold # Expired /\ worker[w].hold # Expired
    => NodeOf[v] = NodeOf[w]

\* A node's busyAgents list keeps it from working for one agent twice at a time,
\* fork sessions apart, for the agents in a set.
MainRunsExclusive(agents) ==
  \A v, w \in Workers :
    /\ v # w /\ NodeOf[v] = NodeOf[w] /\ Working(v) /\ Working(w)
    /\ worker[v].job \notin Forks /\ worker[w].job \notin Forks
    /\ AgentOf[worker[v].job] \in agents
    => AgentOf[worker[v].job] # AgentOf[worker[w].job]

\* It holds for the agents that have no fork session: two workers of a node
\* never run the same agent, even around lost answers and expired leases.
BusyAgentExclusive == MainRunsExclusive({a \in Agents : \A r \in Forks : AgentOf[r] # a})

\* The same for every agent: a second main run never starts beside the first,
\* though a fork session of the agent runs on the node too (its return deletes
\* the agent's only key).
AllMainRunsExclusive == MainRunsExclusive(Agents)

\* The list names nobody for nothing: for every agent in a node's busyAgents a
\* worker of the node has been handed a run of that agent and has yet to return
\* from it, whatever claims, reports and cancellations failed on the way; a key
\* left behind would keep the agent's runs from the node for as long as its
\* process lives (runtime_node.go:288 and 292).
BusyKeysLive ==
  \A n \in Nodes : \A a \in busy[n] :
    \E w \in Workers :
      /\ NodeOf[w] = n /\ worker[w].pc \notin {"idle", "claiming", "checking"}
      /\ AgentOf[worker[w].job] = a

\* When a cancel request is answered, every run that was queued or running in
\* its scope when it began is over: a run claimed between the two listings is
\* caught by one of them.
CancelMissesNothing ==
  cancel.stage = "done" => \A r \in cancel.due : run[r].status \in Ended

\* A run reported as ended has settled its task: wherever a handler stops,
\* there is no finished run whose task is left open, unless somebody moved
\* the task back, the task store lost the verdict, or the run is a fork
\* session's, which does not own its task.
EndedRunSettlesTask ==
  \A r \in Runs \ ForkKind :
    /\ run[r].status \in {"succeeded", "failed"}
    /\ TaskOf[r] \in Tasks \ excused
    => task[TaskOf[r]] # "open"

\* Every queued run ends, unless the nodes that may take it are disabled: lost
\* answers, crashes, stalls and busy agents only delay it.
EligibleNodes(r) == {n \in Nodes : DesiredNode[r] \in {NoNode, n} /\ \E w \in Workers : NodeOf[w] = n}

QueuedEventuallyEnds ==
  \A r \in Runs :
    run[r].status = "queued" ~>
      run[r].status \in Ended \/ \A n \in EligibleNodes(r) : ~enabled[n]

(***************************************************************************)
(* The queue implements the ledger of RunLedger: a running row whose lease *)
(* has not expired entitles its node, an expired one nobody.               *)
(***************************************************************************)
LedgerPhase(row) ==
  IF row.status = "absent" THEN "none"
  ELSE IF row.status \in Ended THEN "over"
  ELSE IF row.status = "running" /\ row.lease # Expired THEN "held" ELSE "waiting"

LedgerEntry(row) == [phase |-> LedgerPhase(row),
                     holder |-> IF LedgerPhase(row) = "held" THEN row.node ELSE NoNode]

Ledger == INSTANCE RunLedger WITH
  ledger <- [r \in Runs |-> LedgerEntry(run[r])],
  Eligible <- [r \in Runs |-> {n \in Nodes : DesiredNode[r] \in {NoNode, n}}]

\* No run is entitled to two nodes, moved while its lease lasts, given to a node
\* it does not name, or revived once it is over: late reports, stale rows and
\* renewals after expiry included.
KeepsLedger == Ledger!Spec

(***************************************************************************)
(* The inductive invariant behind LeaseExclusive and KeepsLedger.          *)
(***************************************************************************)
\* a row somebody works on, reports or is about to cancel was queued and, but
\* for the last, has been claimed
RowsKnown ==
  /\ \A w \in Workers : worker[w].pc \notin {"idle", "claiming"} =>
       run[worker[w].job].status \notin {"absent", "queued"}
  /\ \A w \in Workers : report[w].stage # "none" =>
       run[report[w].run].status \notin {"absent", "queued"}
  /\ \A r \in cancel.listed : run[r].status # "absent"

\* a running row names an eligible node
RunningEligible ==
  \A r \in Runs : run[r].status = "running" =>
    run[r].node \in Nodes /\ DesiredNode[r] \in {NoNode, run[r].node}

\* a worker's grant outlives neither the row's lease nor its ownership
GrantBacked ==
  \A w \in Workers :
    /\ Working(w) /\ worker[w].hold # Expired
    /\ run[worker[w].job].status = "running"
    => OwnsJob(w) /\ worker[w].hold <= run[worker[w].job].lease

\* What every reachable state satisfies so that no step can break the two.
QueueInv == TypeOK /\ RowsKnown /\ RunningEligible /\ GrantBacked /\ LeaseExclusive

=============================================================================
