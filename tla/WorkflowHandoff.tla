--------------------------- MODULE WorkflowHandoff ---------------------------
(***************************************************************************)
(* One task bound to a workflow: the rows of the workflow engine           *)
(* (internal/workflow/store.go) and the handlers of internal/api that move *)
(* the task from actor to actor.  A handler reads rows, writes whole rows  *)
(* it read earlier, and holds no lock in between: each database call whose *)
(* order matters is an action, and handlers interleave.                    *)
(***************************************************************************)
EXTENDS Naturals, FiniteSets

CONSTANTS
  Steps,        \* steps of the definition snapshot
  StartStep,    \* its start step
  Parallel,     \* the steps of type parallel_stage
  AnyJoin,      \* the parallel stages whose join policy is "any"
  NoStep,       \* empty ActiveStepID
  Agents,       \* project agents
  People,       \* human reviewers
  ActorOf,      \* [Steps -> Agents \cup People], the bound actors
  Outcomes,     \* what an output can say, as far as edges tell it apart
  Failed,       \* the outcome of a step reported as failed
  Edge,         \* [Steps -> [Outcomes -> Steps \cup {End, NoMatch}]]
  End,          \* no outgoing edge, or an edge that leads to no step
  NoMatch,      \* outgoing edges, none of which matches
  Branches,     \* branches of the parallel stages
  StageOf,      \* [Branches -> Parallel]
  NoBranch,
  Requests,     \* handlers that run at the same time
  MaxExtra      \* bound: calls beyond the plain course of the workflow

ASSUME StepAssumption ==
  /\ StartStep \in Steps
  /\ Parallel \subseteq Steps
  /\ AnyJoin \subseteq Parallel
  /\ NoStep \notin Steps
  /\ Agents \cap People = {}
  /\ ActorOf \in [Steps -> Agents \cup People]

ASSUME EdgeAssumption ==
  /\ Failed \notin Outcomes
  /\ {End, NoMatch, NoStep} \cap Steps = {}
  /\ End # NoMatch
  /\ Edge \in [Steps -> [Outcomes -> Steps \cup {End, NoMatch}]]

ASSUME BranchAssumption ==
  /\ StageOf \in [Branches -> Parallel]
  /\ NoBranch \notin Branches
  /\ MaxExtra \in Nat

VARIABLES
  run,      \* the row of workflow_runs: status and active step
  inst,     \* status of the rows of workflow_step_instances
  events,   \* the rows of workflow_step_events
  branch,   \* status of the rows of workflow_branch_instances
  task,     \* the task's record in each agent's queue
  btask,    \* the branches' child tasks
  inbox,    \* people who have an inbox item of the task
  card,     \* the review card of a step
  arun,     \* the runtime run of the task with each agent
  req,      \* the handlers under way
  did,      \* agents that completed a step in their present run (history)
  done,     \* branches ever saved as completed (history)
  plain,    \* no handlers overlapped, none was cut short, and no start lost
            \* its run (history)
  extra     \* calls beyond the plain course so far (bounded by MaxExtra)

rows == <<run, inst, events, branch>>
tasks == <<task, btask, inbox, card>>
history == <<did, done>>
vars == <<rows, tasks, arun, req, history, plain, extra>>

-----------------------------------------------------------------------------
(* Records *)

RunRow == [status : {"none", "active", "completed", "failed", "cancelled"},
           active : Steps \cup {NoStep}]

NoActor == NoStep

TaskRow == [status : {"none", "pending", "in_progress", "awaiting_confirmation",
                      "blocked", "done_success", "done_failed", "cancelled"},
            assignee : Agents \cup People \cup {NoActor}]

NoTask == [status |-> "none", assignee |-> NoActor]

Terminal(t) == t.status \in {"done_success", "done_failed", "cancelled"}

BranchStatus == {"none", "running", "completed", "failed", "skipped"}

NoBranches == [b \in Branches |-> "none"]

Idle == [kind |-> "none", pc |-> "idle", agent |-> NoActor, copy |-> NoTask,
         wf |-> [status |-> "none", active |-> NoStep], outcome |-> Failed,
         branch |-> NoBranch, list |-> NoBranches, joined |-> FALSE,
         step |-> NoStep, card |-> FALSE]

Kinds == {"none", "start", "done", "review", "branch", "cancel", "view", "settle"}

Places == {"idle", "start", "enqueue", "read", "instance", "run", "next", "unbox", "archive",
           "parent", "block", "close", "place", "spawn", "row", "drop", "queue",
           "notify", "check", "list", "save", "skip", "persist", "clear",
           "cancelRead", "cancelRun", "cancelStep", "cancelRuns",
           "reread", "resave", "find", "move", "fail", "report"}

ReqRow == [kind : Kinds, pc : Places, agent : Agents \cup {NoActor},
           copy : TaskRow, wf : RunRow, outcome : Outcomes \cup {Failed},
           branch : Branches \cup {NoBranch}, list : [Branches -> BranchStatus],
           joined : BOOLEAN, step : Steps \cup {NoStep}, card : BOOLEAN]

TypeOK ==
  /\ run \in RunRow
  /\ inst \in [Steps -> {"pending", "completed", "failed", "cancelled"}]
  /\ events \subseteq [step : Steps, outcome : Outcomes \cup {Failed}]
  /\ branch \in [Branches -> BranchStatus]
  /\ task \in [Agents -> TaskRow]
  /\ btask \in [Branches -> {"none", "open", "closed"}]
  /\ inbox \subseteq People
  /\ card \in [Steps -> {"none", "sent", "acted"}]
  /\ arun \in [Agents -> {"none", "queued", "running", "settling"}]
  /\ req \in [Requests -> ReqRow]
  /\ did \subseteq Agents
  /\ done \subseteq Branches
  /\ plain \in BOOLEAN
  /\ extra \in 0..MaxExtra

\* The task has been created for the actor of the start step; the person who
\* created it, or the scheduler, starts it.
Init ==
  /\ run = [status |-> "active", active |-> StartStep]
  /\ inst = [s \in Steps |-> "pending"]
  /\ events = {}
  /\ branch = NoBranches
  /\ task = [a \in Agents |->
               IF a = ActorOf[StartStep]
                 THEN [status |-> "pending", assignee |-> a] ELSE NoTask]
  /\ btask = [b \in Branches |-> "none"]
  /\ inbox = {}
  /\ card = [s \in Steps |-> "none"]
  /\ arun = [a \in Agents |-> "none"]
  /\ req = [q \in Requests |-> Idle]
  /\ did = {}
  /\ done = {}
  /\ plain = TRUE
  /\ extra = 0

-----------------------------------------------------------------------------
(* How handlers start, go on and end *)

Quiet == \A q \in Requests : req[q].kind = "none"

At(q, kinds, pc) == req[q].kind \in kinds /\ req[q].pc = pc

Completions == {"done", "review", "branch"}

\* A call is expected when it belongs to the plain course of the workflow and
\* no other is under way; all others count against MaxExtra.
Begin(q, expected, r) ==
  /\ req[q].kind = "none"
  /\ req' = [req EXCEPT ![q] = r]
  /\ plain' = (plain /\ Quiet)
  /\ extra' = IF expected /\ Quiet THEN extra ELSE extra + 1
  /\ extra' <= MaxExtra

Goto(q, pc) == req' = [req EXCEPT ![q].pc = pc]

Return(q) == req' = [req EXCEPT ![q] = Idle]

HasTask(a) == task[a].status # "none"

Put(a, status, who) ==
  task' = [task EXCEPT ![a] = [status |-> status, assignee |-> who]]

\* PersistTask and UpdateTask refuse a record that is not there any more.
Persist(q, a, status, who, pc) ==
  IF HasTask(a) THEN Put(a, status, who) /\ Goto(q, pc)
                ELSE UNCHANGED task /\ Return(q)

\* A card that was answered is marked when the handler is through.
MarkCard(q) ==
  card' = IF req[q].card THEN [card EXCEPT ![req[q].step] = "acted"] ELSE card

RemoveFromInbox ==
  IF inbox = {} THEN UNCHANGED inbox
                ELSE \E p \in inbox : inbox' = inbox \ {p}

-----------------------------------------------------------------------------
(* The agents' runs of the task: RuntimeQueue has their protocol *)

\* The scheduler's tick, or a person's manual start, takes a pending task ...
CallStart(q, a) ==
  /\ task[a].status = "pending"
  /\ arun[a] = "none"
  /\ Begin(q, TRUE, [Idle EXCEPT !.kind = "start", !.pc = "start",
                       !.agent = a, !.copy = task[a]])
  /\ UNCHANGED <<rows, tasks, arun, history>>

\* ... and writes it, in progress ...
StartTask(q) ==
  /\ At(q, {"start"}, "start")
  /\ Persist(q, req[q].agent, "in_progress", req[q].copy.assignee, "enqueue")
  /\ UNCHANGED <<rows, btask, inbox, card, arun, history, plain, extra>>

\* ... then a run is enqueued; one beside a run that is queued or running counts
\* as that one.
EnqueueRun(q) ==
  /\ At(q, Completions \cup {"start"}, "enqueue")
  /\ arun' = [arun EXCEPT ![req[q].agent] =
                IF @ \in {"none", "settling"} THEN "queued" ELSE @]
  /\ MarkCard(q)
  /\ Return(q)
  /\ UNCHANGED <<rows, task, btask, inbox, history, plain, extra>>

\* variant: the task is not put back
EnqueueAbandoned(q) ==
  /\ At(q, Completions \cup {"start"}, "enqueue")
  /\ extra < MaxExtra
  /\ extra' = extra + 1
  /\ Return(q)
  /\ UNCHANGED <<rows, tasks, arun, history, plain>>

\* The enqueue fails: a manual start and a handover put the task back ...
EnqueueUndone(q) ==
  /\ At(q, Completions \cup {"start"}, "enqueue")
  /\ extra < MaxExtra
  /\ extra' = extra + 1
  /\ IF HasTask(req[q].agent)
       THEN Put(req[q].agent, "pending", req[q].copy.assignee)
       ELSE UNCHANGED task
  /\ Return(q)
  /\ UNCHANGED <<rows, btask, inbox, card, arun, history, plain>>

\* ... and the tick leaves it as it is, in progress.
StartStrands(q) ==
  /\ At(q, {"start"}, "enqueue")
  /\ extra < MaxExtra
  /\ extra' = extra + 1
  /\ plain' = FALSE
  /\ Return(q)
  /\ UNCHANGED <<rows, tasks, arun, history>>

ClaimRun(a) ==
  /\ arun[a] = "queued"
  /\ arun' = [arun EXCEPT ![a] = "running"]
  /\ did' = did \ {a}
  /\ UNCHANGED <<rows, tasks, req, done, plain, extra>>

NotCompleted(t) == t.status \in {"pending", "in_progress"}

\* The agent's process has ended and the node reports: finalizeRuntimeTaskRun
\* reads the task in the agent's queue.
ReportRun(q, a) ==
  /\ arun[a] = "running"
  /\ Begin(q, a \in did,
           [Idle EXCEPT !.kind = "settle", !.agent = a, !.copy = task[a],
              !.pc = IF NotCompleted(task[a]) THEN "fail" ELSE "report"])
  /\ arun' = [arun EXCEPT ![a] = "settling"]
  /\ UNCHANGED <<rows, tasks, history>>

\* ... and a workflow task that is pending or in progress is taken for a step
\* that was not completed, and archived as failed,
FailTask(q) ==
  /\ At(q, {"settle"}, "fail")
  /\ Put(req[q].agent, "done_failed", req[q].copy.assignee)
  /\ Goto(q, "report")
  /\ UNCHANGED <<rows, btask, inbox, card, arun, history, plain, extra>>

\* ... then the run's row is written.
EndRun(q) ==
  /\ At(q, {"settle"}, "report")
  /\ arun' = [arun EXCEPT ![req[q].agent] = IF @ = "settling" THEN "none" ELSE @]
  /\ Return(q)
  /\ UNCHANGED <<rows, tasks, history, plain, extra>>

\* The run of a branch's agent ends without having completed the branch: the
\* same settlement closes the child task.
EndBranchRun(b) ==
  /\ btask[b] = "open"
  /\ extra < MaxExtra
  /\ btask' = [btask EXCEPT ![b] = "closed"]
  /\ extra' = extra + 1
  /\ UNCHANGED <<rows, task, inbox, card, arun, req, history, plain>>

-----------------------------------------------------------------------------
(* Calls that complete a step *)

\* mga task step done, by an agent in its run: the task is looked up in the
\* agent's queue; no step is named.
CallStepDone(q, a, o) ==
  /\ arun[a] = "running"
  /\ HasTask(a)
  /\ Begin(q, /\ run.active \in Steps \ Parallel
              /\ ActorOf[run.active] = a
              /\ task[a].status = "in_progress",
           [Idle EXCEPT !.kind = "done", !.pc = "read", !.agent = a,
              !.copy = task[a], !.outcome = o])
  /\ UNCHANGED <<rows, tasks, arun, history>>

\* A person answers on the task's page: one who has an inbox item for the active
\* step, or anybody at any time, since the handler looks at neither ...
CallReview(q, a, o) ==
  /\ HasTask(a)
  /\ Begin(q, run.active # NoStep /\ ActorOf[run.active] \in inbox,
           [Idle EXCEPT !.kind = "review", !.pc = "read", !.agent = a,
              !.copy = task[a], !.outcome = o])
  /\ UNCHANGED <<rows, tasks, arun, history>>

\* ... or on the card that was sent for s and that nobody has acted on.
CallCard(q, a, s, o) ==
  /\ card[s] = "sent"
  /\ HasTask(a)
  /\ Begin(q, run.active = s,
           [Idle EXCEPT !.kind = "review", !.pc = "read", !.agent = a,
              !.copy = task[a], !.outcome = o, !.step = s, !.card = TRUE])
  /\ UNCHANGED <<rows, tasks, arun, history>>

\* RunForTask and ListStepInstances: the transition is computed from this copy.
ReadRun(q) ==
  /\ At(q, Completions, "read")
  /\ IF run.active # NoStep
       THEN req' = [req EXCEPT ![q].wf = run, ![q].pc = "instance"]
       ELSE CASE req[q].kind = "done" -> Return(q)
              [] req[q].kind = "review" -> Goto(q, "unbox")
              [] req[q].kind = "branch" -> Goto(q, "archive")
  /\ UNCHANGED <<rows, tasks, arun, history, plain, extra>>

StatusOf(o) == IF o = Failed THEN "failed" ELSE "completed"

\* The active step's instance and its event are saved.
SaveInstance(q) ==
  /\ At(q, Completions, "instance")
  /\ LET s == req[q].wf.active  o == req[q].outcome IN
       /\ inst' = [inst EXCEPT ![s] = StatusOf(o)]
       /\ events' = events \cup {[step |-> s, outcome |-> o]}
  /\ Goto(q, "run")
  /\ UNCHANGED <<run, branch, tasks, arun, history, plain, extra>>

\* Where a completion goes once the engine has made its transition.
AfterTransition(q) ==
  CASE req[q].kind = "review" -> "unbox"
    [] req[q].kind = "branch" -> "archive"
    [] OTHER -> IF req[q].pc = "next" THEN "place" ELSE "close"

\* variant: a failed step takes the edge of some successful output
FailedFollowsEdge(s, o) == Edge[s][IF o = Failed THEN CHOOSE d \in Outcomes : TRUE
                                                 ELSE o]

Target(s, o) == IF o = Failed THEN End ELSE Edge[s][o]

Matches(s, o) == Target(s, o) # NoMatch

\* The run's row is written: it ends, or its active step is the edge's target.
SaveRun(q) ==
  /\ At(q, Completions, "run")
  /\ LET s == req[q].wf.active
         o == req[q].outcome
         new == IF Target(s, o) = End
                  THEN [status |-> StatusOf(o), active |-> NoStep]
                  ELSE [req[q].wf EXCEPT !.active = Target(s, o)]
     IN IF ~Matches(s, o)
          THEN Return(q) /\ UNCHANGED <<run, did>>
          ELSE /\ run' = new
               /\ req' = [req EXCEPT ![q].wf = new,
                            ![q].pc = IF Target(s, o) = End
                                        THEN AfterTransition(q) ELSE "next"]
               /\ did' = IF req[q].kind = "done" THEN did \cup {req[q].agent}
                                                 ELSE did
  /\ UNCHANGED <<inst, events, branch, tasks, arun, done, plain, extra>>

\* The next step's instance is opened.
OpenNext(q) ==
  /\ At(q, Completions, "next")
  /\ inst' = [inst EXCEPT ![req[q].wf.active] = "pending"]
  /\ Goto(q, AfterTransition(q))
  /\ UNCHANGED <<run, events, branch, tasks, arun, history, plain, extra>>

Ended(q) == req[q].wf.status \in {"completed", "failed"}

\* A review removes the first inbox item it finds of the task; one that found
\* no active step stops here.
Unbox(q) ==
  /\ At(q, {"review"}, "unbox")
  /\ RemoveFromInbox
  /\ IF req[q].wf.status = "none"
       THEN MarkCard(q) /\ Return(q)
       ELSE /\ Goto(q, IF Ended(q) THEN "close" ELSE "place")
            /\ UNCHANGED card
  /\ UNCHANGED <<rows, task, btask, arun, history, plain, extra>>

-----------------------------------------------------------------------------
(* Branches of a parallel stage *)

\* A branch's agent completes its branch, or repeats the call.
CallBranchDone(q, b, o) ==
  /\ btask[b] # "none"
  /\ Begin(q, btask[b] = "open" /\ run.active = StageOf[b],
           [Idle EXCEPT !.kind = "branch", !.pc = "check", !.branch = b,
              !.outcome = o])
  /\ UNCHANGED <<rows, tasks, arun, history>>

CheckStage(q) ==
  /\ At(q, {"branch"}, "check")
  /\ IF run.active = StageOf[req[q].branch] THEN Goto(q, "list") ELSE Return(q)
  /\ UNCHANGED <<rows, tasks, arun, history, plain, extra>>

InStage(s) == {b \in Branches : StageOf[b] = s}

Listing(s) == [b \in Branches |-> IF b \in InStage(s) THEN branch[b] ELSE "none"]

ListBranches(q) ==
  /\ At(q, {"branch"}, "list")
  /\ req' = [req EXCEPT ![q].list = Listing(StageOf[req[q].branch]),
                        ![q].pc = "save"]
  /\ UNCHANGED <<rows, tasks, arun, history, plain, extra>>

\* The branches of the listing, the request's own aside.
Others(q) == {b \in Branches \ {req[q].branch} : req[q].list[b] # "none"}

\* A branch has left its stage with all the branches it saw, and is about to
\* complete the stage.
Leaves(q) == At(q, {"branch"}, "run") /\ StageOf[req[q].branch] \notin AnyJoin

\* variant: a branch that failed does not hold up the stage
NoneRunning(q) == \A c \in Others(q) : req[q].list[c] # "running"

LastOfStage(q) == \A c \in Others(q) : req[q].list[c] = "completed"

\* The branch's row is written; with join policy "all" the listing made before
\* tells whether it was the last.
SaveBranch(q) ==
  /\ At(q, {"branch"}, "save")
  /\ LET b == req[q].branch
         o == req[q].outcome
         last == LastOfStage(q)
         any == StageOf[b] \in AnyJoin
     IN IF req[q].list[b] = "none"
          THEN Return(q) /\ UNCHANGED <<branch, done>>
          ELSE /\ branch' = [branch EXCEPT ![b] = StatusOf(o)]
               /\ done' = IF o = Failed THEN done ELSE done \cup {b}
               /\ req' = [req EXCEPT
                    ![q].joined = o # Failed /\ last /\ ~any,
                    ![q].pc = IF o = Failed \/ (~any /\ ~last) THEN "archive"
                              ELSE IF any THEN "skip" ELSE "read"]
  /\ UNCHANGED <<run, inst, events, tasks, arun, did, plain, extra>>

\* With join policy "any" the others of the listing are marked as skipped.
SkipOthers(q) ==
  /\ At(q, {"branch"}, "skip")
  /\ branch' = [b \in Branches |->
                  IF b \in Others(q) /\ req[q].list[b] # "completed"
                    THEN "skipped" ELSE branch[b]]
  /\ req' = [req EXCEPT ![q].joined = TRUE, ![q].pc = "read"]
  /\ UNCHANGED <<run, inst, events, tasks, arun, history, plain, extra>>

\* The child task is archived; what follows concerns the parent, and nothing
\* follows while other branches are open or if the stage had been left.
ArchiveBranchTask(q) ==
  /\ At(q, {"branch"}, "archive")
  /\ btask' = [btask EXCEPT ![req[q].branch] = "closed"]
  /\ IF req[q].outcome = Failed \/ (req[q].joined /\ req[q].wf.status # "none")
       THEN Goto(q, "parent") ELSE Return(q)
  /\ UNCHANGED <<rows, task, inbox, card, arun, history, plain, extra>>

\* The root task is looked up in the agents' queues.
FindParent(q) ==
  /\ At(q, {"branch"}, "parent")
  /\ IF \E a \in Agents : HasTask(a)
       THEN \E a \in {x \in Agents : HasTask(x)} :
              req' = [req EXCEPT ![q] = [@ EXCEPT !.agent = a, !.copy = task[a],
                        !.pc = CASE req[q].outcome = Failed -> "block"
                                 [] Ended(q) -> "close"
                                 [] OTHER -> "place"]]
       ELSE Return(q)
  /\ UNCHANGED <<rows, tasks, arun, history, plain, extra>>

\* A failed branch blocks the root task; the workflow stays in the stage.
BlockRoot(q) ==
  /\ At(q, {"branch"}, "block")
  /\ IF HasTask(req[q].agent)
       THEN Put(req[q].agent, "blocked", req[q].copy.assignee)
       ELSE UNCHANGED task
  /\ Return(q)
  /\ UNCHANGED <<rows, btask, inbox, card, arun, history, plain, extra>>

-----------------------------------------------------------------------------
(* The task follows the workflow *)

\* The workflow has ended, and so does the task: archived whether or not it is
\* still in that queue, or after a review persisted if it is.
CloseTask(q) ==
  /\ At(q, Completions, "close")
  /\ LET a == req[q].agent
         status == IF req[q].wf.status = "failed" THEN "done_failed"
                                                  ELSE "done_success"
     IN IF req[q].kind = "review" /\ ~HasTask(a)
          THEN UNCHANGED <<task, card>>
          ELSE Put(a, status, req[q].copy.assignee) /\ MarkCard(q)
  /\ Return(q)
  /\ UNCHANGED <<rows, btask, inbox, arun, history, plain, extra>>

\* activateNextWorkflowStep: the task stays in progress with its agent during a
\* parallel stage ...
EnterStage(q) ==
  /\ At(q, Completions, "place")
  /\ req[q].wf.active \in Parallel
  /\ IF HasTask(req[q].agent)
       THEN /\ Put(req[q].agent, "in_progress", req[q].agent)
            /\ req' = [req EXCEPT ![q].pc = "spawn",
                                  ![q].list = Listing(req[q].wf.active)]
       ELSE UNCHANGED task /\ Return(q)
  /\ UNCHANGED <<rows, btask, inbox, card, arun, history, plain, extra>>

\* ... and each branch that has no row yet gets a child task, and then the row,
\* one after the other;
SpawnTask(q, b) ==
  /\ At(q, Completions, "spawn")
  /\ b \in InStage(req[q].wf.active)
  /\ req[q].list[b] = "none"
  /\ btask' = [btask EXCEPT ![b] = "open"]
  /\ req' = [req EXCEPT ![q].branch = b, ![q].pc = "row"]
  /\ UNCHANGED <<rows, task, inbox, card, arun, history, plain, extra>>

SpawnRow(q) ==
  /\ At(q, Completions, "row")
  /\ LET b == req[q].branch IN
       /\ branch' = [branch EXCEPT ![b] = "running"]
       /\ req' = [req EXCEPT ![q].list[b] = "running", ![q].pc = "spawn"]
  /\ UNCHANGED <<run, inst, events, tasks, arun, history, plain, extra>>

\* variant: one child task is enough
EndSpawningEarly(q) ==
  /\ At(q, Completions, "spawn")
  /\ \E b \in InStage(req[q].wf.active) : req[q].list[b] # "none"
  /\ MarkCard(q)
  /\ Return(q)
  /\ UNCHANGED <<rows, task, btask, inbox, arun, history, plain, extra>>

EndSpawning(q) ==
  /\ At(q, Completions, "spawn")
  /\ \A b \in InStage(req[q].wf.active) : req[q].list[b] # "none"
  /\ MarkCard(q)
  /\ Return(q)
  /\ UNCHANGED <<rows, task, btask, inbox, arun, history, plain, extra>>

\* ... or the task is put, pending, in the queue of the next step's agent ...
HandToAgent(q) ==
  /\ At(q, Completions, "place")
  /\ req[q].wf.active \in Steps \ Parallel
  /\ ActorOf[req[q].wf.active] \in Agents
  /\ LET a == ActorOf[req[q].wf.active] IN
       IF a = req[q].agent
         THEN Persist(q, a, "pending", a, "queue")
         ELSE Put(a, "pending", a) /\ Goto(q, "drop")
  /\ UNCHANGED <<rows, btask, inbox, card, arun, history, plain, extra>>

\* variant: the record is not deleted
KeepOld(q) ==
  /\ At(q, Completions \cup {"view"}, "drop")
  /\ IF req[q].kind = "view" THEN Return(q) ELSE Goto(q, "queue")
  /\ UNCHANGED <<rows, tasks, arun, history, plain, extra>>

\* ... and deleted from the queue it was in ...
DropOld(q) ==
  /\ At(q, Completions \cup {"view"}, "drop")
  /\ task' = [task EXCEPT ![req[q].agent] = NoTask]
  /\ IF req[q].kind = "view" THEN Return(q) ELSE Goto(q, "queue")
  /\ UNCHANGED <<rows, btask, inbox, card, arun, history, plain, extra>>

\* ... and a run is queued, the task first written in progress if it is still
\* there, unless the agent has a run of it or is not to be woken by tasks ...
QueueRun(q) ==
  /\ At(q, Completions, "queue")
  /\ LET a == ActorOf[req[q].wf.active] IN
       \/ MarkCard(q) /\ Return(q) /\ UNCHANGED task
       \/ /\ arun[a] = "none"
          /\ HasTask(a)
          /\ Put(a, "in_progress", a)
          /\ req' = [req EXCEPT ![q] = [@ EXCEPT !.pc = "enqueue", !.agent = a,
                       !.copy = [status |-> "pending", assignee |-> a]]]
          /\ UNCHANGED card
       \/ arun[a] = "none" /\ ~HasTask(a) /\ Return(q) /\ UNCHANGED <<task, card>>
  /\ UNCHANGED <<rows, btask, inbox, arun, history, plain, extra>>

\* ... or it waits, in the queue it was in, for a person ...
HandToPerson(q) ==
  /\ At(q, Completions, "place")
  /\ req[q].wf.active \in Steps \ Parallel
  /\ ActorOf[req[q].wf.active] \in People
  /\ Persist(q, req[q].agent, "awaiting_confirmation",
             ActorOf[req[q].wf.active], "notify")
  /\ UNCHANGED <<rows, btask, inbox, card, arun, history, plain, extra>>

\* ... who gets an inbox item and a card.
Notify(q) ==
  /\ At(q, Completions, "notify")
  /\ LET s == req[q].wf.active IN
       /\ inbox' = inbox \cup {ActorOf[s]}
       /\ card' = [t \in Steps |->
                     IF t = s THEN "sent"
                     ELSE IF req[q].card /\ t = req[q].step THEN "acted"
                     ELSE card[t]]
  /\ Return(q)
  /\ UNCHANGED <<rows, task, btask, arun, history, plain, extra>>

-----------------------------------------------------------------------------
(* Cancelling the task *)

\* A task that has ended only loses an inbox item.
CancelEnded(a) ==
  /\ Terminal(task[a])
  /\ extra < MaxExtra
  /\ extra' = extra + 1
  /\ plain' = (plain /\ Quiet)
  /\ RemoveFromInbox
  /\ UNCHANGED <<rows, task, btask, card, arun, req, history>>

CallCancel(q, a) ==
  /\ HasTask(a)
  /\ ~Terminal(task[a])
  /\ Begin(q, FALSE, [Idle EXCEPT !.kind = "cancel", !.pc = "persist",
                        !.agent = a, !.copy = task[a]])
  /\ UNCHANGED <<rows, tasks, arun, history>>

CancelTask(q) ==
  /\ At(q, {"cancel"}, "persist")
  /\ Persist(q, req[q].agent, "cancelled", req[q].copy.assignee, "clear")
  /\ UNCHANGED <<rows, btask, inbox, card, arun, history, plain, extra>>

ClearInbox(q) ==
  /\ At(q, {"cancel"}, "clear")
  /\ RemoveFromInbox
  /\ Goto(q, "cancelRead")
  /\ UNCHANGED <<rows, task, btask, card, arun, history, plain, extra>>

ReadRunToCancel(q) ==
  /\ At(q, {"cancel"}, "cancelRead")
  /\ IF run.status \in {"completed", "cancelled"}
       THEN Goto(q, "cancelRuns")
       ELSE req' = [req EXCEPT ![q].wf = run, ![q].pc = "cancelRun"]
  /\ UNCHANGED <<rows, tasks, arun, history, plain, extra>>

CancelWorkflow(q) ==
  /\ At(q, {"cancel"}, "cancelRun")
  /\ run' = [status |-> "cancelled", active |-> NoStep]
  /\ Goto(q, "cancelStep")
  /\ UNCHANGED <<inst, events, branch, tasks, arun, history, plain, extra>>

CancelStep(q) ==
  /\ At(q, {"cancel"}, "cancelStep")
  /\ LET s == req[q].wf.active IN
       inst' = IF s # NoStep /\ inst[s] \notin {"completed", "cancelled"}
                 THEN [inst EXCEPT ![s] = "cancelled"] ELSE inst
  /\ Goto(q, "cancelRuns")
  /\ UNCHANGED <<run, events, branch, tasks, arun, history, plain, extra>>

CancelRuns(q) ==
  /\ At(q, {"cancel"}, "cancelRuns")
  /\ arun' = [arun EXCEPT ![req[q].agent] = "none"]
  /\ Return(q)
  /\ UNCHANGED <<rows, tasks, history, plain, extra>>

-----------------------------------------------------------------------------
(* Looking at the task's workflow, or starting it by hand, reconciles the    *)
(* task's queue with the active step                                         *)

CallView(q) ==
  /\ run.active \in Steps \ Parallel
  /\ Begin(q, FALSE, [Idle EXCEPT !.kind = "view", !.pc = "reread",
                        !.step = run.active])
  /\ UNCHANGED <<rows, tasks, arun, history>>

RereadRun(q) ==
  /\ At(q, {"view"}, "reread")
  /\ req' = [req EXCEPT ![q].wf = run, ![q].pc = "resave"]
  /\ UNCHANGED <<rows, tasks, arun, history, plain, extra>>

\* The row is saved as it was read, its assignee computed anew.
ResaveRun(q) ==
  /\ At(q, {"view"}, "resave")
  /\ run' = req[q].wf
  /\ Goto(q, "find")
  /\ UNCHANGED <<inst, events, branch, tasks, arun, history, plain, extra>>

\* Is the record at a what the actor of step s should find?
InPlace(a, s) ==
  LET p == ActorOf[s] IN
    /\ task[a].assignee = p
    /\ IF p \in Agents
         THEN a = p /\ task[a].status \in {"pending", "in_progress"}
         ELSE task[a].status = "awaiting_confirmation"

FindTask(q) ==
  /\ At(q, {"view"}, "find")
  /\ IF \E a \in Agents : HasTask(a)
       THEN \E a \in {x \in Agents : HasTask(x)} :
              LET p == ActorOf[req[q].step]
                  status == IF p \in People THEN "awaiting_confirmation"
                            ELSE IF arun[p] = "none" THEN "pending"
                            ELSE "in_progress"
              IN IF task[a].status = "blocked" \/ InPlace(a, req[q].step)
                   THEN Return(q)
                   ELSE req' = [req EXCEPT ![q] = [@ EXCEPT !.agent = a,
                          !.pc = "move",
                          !.copy = [status |-> status, assignee |-> p]]]
       ELSE Return(q)
  /\ UNCHANGED <<rows, tasks, arun, history, plain, extra>>

MoveTask(q) ==
  /\ At(q, {"view"}, "move")
  /\ LET p == ActorOf[req[q].step]
         a == req[q].agent
         c == req[q].copy
     IN IF p \in Agents /\ p # a
          THEN Put(p, c.status, c.assignee) /\ Goto(q, "drop")
          ELSE /\ IF HasTask(a) THEN Put(a, c.status, c.assignee)
                                ELSE UNCHANGED task
               /\ Return(q)
  /\ UNCHANGED <<rows, btask, inbox, card, arun, history, plain, extra>>

-----------------------------------------------------------------------------
\* The server stops and starts again, or the handler meets a database error:
\* what was under way is forgotten.  A run whose report is lost is claimed
\* again once its lease lapses.
Restart ==
  /\ ~Quiet
  /\ extra < MaxExtra
  /\ req' = [q \in Requests |-> Idle]
  /\ arun' = [a \in Agents |-> IF arun[a] = "settling" THEN "queued" ELSE arun[a]]
  /\ plain' = FALSE
  /\ extra' = extra + 1
  /\ UNCHANGED <<rows, tasks, history>>

RunStep == \E a \in Agents : ClaimRun(a) \/ CancelEnded(a)

Call(q) ==
  \/ \E a \in Agents : CallStart(q, a) \/ ReportRun(q, a) \/ CallCancel(q, a)
  \/ \E a \in Agents, o \in Outcomes \cup {Failed} : CallStepDone(q, a, o)
  \/ \E a \in Agents, o \in Outcomes :
       CallReview(q, a, o) \/ \E s \in Steps : CallCard(q, a, s, o)
  \/ \E b \in Branches, o \in Outcomes \cup {Failed} : CallBranchDone(q, b, o)
  \/ CallView(q)

Transition(q) == ReadRun(q) \/ SaveInstance(q) \/ SaveRun(q) \/ OpenNext(q)

Join(q) ==
  \/ CheckStage(q) \/ ListBranches(q) \/ SaveBranch(q) \/ SkipOthers(q)
  \/ ArchiveBranchTask(q) \/ FindParent(q) \/ BlockRoot(q)

Follow(q) ==
  \/ Unbox(q) \/ CloseTask(q) \/ EnterStage(q) \/ EndSpawning(q)
  \/ \E b \in Branches : SpawnTask(q, b)
  \/ SpawnRow(q)
  \/ HandToAgent(q) \/ DropOld(q) \/ QueueRun(q)
  \/ HandToPerson(q) \/ Notify(q)

Start(q) == StartTask(q) \/ EnqueueRun(q) \/ EnqueueUndone(q) \/ StartStrands(q)

Settle(q) == FailTask(q) \/ EndRun(q)

Cancel(q) ==
  \/ CancelTask(q) \/ ClearInbox(q) \/ ReadRunToCancel(q)
  \/ CancelWorkflow(q) \/ CancelStep(q) \/ CancelRuns(q)

View(q) == RereadRun(q) \/ ResaveRun(q) \/ FindTask(q) \/ MoveTask(q)

Next ==
  \/ RunStep
  \/ \E b \in Branches : EndBranchRun(b)
  \/ \E q \in Requests : \/ Call(q) \/ Start(q) \/ Transition(q) \/ Join(q)
                         \/ Follow(q) \/ Settle(q) \/ Cancel(q) \/ View(q)
  \/ Restart

Spec == Init /\ [][Next]_vars

-----------------------------------------------------------------------------
(* Properties *)

Reached(s) ==
  \/ s = StartStep
  \/ \E e \in events : e.outcome # Failed /\ Edge[e.step][e.outcome] = s

\* No step is skipped, whatever handlers overlap, repeat or stop half-way: the
\* active step is the start step or the target of an edge that a completed step
\* of the history took, a workflow is completed only from a last step, and
\* failed only after a failed step (CompleteAndAdvance, store.go:1557).
NoStepSkipped ==
  /\ \A e \in events : Reached(e.step)
  /\ run.active # NoStep => Reached(run.active)
  /\ run.status = "completed" =>
       \E e \in events : e.outcome # Failed /\ Edge[e.step][e.outcome] = End
  /\ run.status = "failed" => \E e \in events : e.outcome = Failed

\* The engine implements the course of a workflow: in order, a run only moves
\* from its active step along the edge of the outcome recorded for it; however
\* handlers overlap, repeat or stop half-way with their old copies of the row,
\* it never gets to a place that recorded outcomes do not lead to
\* (CompleteAndAdvance, store.go:1557, and the other writers of the row:
\* CancelRunForTask, store.go:1115, and whoever looks at the workflow).
Course == INSTANCE WorkflowCourse WITH position <- run, log <- events, orderly <- plain

KeepsCourse == Course!Spec

\* A stage with join policy "all" is left by its branches only when every
\* branch in the listing has been completed, although the listing is older than
\* what the others have saved (CompleteBranchAndMaybeAdvance, store.go:1329).
JoinWaitsForListed ==
  \A q \in Requests :
    Leaves(q) => req[q].branch \in done /\ Others(q) \subseteq done

\* In order, that is every branch of the stage: whoever entered it has created
\* them all before the first could complete (activateParallelWorkflowStep,
\* runtime_workflow_handlers.go:1322).
JoinWaitsForAll ==
  plain => \A q \in Requests : Leaves(q) => InStage(StageOf[req[q].branch]) \subseteq done

Open(a) == HasTask(a) /\ ~Terminal(task[a])

\* Between handlers, as long as none overlapped and no restart cut one short,
\* the task follows the workflow: a task that is open is in one queue, with the
\* active step's actor, who has been told if it is a person; once the workflow
\* has ended no record of the task is open (activateNextWorkflowStep,
\* runtime_workflow_handlers.go:1217, and the handlers around it).
TaskFollowsWorkflow ==
  Quiet /\ plain =>
    \A a \in Agents : Open(a) =>
      /\ run.status = "active"
      /\ \A b \in Agents \ {a} : ~HasTask(b)
      /\ IF run.active \in Parallel
           THEN task[a].status \in {"in_progress", "blocked"}
           ELSE /\ InPlace(a, run.active)
                /\ task[a].status = "awaiting_confirmation" =>
                     ActorOf[run.active] \in inbox

\* Under the same conditions, and unless the scheduler's tick failed to enqueue
\* the run of a task it had written in progress, a task that an agent's step has
\* in progress has a run of that agent behind it, or nobody would get on with
\* it: the scheduler takes only pending tasks.  The handover and the start by
\* hand write the task first too, and put it back when the enqueue fails
\* (fireTaskTriggerOrQueueRuntime, runtime_workflow_handlers.go:1438).
InProgressHasRun ==
  Quiet /\ plain /\ run.active \in Steps \ Parallel =>
    \A a \in Agents : task[a].status = "in_progress" => arun[a] # "none"
=============================================================================
