-------------------------- MODULE AttentionWakeup --------------------------
(***************************************************************************)
(* How the attention signals of one agent worker reach the agent on its    *)
(* runtime node: a source records a signal and asks for a wakeup; the      *)
(* requests, goroutines of the API server, gather pending signals in a     *)
(* wakeup task and queue a run of it; when the run has ended its signals   *)
(* are closed and, if others are pending, a new wakeup is asked for.       *)
(*                                                                         *)
(* A database statement is a step.  A request lists a task and writes the  *)
(* whole record back later, as does the handler that settles it.  Prompts  *)
(* stand for the sets of signals they quote.  Signals that announce a task *)
(* of the agent (closed with that task), local agents and edits of signals *)
(* by people are left out.                                                 *)
(***************************************************************************)
EXTENDS Integers, FiniteSets

CONSTANTS
  Signals, NoSignal,  \* rows, by dedupe key; an id that is in no row
  IM,                 \* the signals that come from an IM channel
  Requests,           \* how many wakeup requests may be under way at a time
  Tasks, NoTask,      \* tasks of the agent; an id is reused once forgotten
  Scheduled,          \* those of another origin, pending and due at first
  Runs,               \* how many runs of the agent may be under way at a time
  MaxFaults           \* faults and interventions in a behaviour

ASSUME SignalsAssumption == NoSignal \notin Signals /\ IM \subseteq Signals
ASSUME TasksAssumption == NoTask \notin Tasks /\ Scheduled \subseteq Tasks
ASSUME FaultsAssumption == MaxFaults \in Nat

VARIABLES
  signal,      \* signal[s]: the status of its row
  task,        \* task[t]: the record of t
  req,         \* req[q]: a goroutine that makes a wakeup request
  run,         \* run[r]: a run's row and the request that reports its end
  recovering,  \* the server has restarted and not looked for signals yet
  delivered,   \* delivered[s]: how far the signal has come (history)
  lost,        \* signals whose wakeup was given up with no other asked for (history)
  faults

vars == <<signal, task, req, run, recovering, delivered, lost, faults>>
history == <<delivered, lost>>

\* final is handled, ignored or expired
Statuses == {"absent", "pending", "seen", "handling", "final"}
Pending  == {s \in Signals : signal[s] = "pending"}

\* done is any final status, which takes the task from the listings of pending ones;
\* kind tells heartbeat:attention tasks, whose signals a run closes, from the rest
TaskRows == [status : {"absent", "pending", "in_progress", "done"},
             kind   : {"attention", "other"},
             ids    : SUBSET Signals]
NoRow    == [status |-> "absent", kind |-> "other", ids |-> {}]
AttentionRow(ids) == [status |-> "pending", kind |-> "attention", ids |-> ids]

PendingTasks(kind) == {t \in Tasks : task[t].status = "pending" /\ task[t].kind = kind}

\* copy is the record as the request has it, ids the signals it will mark
ReqPcs   == {"idle", "focus", "pick", "write", "check", "due", "list", "pending",
             "start", "queue", "mark"}
Goroutines == [pc : ReqPcs, focus : Signals \cup {NoSignal}, ids : SUBSET Signals,
               task : Tasks \cup {NoTask}, copy : TaskRows]
IdleReq  == [pc |-> "idle", focus |-> NoSignal, ids |-> {}, task |-> NoTask, copy |-> NoRow]
At(pc)   == [IdleReq EXCEPT !.pc = pc]
Asking(s) == [At("focus") EXCEPT !.focus = s]

\* a lost run is claimed by a node that died; up to "lost" the row counts as
\* active; ids are the signals of the prompt and later those still to close
Stages   == {"none", "queued", "running", "lost", "expired",
             "judged", "settled", "over", "closing", "asking"}
RunRows  == [stage : Stages, task : Tasks \cup {NoTask}, ids : SUBSET Signals,
             ok : BOOLEAN, copy : TaskRows]
NoRun    == [stage |-> "none", task |-> NoTask, ids |-> {}, ok |-> FALSE, copy |-> NoRow]

Active == \E r \in Runs : run[r].stage \in {"queued", "running", "judged", "settled", "lost"}
\* the node's worker returns with the answer to its report
OnNode == {r \in Runs : run[r].stage \in
             {"running", "judged", "settled", "over", "closing", "asking"}}

\* an id nobody refers to: the next task may as well have it
Fresh == {t \in Tasks : /\ task[t].status # "pending"
                        /\ \A q \in Requests : req[q].task # t
                        /\ \A r \in Runs : run[r].task # t}

Init ==
  /\ signal = [s \in Signals |-> "absent"]
  /\ task = [t \in Tasks |-> IF t \in Scheduled THEN [NoRow EXCEPT !.status = "pending"] ELSE NoRow]
  /\ req = [q \in Requests |-> IdleReq]
  /\ run = [r \in Runs |-> NoRun]
  /\ recovering = FALSE
  /\ delivered = [s \in Signals |-> "no"]
  /\ lost = {}
  /\ faults = 0

Fault == faults < MaxFaults /\ faults' = faults + 1

-----------------------------------------------------------------------------
(***************************************************************************)
(* Sources of wakeups.                                                     *)
(***************************************************************************)
Record(s, q) ==
  /\ signal[s] = "absent" /\ req[q] = IdleReq
  /\ signal' = [signal EXCEPT ![s] = "pending"]
  /\ req' = [req EXCEPT ![q] = Asking(s)]
  /\ UNCHANGED <<task, run, recovering, history, faults>>

\* the same event again: the row keeps its id, so the new id leads nowhere
Replay(s, q) ==
  /\ signal[s] # "absent" /\ req[q] = IdleReq
  /\ Fault
  /\ signal' = [signal EXCEPT ![s] = IF @ = "final" THEN @ ELSE "pending"]
  /\ req' = [req EXCEPT ![q] = Asking(NoSignal)]
  /\ UNCHANGED <<task, run, recovering, delivered, lost>>

\* a tick of the agent's scheduler loop
Heartbeat(q) ==
  /\ req[q] = IdleReq
  /\ Fault
  /\ req' = [req EXCEPT ![q] = At("check")]
  /\ UNCHANGED <<signal, task, run, recovering, history>>

\* a person asks for a wakeup: nobody looks for active runs
Wakeup(q) ==
  /\ req[q] = IdleReq
  /\ Fault
  /\ req' = [req EXCEPT ![q] = At("due")]
  /\ UNCHANGED <<signal, task, run, recovering, history>>

\* recoverPendingAttentionWakeups leaves IM messages alone
Recover(q) ==
  LET found == Pending \ IM IN
  /\ recovering /\ req[q] = IdleReq
  /\ recovering' = FALSE
  /\ IF found = {} THEN UNCHANGED req
     ELSE \E s \in found : req' = [req EXCEPT ![q] = Asking(s)]
  /\ UNCHANGED <<signal, task, run, history, faults>>

\* the listing fails, and recovery is over; one fault with the restart it follows
RecoverFails ==
  /\ recovering
  /\ recovering' = FALSE
  /\ lost' = Signals
  /\ UNCHANGED <<signal, task, req, run, delivered, faults>>

-----------------------------------------------------------------------------
(***************************************************************************)
(* A wakeup request.  ensurePendingAttentionWakeupTask is entered with the *)
(* focused signal first and, once no run is active, again with all.        *)
(***************************************************************************)
Moves(q, r) ==
  /\ req' = [req EXCEPT ![q] = r]
  /\ UNCHANGED <<signal, run, recovering, faults>>

Gather(q, ids) == [At("pick") EXCEPT !.focus = req[q].focus, !.ids = ids]

ListFocused(q) ==
  LET s == req[q].focus IN
  /\ req[q].pc = "focus"
  /\ Moves(q, IF s \notin Pending THEN At("check")
              ELSE Gather(q, {s} \cup IF s \in IM THEN Pending \cap IM ELSE {}))
  /\ UNCHANGED <<task, history>>

ListPending(q) ==
  /\ req[q].pc = "list"
  /\ Moves(q, IF Pending = {} THEN At("pending") ELSE Gather(q, Pending))
  /\ UNCHANGED <<task, history>>

\* an attention task that is pending is used again, with the new signals
PickTask(q) ==
  LET found == PendingTasks("attention") IN
  /\ req[q].pc = "pick"
  /\ \E t \in IF found = {} THEN {NoTask} ELSE found :
       Moves(q, [req[q] EXCEPT !.pc = "write", !.task = t, !.copy = AttentionRow(req[q].ids)])
  /\ UNCHANGED <<task, history>>

WriteTask(q) ==
  /\ req[q].pc = "write"
  /\ \E t \in IF req[q].task = NoTask THEN Fresh ELSE {req[q].task} :
       /\ task' = [task EXCEPT ![t] = req[q].copy]
       /\ Moves(q, IF req[q].focus # NoSignal THEN At("check")
                   ELSE [req[q] EXCEPT !.pc = "start", !.task = t])
  /\ UNCHANGED history

CheckActive(q) ==
  /\ req[q].pc = "check"
  /\ Moves(q, IF Active THEN IdleReq ELSE At("due"))
  /\ UNCHANGED <<task, history>>

Take(q, t) == Moves(q, [At("start") EXCEPT !.task = t, !.copy = task[t]])

TakeDueTask(q) ==
  LET due == PendingTasks("other") \cap Scheduled IN
  /\ req[q].pc = "due"
  /\ IF due = {} THEN Moves(q, At("list")) ELSE \E t \in due : Take(q, t)
  /\ UNCHANGED <<task, history>>

\* attention tasks have the highest priority; their signals are not marked
TakePendingTask(q) ==
  /\ req[q].pc = "pending"
  /\ \E kind \in {"attention", "other"} :
       /\ kind = "other" => PendingTasks("attention") = {}
       /\ \E t \in PendingTasks(kind) : Take(q, t)
  /\ UNCHANGED <<task, history>>

NothingToDo(q) ==
  /\ req[q].pc = "pending"
  /\ \A t \in Tasks : task[t].status # "pending"
  /\ Moves(q, IdleReq)
  /\ UNCHANGED <<task, history>>

\* an agent with a wakeup prompt of its own gets it, behind the pending signals
CreateRoutineTask(q) ==
  LET row == [NoRow EXCEPT !.status = "pending", !.ids = Pending] IN
  /\ req[q].pc = "pending"
  /\ \A t \in Tasks : task[t].status # "pending"
  /\ \E t \in Fresh :
       /\ task' = [task EXCEPT ![t] = row]
       /\ Moves(q, [At("start") EXCEPT !.task = t, !.ids = Pending, !.copy = row])
  /\ UNCHANGED history

StartTask(q) ==
  LET row == [req[q].copy EXCEPT !.status = "in_progress"] IN
  /\ req[q].pc = "start"
  /\ task' = [task EXCEPT ![req[q].task] = row]
  /\ Moves(q, [req[q] EXCEPT !.pc = "queue", !.copy = row])
  /\ UNCHANGED history

QueueRun(q, r) ==
  /\ req[q].pc = "queue" /\ run[r] = NoRun
  /\ run' = [run EXCEPT ![r] = [NoRun EXCEPT
       !.stage = "queued", !.task = req[q].task, !.ids = req[q].copy.ids]]
  /\ delivered' = [s \in Signals |-> IF s \in req[q].copy.ids /\ delivered[s] = "no"
                                     THEN "queued" ELSE delivered[s]]
  /\ req' = [req EXCEPT ![q] = [At("mark") EXCEPT !.ids = req[q].ids]]
  /\ UNCHANGED <<signal, task, recovering, lost, faults>>

\* variant: the error is dropped
QueueFailsUnnoticed(q) ==
  /\ req[q].pc = "queue"
  /\ Fault
  /\ req' = [req EXCEPT ![q] = [At("mark") EXCEPT !.ids = req[q].ids]]
  /\ UNCHANGED <<signal, task, run, recovering, history>>

\* a lookup, a listing or a write fails, or the agent's node is not ready: the
\* request logs it and returns, with what it has written, and nobody asks again
RequestFails(q) ==
  /\ req[q].pc \in {"focus", "pick", "write", "check", "due", "list", "pending", "start"}
  /\ Fault
  /\ req' = [req EXCEPT ![q] = IdleReq]
  /\ lost' = Signals
  /\ UNCHANGED <<signal, task, run, recovering, delivered>>

\* the same once the task has been set in progress, which it stays
QueueFails(q) ==
  /\ req[q].pc = "queue"
  /\ Fault
  /\ req' = [req EXCEPT ![q] = IdleReq]
  /\ lost' = Signals
  /\ UNCHANGED <<signal, task, run, recovering, delivered>>

\* variant: the UPDATE does not look at the status
MarkSeenAlways(q, s) ==
  /\ req[q].pc = "mark" /\ s \in req[q].ids
  /\ signal' = [signal EXCEPT ![s] = "seen"]
  /\ req' = [req EXCEPT ![q].ids = @ \ {s}]
  /\ UNCHANGED <<task, run, recovering, history, faults>>

\* MarkAttentionSignalStatus: only a pending signal becomes seen
MarkSeen(q, s) ==
  /\ req[q].pc = "mark" /\ s \in req[q].ids
  /\ signal' = [signal EXCEPT ![s] = IF @ = "pending" THEN "seen" ELSE @]
  /\ req' = [req EXCEPT ![q].ids = @ \ {s}]
  /\ UNCHANGED <<task, run, recovering, history, faults>>

\* the error is dropped, the next signal is marked
MarkFails(q, s) ==
  /\ req[q].pc = "mark" /\ s \in req[q].ids
  /\ Fault
  /\ req' = [req EXCEPT ![q].ids = @ \ {s}]
  /\ UNCHANGED <<signal, task, run, recovering, history>>

AllMarked(q) ==
  /\ req[q].pc = "mark" /\ req[q].ids = {}
  /\ Moves(q, IdleReq)
  /\ UNCHANGED <<task, history>>

-----------------------------------------------------------------------------
(***************************************************************************)
(* A run.  RuntimeQueue has the details of claims and leases; a node works *)
(* for the agent once at a time.                                           *)
(***************************************************************************)
RunMoves(r, row) ==
  /\ run' = [run EXCEPT ![r] = row]
  /\ UNCHANGED <<req, recovering, faults>>

Claimed(r) == run[r].stage \in {"queued", "expired"} /\ OnNode = {}

ClaimRun(r) ==
  /\ Claimed(r) /\ task[run[r].task].status # "done"
  /\ RunMoves(r, [run[r] EXCEPT !.stage = "running"])
  /\ delivered' = [s \in Signals |-> IF s \in run[r].ids THEN "agent" ELSE delivered[s]]
  /\ UNCHANGED <<signal, task, lost>>

\* a run of a finished task ends without asking for another wakeup
SkipRun(r) ==
  /\ Claimed(r) /\ task[run[r].task].status = "done"
  /\ RunMoves(r, NoRun)
  /\ lost' = Signals
  /\ UNCHANGED <<signal, task, delivered>>

\* finalizeRuntimeTaskRun reads the task ...
ReportRun(r, ok) ==
  /\ run[r].stage = "running"
  /\ RunMoves(r, [run[r] EXCEPT !.stage = "judged", !.ok = ok, !.copy = task[run[r].task]])
  /\ UNCHANGED <<signal, task, history>>

\* ... and archives it as it was
SettleTask(r) ==
  LET row == run[r].copy IN
  /\ run[r].stage = "judged"
  /\ task' = IF row.status = "done" THEN task
             ELSE [task EXCEPT ![run[r].task] = [row EXCEPT !.status = "done"]]
  /\ RunMoves(r, [run[r] EXCEPT !.stage = "settled", !.copy = NoRow])
  /\ UNCHANGED <<signal, history>>

\* variant: only a successful run asks for the next wakeup
WriteRunOfSuccess(r) ==
  /\ run[r].stage = "settled"
  /\ RunMoves(r, IF run[r].ok THEN [run[r] EXCEPT !.stage = "over", !.ids = {}] ELSE NoRun)
  /\ UNCHANGED <<signal, task, history>>

WriteRun(r) ==
  /\ run[r].stage = "settled"
  /\ RunMoves(r, IF run[r].ok THEN [run[r] EXCEPT !.stage = "over", !.ids = {}]
                 ELSE [NoRun EXCEPT !.stage = "asking"])
  /\ UNCHANGED <<signal, task, history>>

\* markAttentionSignalsForWakeupRun reads the task once more ...
ReadSignalIDs(r) ==
  LET row == task[run[r].task] IN
  /\ run[r].stage = "over"
  /\ RunMoves(r, [NoRun EXCEPT !.stage = "closing",
                               !.ids = IF row.kind = "attention" THEN row.ids ELSE {}])
  /\ UNCHANGED <<signal, task, history>>

\* ... and marks its signals handled, unless they are final
CloseSignal(r, s) ==
  /\ run[r].stage = "closing" /\ s \in run[r].ids
  /\ signal' = [signal EXCEPT ![s] = "final"]
  /\ RunMoves(r, [run[r] EXCEPT !.ids = @ \ {s}])
  /\ UNCHANGED <<task, history>>

AllClosed(r) ==
  /\ run[r].stage = "closing" /\ run[r].ids = {}
  /\ RunMoves(r, [NoRun EXCEPT !.stage = "asking"])
  /\ UNCHANGED <<signal, task, history>>

AskAgain(r) ==
  /\ run[r].stage = "asking"
  /\ IF Pending = {} THEN UNCHANGED req
     ELSE \E q \in Requests, s \in Pending :
            req[q] = IdleReq /\ req' = [req EXCEPT ![q] = Asking(s)]
  /\ run' = [run EXCEPT ![r] = NoRun]
  /\ UNCHANGED <<signal, task, recovering, history, faults>>

\* the signals not closed yet stay as they are, the listing is made all the same
CloseFails(r) ==
  /\ run[r].stage \in {"over", "closing"}
  /\ Fault
  /\ run' = [run EXCEPT ![r] = [NoRun EXCEPT !.stage = "asking"]]
  /\ UNCHANGED <<signal, task, req, recovering, history>>

\* the pending signals cannot be listed: nobody asks again
AskFails(r) ==
  /\ run[r].stage = "asking"
  /\ Fault
  /\ run' = [run EXCEPT ![r] = NoRun]
  /\ lost' = Signals
  /\ UNCHANGED <<signal, task, req, recovering, delivered>>

\* a node that dies is found out when the lease has expired
Expire(r) ==
  /\ run[r].stage = "lost"
  /\ RunMoves(r, [run[r] EXCEPT !.stage = "expired"])
  /\ UNCHANGED <<signal, task, history>>

NodeDies(r) ==
  /\ run[r].stage = "running"
  /\ Fault
  /\ run' = [run EXCEPT ![r].stage = "lost"]
  /\ UNCHANGED <<signal, task, req, recovering, history>>

\* the row cannot be written: the run is left to its lease
ReportFails(r) ==
  /\ run[r].stage = "settled"
  /\ Fault
  /\ run' = [run EXCEPT ![r].stage = "lost"]
  /\ UNCHANGED <<signal, task, req, recovering, history>>

CancelRun(r) ==
  /\ run[r].stage \in {"queued", "running", "lost", "expired"}
  /\ Fault
  /\ run' = [run EXCEPT ![r] = NoRun]
  /\ lost' = Signals
  /\ UNCHANGED <<signal, task, req, recovering, delivered>>

\* requests and reports under way are gone; a report is not sent again
Restart ==
  /\ ~recovering
  /\ Fault
  /\ req' = [q \in Requests |-> IdleReq]
  /\ run' = [r \in Runs |->
       IF run[r].stage \in {"judged", "settled"} THEN [run[r] EXCEPT !.stage = "lost", !.copy = NoRow]
       ELSE IF run[r].stage \in {"over", "closing", "asking"} THEN NoRun ELSE run[r]]
  /\ lost' = lost \cup IM
  /\ recovering' = TRUE
  /\ UNCHANGED <<signal, task, delivered>>

-----------------------------------------------------------------------------
(***************************************************************************)
(* The agent, while it is running: listing marks what it lists, and it     *)
(* sets the status of a signal it knows.                                   *)
(***************************************************************************)
AgentActs == (\E r \in Runs : run[r].stage = "running") /\ UNCHANGED <<task, req, run, recovering, lost>>

AgentLists(s) ==
  /\ signal[s] \notin {"absent", "final"} /\ <<signal[s], delivered[s]>> # <<"seen", "agent">>
  /\ signal' = [signal EXCEPT ![s] = IF @ = "pending" THEN "seen" ELSE @]
  /\ delivered' = [delivered EXCEPT ![s] = "agent"]
  /\ AgentActs /\ UNCHANGED <<faults>>

AgentSets(s, status) ==
  /\ delivered[s] = "agent" /\ signal[s] # "final"
  /\ signal' = [signal EXCEPT ![s] = status]
  /\ AgentActs /\ UNCHANGED <<delivered, faults>>

\* setting a signal pending again has no guard
AgentReopens(s) ==
  /\ delivered[s] = "agent" /\ Fault
  /\ signal' = [signal EXCEPT ![s] = "pending"]
  /\ AgentActs /\ UNCHANGED delivered

-----------------------------------------------------------------------------
Ensure(q) == ListFocused(q) \/ ListPending(q) \/ PickTask(q) \/ WriteTask(q)

RequestStep(q) ==
  \/ Ensure(q) \/ CheckActive(q) \/ TakeDueTask(q) \/ TakePendingTask(q)
  \/ NothingToDo(q) \/ CreateRoutineTask(q) \/ StartTask(q)
  \/ \E r \in Runs : QueueRun(q, r)
  \/ \E s \in Signals : MarkSeen(q, s)
  \/ AllMarked(q)

ReportStep(r) ==
  \/ SettleTask(r) \/ WriteRun(r) \/ ReadSignalIDs(r) \/ AllClosed(r) \/ AskAgain(r)
  \/ \E s \in Signals : CloseSignal(r, s)

RunStep(r) ==
  \/ ClaimRun(r) \/ SkipRun(r) \/ Expire(r) \/ ReportStep(r)
  \/ \E ok \in BOOLEAN : ReportRun(r, ok)

RunFails(r) == NodeDies(r) \/ ReportFails(r) \/ CloseFails(r)

AgentStep(s) ==
  AgentLists(s) \/ AgentReopens(s) \/ \E status \in {"handling", "final"} : AgentSets(s, status)

Next ==
  \/ \E s \in Signals, q \in Requests : Record(s, q) \/ Replay(s, q)
  \/ \E q \in Requests :
       \/ Heartbeat(q) \/ Wakeup(q) \/ Recover(q) \/ RequestStep(q)
       \/ RequestFails(q) \/ QueueFails(q) \/ \E s \in Signals : MarkFails(q, s)
  \/ \E r \in Runs : RunStep(r) \/ RunFails(r) \/ CancelRun(r) \/ AskFails(r)
  \/ \E s \in Signals : AgentStep(s)
  \/ Restart \/ RecoverFails

Spec == Init /\ [][Next]_vars

(***************************************************************************)
(* A goroutine of the server that can move does, nodes poll for runs, the  *)
(* agent process ends, leases expire.  Nobody owes a heartbeat.            *)
(***************************************************************************)
Fairness ==
  /\ \A q \in Requests : WF_vars(RequestStep(q))
  /\ \A r \in Runs : WF_vars(RunStep(r))
  /\ WF_vars(\E q \in Requests : Recover(q))

FairSpec == Spec /\ Fairness

-----------------------------------------------------------------------------
TypeOK ==
  /\ signal \in [Signals -> Statuses]
  /\ task \in [Tasks -> TaskRows]
  /\ req \in [Requests -> Goroutines]
  /\ run \in [Runs -> RunRows]
  /\ recovering \in BOOLEAN
  /\ delivered \in [Signals -> {"no", "queued", "agent"}]
  /\ lost \subseteq Signals
  /\ faults \in 0 .. MaxFaults

\* A signal is marked seen only when a queued run's prompt has quoted it or the
\* agent has read it: a request that fails, or the server's restart, never takes
\* a signal out of the pending ones for nothing.
SeenWasQueued == \A s \in Signals : signal[s] = "seen" => delivered[s] # "no"

\* Why: the record a request writes and queues quotes every signal it will mark,
\* and a request or a run that needs its task has one.
WakeupInv ==
  /\ TypeOK
  /\ \A q \in Requests : req[q].pc \in {"start", "queue"} => req[q].task \in Tasks
  /\ \A r \in Runs : run[r].stage \notin {"none", "closing", "asking"} => run[r].task \in Tasks
  /\ \A q \in Requests : req[q].pc \in {"write", "start", "queue"} => req[q].ids \subseteq req[q].copy.ids
  /\ \A q \in Requests : req[q].pc = "mark" => \A s \in req[q].ids : delivered[s] # "no"
  /\ SeenWasQueued

\* A signal that was handled, ignored or has expired stays so, however late a
\* request or another run marks it, unless the agent itself sets it pending.
FinalStays ==
  [][\A s \in Signals : signal[s] = "final" => signal'[s] = "final" \/ AgentReopens(s)]_vars

\* No wakeup is lost: a pending signal gets out of that state by the requests
\* that follow events and runs alone, though each of them gives up when it finds
\* a run active; unless a run was cancelled or skipped, the server forgot an IM
\* message in a restart, or a request, the end of a run or recovery failed: a
\* database error, or the agent's node not ready, which the server only logs.
PendingGetsOut ==
  \A s \in Signals : signal[s] = "pending" ~> signal[s] # "pending" \/ s \in lost

\* Who will look for pending signals: a request up to its last listing or with
\* a task to start, a run, whose end asks again, and start-up recovery.
Looking == {"focus", "pick", "write", "check", "due", "list", "start", "queue"}

Watched(s) ==
  \/ \E q \in Requests : req[q].pc \in Looking
  \/ \E r \in Runs : run[r].stage # "none"
  \/ recovering /\ s \notin IM

Unattended(s) == signal[s] = "pending" /\ ~Watched(s)

\* The only steps that end a wakeup without another one to follow.
GivesUp(s) ==
  \/ \E q \in Requests : RequestFails(q) \/ QueueFails(q)
  \/ \E r \in Runs : SkipRun(r) \/ CancelRun(r) \/ AskFails(r)
  \/ RecoverFails
  \/ Restart /\ s \in IM

\* The wakeup is handed on: a request that finds a run active leaves the signal
\* to that run's end, the run to a request, a restart to recovery; no step but a
\* cancel, a skip, the failure of a request, of a run's last listing or of
\* recovery's or, for IM, a restart leaves a pending signal with nobody to look
\* for it.  What goes wrong anywhere else (a node that dies, a report, a mark or
\* a signal's closing that fails) does not.
WakeupsHandedOn ==
  [][\A s \in Signals : Unattended(s)' => Unattended(s) \/ GivesUp(s)]_vars

\* No two requests hold copies of one wakeup task that they will still write.
\* The code does not see to it: nothing keeps requests of one agent apart.
CopiesApart ==
  \A p, q \in Requests :
    {req[p].pc, req[q].pc} \subseteq {"write", "start", "queue"} /\ req[p].task = req[q].task
      => p = q \/ req[p].task = NoTask

\* A signal is never final unseen: the agent has executed a run whose prompt
\* quoted it, or read it.
FinalWasDelivered == \A s \in Signals : signal[s] = "final" => delivered[s] = "agent"
=============================================================================
