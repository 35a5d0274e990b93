--------------------------- MODULE LocalScheduler ---------------------------
(***************************************************************************)
(* The scheduler of the command line, for one agent with one cron.         *)
(*                                                                         *)
(* Four kinds of caller run the agent on this machine: the heartbeat loop  *)
(* and the workspace cron loop of a `multigent scheduler start' process,   *)
(* the command `multigent scheduler wakeup', and `multigent run'.  The     *)
(* first three fire the due cron (fireDueCrons) and then run every pending *)
(* task (runAllPendingTasks); the last runs one task.  What keeps them     *)
(* apart is an interaction session of the control database: a row "active" *)
(* that its owner completes, that a unique index allows once per source,   *)
(* and that another scheduler cycle may declare stale two minutes after    *)
(* its last activity (acquireCLIInteraction).                              *)
(*                                                                         *)
(* Time is reduced to two facts: the newest calendar slot of the cron, and *)
(* whether an active session is older than two minutes.                    *)
(***************************************************************************)
EXTENDS Integers, FiniteSets

CONSTANTS
    HeartLoops,     \* heartbeat loops of the scheduler process
    CronLoops,      \* workspace cron loops of the scheduler process
    WakeCommands,   \* processes of `multigent scheduler wakeup'
    RunCommands,    \* processes of `multigent run'
    Scheduler,      \* the process `multigent scheduler start'
    Nobody,         \* no process, no caller, no task
    Gone,           \* a caller that died and left its session active
    TaskIds,        \* the tasks that can be created
    MaxTasksPerCycle,   \* hb.MaxTasksPerCycle
    MaxRetries,     \* Task.MaxRetries
    MaxSlot,        \* bound: calendar slots of the cron
    MaxEvents       \* bound: what people do, commands included, errors, overrun
                    \* sessions, skipped wakeups, crashes of the scheduler and
                    \* starts of the API server, taken together

Cycles == HeartLoops \cup CronLoops \cup WakeCommands
Callers == Cycles \cup RunCommands
Loops == HeartLoops \cup CronLoops
Procs == {Scheduler} \cup WakeCommands \cup RunCommands

ASSUME CallersApart ==
    /\ HeartLoops \cap (CronLoops \cup WakeCommands \cup RunCommands) = {}
    /\ CronLoops \cap (WakeCommands \cup RunCommands) = {}
    /\ WakeCommands \cap RunCommands = {}
    /\ {Scheduler, Nobody, Gone} \cap Callers = {}
    /\ Nobody # Gone /\ Scheduler # Nobody /\ Nobody \notin TaskIds
ASSUME BoundsAreNat ==
    /\ {MaxRetries, MaxSlot, MaxEvents} \subseteq Nat
    /\ MaxTasksPerCycle \in Nat \ {0}

VARIABLES
    slot,       \* newest calendar slot at or before now; 0: none yet
    cron,       \* the stored cron: the slot last consumed, and Enabled
    task,       \* the task rows
    lease,      \* per source kind the active interaction session, if any
    mark,       \* the live process whose PID the heartbeat row says is running;
                \* the row is written whole, by everybody who stores a field of it
    mutex,      \* schedulerCronMu of each process
    up,         \* whether the scheduler process runs
    caller,     \* what each caller is doing
    editor,     \* a cron list that a person's edit has read, or Nobody
    left,       \* how many events may still happen
    raced,      \* history: two processes were firing crons at once
    unseen,     \* history: slots that have a task and whose lookup failed
    leftover,   \* history: the mark was written back from an older copy of the
                \* row, or its clearing failed
    robbed      \* history: working callers whose session was taken from them

cronVars == <<slot, cron, mutex, editor, raced, unseen>>
leaseVars == <<lease, robbed>>
vars == <<slot, cron, task, lease, mark, mutex, up, caller, editor, left,
          raced, unseen, leftover, robbed>>

-----------------------------------------------------------------------------
\* "closed" stands for every archived or terminal status: done, failed,
\* cancelled, and awaiting confirmation once a cycle has archived the task.
Statuses == {"absent", "pending", "in_progress", "awaiting", "closed"}
\* What RunTask returns: "ended" is success or awaiting confirmation.
Results == {"none", "ended", "failed", "error", "interrupted"}
FiringPcs == {"put", "save"}
Pcs == FiringPcs \cup
       {"off", "plan", "sleep", "fire", "look", "create", "next", "start", "run",
        "idle", "check", "row", "save_crons", "fail", "settle", "clear"}
Kinds == {"scheduler", "manual"}

Crons == [lastRun : 0..MaxSlot, enabled : BOOLEAN]
TaskRows == [status : Statuses, slot : 0..MaxSlot, retries : 0..MaxRetries]
Sessions == [by : Callers \cup {Nobody, Gone}, stale : BOOLEAN]
CallerStates ==
    [pc : Pcs, back : {"off", "sleep"}, hb : Procs \cup {Nobody},
     row : Procs \cup {Nobody}, saw : Crons \cup {Nobody}, due : 0..MaxSlot, task : TaskIds \cup {Nobody},
     tries : 0..MaxRetries, seen : SUBSET TaskIds, result : Results]

\* A caller between two cycles: at its loop top, asleep, or no process at all.
Waiting(back, hb) ==
    [pc |-> back, back |-> back, hb |-> hb, row |-> Nobody, saw |-> Nobody,
     due |-> 0, task |-> Nobody, tries |-> 0, seen |-> {}, result |-> "none"]
Rest == Waiting("off", Nobody)
NoSession == [by |-> Nobody, stale |-> FALSE]
NoTask == [status |-> "absent", slot |-> 0, retries |-> 0]

\* The retry count of a closed task is of no more use.
Closed(t) == [t EXCEPT !.status = "closed", !.retries = 0]

ProcOf(c) == IF c \in Loops THEN Scheduler ELSE c
KindOf(c) == IF c \in RunCommands THEN "manual" ELSE "scheduler"
Alive(p) == IF p = Scheduler THEN up
            ELSE p \in Callers /\ caller[p].pc # "off"
Runs(c) == ProcOf(c) = Scheduler => up
At(c, pc) == Runs(c) /\ caller[c].pc = pc

Pending == {t \in TaskIds : task[t].status = "pending"}
Unused == {t \in TaskIds : task[t].status = "absent"}
FreshTask == CHOOSE t \in Unused : TRUE     \* NewTaskID
Event == left > 0 /\ left' = left - 1

Become(c, r) == caller' = [caller EXCEPT ![c] = r]
Goto(c, pc) == Become(c, [caller[c] EXCEPT !.pc = pc])

TypeOK ==
    /\ slot \in 0..MaxSlot
    /\ cron \in Crons
    /\ task \in [TaskIds -> TaskRows]
    /\ lease \in [Kinds -> Sessions]
    /\ mark \in Procs \cup {Nobody}
    /\ mutex \in [Procs -> Callers \cup {Nobody}]
    /\ up \in BOOLEAN
    /\ caller \in [Callers -> CallerStates]
    /\ editor \in Crons \cup {Nobody}
    /\ left \in 0..MaxEvents
    /\ raced \in BOOLEAN /\ unseen \in SUBSET (1..MaxSlot)
    /\ leftover \in BOOLEAN /\ robbed \in SUBSET Callers

Init ==
    /\ slot = 0
    /\ cron = [lastRun |-> 0, enabled |-> TRUE]
    /\ task = [t \in TaskIds |-> NoTask]
    /\ lease = [k \in Kinds |-> NoSession]
    /\ mark = Nobody
    /\ mutex = [p \in Procs |-> Nobody]
    /\ up = TRUE
    /\ caller = [c \in Callers |-> Rest]
    /\ editor = Nobody
    /\ left = MaxEvents
    /\ raced = FALSE /\ unseen = {} /\ leftover = FALSE /\ robbed = {}

-----------------------------------------------------------------------------
(* How the four callers come to a firing or a cycle. *)

\* The row is written whole from a copy that says process p is running.  A mark
\* that this puts back is cleared by no cycle but by chance.
Restores(p) ==
    LET said == IF Alive(p) THEN p ELSE Nobody IN
    /\ mark' = said
    /\ leftover' = (IF said = mark THEN leftover ELSE said # Nobody)

\* Top of the heartbeat loop: the heartbeat row is read,
HeartLook(c) ==
    /\ c \in HeartLoops /\ At(c, "off")
    /\ Become(c, [Waiting("sleep", mark) EXCEPT !.pc = "plan"])
    /\ UNCHANGED <<cronVars, leaseVars, task, mark, leftover, up, left>>

\* written back with the time of the next wakeup, unless that is now, and the
\* loop sleeps.
HeartPlan(c) ==
    /\ c \in HeartLoops /\ At(c, "plan")
    /\ Goto(c, "sleep")
    /\ Restores(caller[c].hb) \/ UNCHANGED <<mark, leftover>>
    /\ UNCHANGED <<cronVars, leaseVars, task, up, left>>

\* The sleep is over.  isAlreadyRunning judges the row read before the sleep.
HeartWake(c) ==
    /\ c \in HeartLoops /\ At(c, "sleep")
    /\ IF Alive(caller[c].hb)
       THEN /\ Become(c, Rest)
            /\ UNCHANGED <<mark, leftover>>
       ELSE /\ Become(c, [Rest EXCEPT !.pc = "fire"])
            /\ mark' = Scheduler /\ leftover' = FALSE
    /\ UNCHANGED <<cronVars, leaseVars, task, up, left>>

\* Outside the active window, or with its conditions unmet, the loop skips the
\* wakeup and writes that same row back.
HeartSkips(c) ==
    /\ c \in HeartLoops /\ At(c, "sleep") /\ Event
    /\ Become(c, Rest)
    /\ Restores(caller[c].hb)
    /\ UNCHANGED <<cronVars, leaseVars, task, up>>

\* The wakeup command: refused while the marked process lives, else it marks.
\* Its PID is new: no copy of the row has it.
WakeCall(c) ==
    /\ c \in WakeCommands /\ At(c, "off") /\ Event
    /\ ~Alive(mark)
    /\ \A d \in Callers : c \notin {caller[d].hb, caller[d].row}
    /\ mark' = c /\ leftover' = FALSE
    /\ Become(c, [Rest EXCEPT !.pc = "fire"])
    /\ UNCHANGED <<cronVars, leaseVars, task, up>>

\* The run command picks its task and reads the heartbeat row before it asks for
\* the session.
RunCall(c) ==
    /\ c \in RunCommands /\ At(c, "off") /\ Event
    /\ \E t \in Pending :
          Become(c, [Rest EXCEPT !.pc = "look", !.hb = mark, !.task = t,
                                 !.tries = task[t].retries])
    /\ UNCHANGED <<cronVars, leaseVars, task, mark, leftover, up>>

-----------------------------------------------------------------------------
(* fireDueCrons, under the mutex of the process. *)

\* dueCronSlot: the newest slot, when it is after the one last consumed.
Due == cron.enabled /\ slot > cron.lastRun

\* The callers that may begin to fire: a cycle that just woke, and the minute
\* ticks of the cron loop and of the sleeping heartbeat loop.
MayFire(c) == \/ At(c, "fire")
              \/ c \in CronLoops /\ At(c, "off")
              \/ c \in HeartLoops /\ At(c, "sleep")

Firing(c) == caller[c].pc \in FiringPcs
Unlock(c) == mutex' = [mutex EXCEPT ![ProcOf(c)] = Nobody]

\* variant: archived tasks are not looked at.
SlotTakenByActive(s) ==
    \E t \in TaskIds : task[t].status \notin {"closed", "absent"} /\ task[t].slot = s

\* cronTaskExists: a task with this slot's idempotency key, active or archived.
SlotTaken(s) == \E t \in TaskIds : task[t].status # "absent" /\ task[t].slot = s

\* The list is read and the slot looked up; a slot that has its task is only
\* to be marked as consumed.  An error of the list of tasks that has it is
\* ignored: the slot counts as one without a task.
FireRead(c) ==
    /\ MayFire(c) /\ Due /\ mutex[ProcOf(c)] = Nobody
    /\ mutex' = [mutex EXCEPT ![ProcOf(c)] = c]
    /\ \E found \in BOOLEAN :
          /\ IF found = SlotTaken(slot) THEN UNCHANGED <<left, unseen>>
             ELSE ~found /\ Event /\ unseen' = unseen \cup {slot}
          /\ Become(c, [caller[c] EXCEPT
                           !.pc = IF found THEN "save" ELSE "put",
                           !.saw = cron, !.due = slot, !.task = Nobody])
    /\ raced' = (raced \/ \E d \in Callers : Firing(d) /\ ProcOf(d) # ProcOf(c))
    /\ UNCHANGED <<slot, cron, editor, leaseVars, task, mark, leftover, up>>

\* Nothing is due, or the list cannot be read: only a cycle that woke goes on,
\* the ticks stay where they are.
FireNone(c) ==
    /\ At(c, "fire") /\ mutex[ProcOf(c)] = Nobody
    /\ IF Due THEN Event ELSE UNCHANGED left
    /\ Goto(c, "look")
    /\ UNCHANGED <<cronVars, leaseVars, task, mark, leftover, up>>

\* What follows a firing that enqueued nothing: a tick returns to its wait.
AfterNothing(c) == [caller[c] EXCEPT
    !.pc = IF c \in CronLoops \/ caller[c].back = "sleep" THEN caller[c].back
           ELSE "look",
    !.saw = Nobody, !.due = 0]

\* AddTask, which refuses a key that an active task has.
FirePut(c) ==
    /\ At(c, "put")
    /\ ~\E t \in TaskIds : /\ task[t].status \notin {"closed", "absent"}
                           /\ task[t].slot = caller[c].due
    /\ Unused # {}
    /\ task' = [task EXCEPT ![FreshTask] =
                  [status |-> "pending", slot |-> caller[c].due, retries |-> 0]]
    /\ Become(c, [caller[c] EXCEPT !.pc = "save", !.task = FreshTask])
    /\ UNCHANGED <<cronVars, leaseVars, mark, leftover, up, left>>

\* variant: a slot whose task could not be created is marked as consumed.
FireRefusedConsumed(c) ==
    /\ At(c, "put") /\ Event
    /\ cron' = [caller[c].saw EXCEPT !.lastRun = caller[c].due]
    /\ Become(c, AfterNothing(c))
    /\ Unlock(c)
    /\ UNCHANGED <<slot, editor, raced, unseen, leaseVars, task, mark, leftover, up>>

\* variant: the early return leaves the mutex locked.
FireRefusedLocked(c) ==
    /\ At(c, "put") /\ Event
    /\ Become(c, AfterNothing(c))
    /\ UNCHANGED <<cronVars, leaseVars, task, mark, leftover, up>>

\* AddTask fails, for a key in use or a database error: the slot stays due.
FireRefused(c) ==
    /\ At(c, "put")
    /\ \/ /\ \E t \in TaskIds : /\ task[t].status \notin {"closed", "absent"}
                                /\ task[t].slot = caller[c].due
          /\ UNCHANGED left
       \/ Event
    /\ Become(c, AfterNothing(c))
    /\ Unlock(c)
    /\ UNCHANGED <<slot, cron, editor, raced, unseen, leaseVars, task, mark, leftover, up>>

\* SaveCrons writes the whole list that was read, with LastRun at the slot; its
\* error is ignored.
FireSave(c) ==
    /\ At(c, "save")
    /\ \/ cron' = [caller[c].saw EXCEPT !.lastRun = caller[c].due] /\ UNCHANGED left
       \/ Event /\ UNCHANGED cron
    /\ Become(c, IF caller[c].task = Nobody THEN AfterNothing(c)
                 ELSE [caller[c] EXCEPT !.pc = "look", !.saw = Nobody,
                                        !.due = 0, !.task = Nobody])
    /\ Unlock(c)
    /\ UNCHANGED <<slot, editor, raced, unseen, leaseVars, task, mark, leftover, up>>

-----------------------------------------------------------------------------
(* acquireCLIInteraction, Release, Fail, SetRuntimeSessionID. *)

\* ActiveInteractionSessionForWorker: the active session updated last.
Newest(k) ==
    /\ lease[k].by # Nobody
    /\ \A j \in Kinds : lease[j].by # Nobody => lease[j].stale \/ ~lease[k].stale

\* variant: no session is ever stale.
RecoverableNever(c, k) == FALSE

\* shouldRecoverStaleCLIInteraction: only between scheduler cycles.
Recoverable(c, k) == KindOf(c) = "scheduler" /\ k = "scheduler" /\ lease[k].stale

\* A session ends that its owner may still be using.
Rob(k) == robbed' = robbed \cup ({lease[k].by} \cap Callers)

\* SetRuntimeSessionID rewrites c's own row as active: it revives a session
\* that was taken from c, unless the unique index refuses.
Refreshed(c) == [k \in Kinds |->
    IF k = KindOf(c) /\ lease[k].by \in {c, Nobody}
    THEN [by |-> c, stale |-> FALSE] ELSE lease[k]]

\* variant: an interrupted run command exits without its deferred Release.
FreedUnlessInterrupted(c) == [k \in Kinds |->
    IF lease[k].by = c /\ caller[c].result # "interrupted"
    THEN NoSession ELSE lease[k]]

\* The rows when c completes or fails its own session.
Freed(c) == [k \in Kinds |-> IF lease[k].by = c THEN NoSession ELSE lease[k]]

\* The heartbeat loop, at its wakeup, and the wakeup command mark themselves.
Marked(c) == c \in HeartLoops \cup WakeCommands /\ caller[c].back = "off"

\* The caller returns from its cycle or its command: the deferred Release.
Return(c) ==
    /\ lease' = Freed(c)
    /\ robbed' = robbed \ {c}
    /\ Become(c, IF Marked(c) THEN [Rest EXCEPT !.pc = "clear"]
                 ELSE IF caller[c].back = "off" THEN Rest
                 ELSE Waiting("sleep", caller[c].hb))

\* Then the mark is cleared, in the row as it is now, whoever set it.  When that
\* fails, the mark of a command goes with its process.
Clear(c) ==
    /\ At(c, "clear")
    /\ \/ mark' = Nobody /\ leftover' = FALSE /\ UNCHANGED left
       \/ /\ Event
          /\ mark' = IF mark \in WakeCommands \cap {c} THEN Nobody ELSE mark
          /\ leftover' = (leftover \/ mark = ProcOf(c))
    /\ Become(c, Rest)
    /\ UNCHANGED <<cronVars, leaseVars, task, up>>

\* The lookup, with the stale session it finds set to failed.
Look(c) ==
    /\ At(c, "look")
    /\ \/ /\ \A k \in Kinds : lease[k].by = Nobody
          /\ Goto(c, "create")
          /\ UNCHANGED leaseVars
       \/ \E k \in Kinds :
            /\ Newest(k) /\ Recoverable(c, k)
            /\ lease' = [lease EXCEPT ![k] = NoSession]
            /\ Rob(k)
            /\ Goto(c, "create")
       \/ \E k \in Kinds :
            /\ Newest(k) /\ ~Recoverable(c, k)
            /\ Return(c)
    /\ UNCHANGED <<cronVars, task, mark, leftover, up, left>>

Taken(c) ==
    /\ lease' = [lease EXCEPT ![KindOf(c)] = [by |-> c, stale |-> FALSE]]
    /\ Rob(KindOf(c))
    /\ Goto(c, IF c \in RunCommands THEN "start" ELSE "next")

\* variant: no unique index, so a second session of a kind is inserted beside
\* the first.
CreateUnchecked(c) ==
    /\ At(c, "create")
    /\ lease' = [lease EXCEPT ![KindOf(c)] = [by |-> c, stale |-> FALSE]]
    /\ Goto(c, IF c \in RunCommands THEN "start" ELSE "next")
    /\ UNCHANGED <<cronVars, robbed, task, mark, leftover, up, left>>

\* The insert; when the unique index refuses it the lookup is made again and
\* its stale session replaced, or the caller is told that the agent is busy.
Create(c) ==
    LET k == KindOf(c) IN
    /\ At(c, "create")
    /\ IF lease[k].by = Nobody \/ (Newest(k) /\ Recoverable(c, k))
       THEN Taken(c) ELSE Return(c)
    /\ UNCHANGED <<cronVars, task, mark, leftover, up, left>>

-----------------------------------------------------------------------------
(* runAllPendingTasks, and the one task of the run command. *)

\* nextPendingTask; the order of priorities is left open.
NextTask(c) ==
    /\ At(c, "next") /\ Cardinality(caller[c].seen) < MaxTasksPerCycle
    /\ \E t \in Pending \ caller[c].seen :
          Become(c, [caller[c] EXCEPT !.pc = "start", !.task = t,
                                      !.tries = task[t].retries,
                                      !.seen = @ \cup {t}])
    /\ UNCHANGED <<cronVars, leaseVars, task, mark, leftover, up, left>>

\* The cycle ends after one task or more: nothing is pending, a limit of tasks
\* or of minutes is reached, or a task was returned a second time.
CycleEnds(c) ==
    /\ At(c, "next") /\ caller[c].seen # {}
    /\ Return(c)
    /\ UNCHANGED <<cronVars, task, mark, leftover, up, left>>

\* Nothing was pending: the idle wakeup routine runs.  Its task is created,
\* run and archived within the routine and is not modelled as a row.
IdleStart(c) ==
    /\ At(c, "next") /\ Pending = {} /\ caller[c].seen = {}
    /\ Goto(c, "idle")
    /\ UNCHANGED <<cronVars, leaseVars, task, mark, leftover, up, left>>

IdleEnds(c) ==
    /\ At(c, "idle")
    /\ Return(c)
    /\ UNCHANGED <<cronVars, task, mark, leftover, up, left>>

\* UpdateTask: the whole record as it was picked, now in progress.
Start(c) ==
    /\ At(c, "start")
    /\ task' = [task EXCEPT ![caller[c].task] =
                  [@ EXCEPT !.status = "in_progress",
                            !.retries = caller[c].tries]]
    /\ Goto(c, "run")
    /\ UNCHANGED <<cronVars, leaseVars, mark, leftover, up, left>>

\* The agent itself closes its task or asks for confirmation while it runs.
AgentReports(c) ==
    /\ At(c, "run") /\ task[caller[c].task].status = "in_progress"
    /\ \E s \in {"closed", "awaiting"} :
          task' = [task EXCEPT ![caller[c].task] =
                     IF s = "closed" THEN Closed(@)
                     ELSE [@ EXCEPT !.status = "awaiting"]]
    /\ UNCHANGED <<cronVars, leaseVars, mark, leftover, up, caller, left>>

\* The heartbeat row is loaded to store a field of it, and saved whole by RowSave.
RowRead(c) == [caller[c] EXCEPT !.pc = "row", !.row = mark]

\* The run could not resume its provider session, which is forgotten.
ClearSession(c) ==
    /\ At(c, "run") \/ At(c, "idle")
    /\ Event
    /\ Become(c, RowRead(c))
    /\ UNCHANGED <<cronVars, leaseVars, task, mark, leftover, up>>

\* The idle run came with a session of the provider, which is stored.
IdleSession(c) ==
    /\ At(c, "idle") /\ caller[c].result = "none"
    /\ Become(c, [RowRead(c) EXCEPT !.result = "ended"])
    /\ lease' \in {Refreshed(c), lease}
    /\ UNCHANGED <<cronVars, robbed, task, mark, leftover, up, left>>

\* RunTask returns.  A result may carry a new session; the run command stores it
\* by saving the row that it read before it asked for the lock.
RunEnds(c) ==
    /\ At(c, "run")
    /\ \/ \E r \in {"ended", "failed"} :
             /\ Become(c, [caller[c] EXCEPT !.pc = "check", !.result = r])
             /\ \/ /\ lease' = Refreshed(c)
                   /\ \/ c \in RunCommands /\ Restores(caller[c].hb)
                      \/ UNCHANGED <<mark, leftover>>
                \/ UNCHANGED <<lease, mark, leftover>>
       \/ \E r \in {"error", "interrupted"} :
             /\ r = "interrupted" => c \in RunCommands
             /\ Become(c, [caller[c] EXCEPT !.pc = "check", !.result = r])
             /\ UNCHANGED <<lease, mark, leftover>>
    /\ UNCHANGED <<cronVars, task, up, left, robbed>>

\* What follows a task: the run command and a cycle whose run failed to
\* execute return, any other cycle goes on to the next task.
AfterTask(c, over) ==
    IF over THEN Return(c)
    ELSE /\ Become(c, [caller[c] EXCEPT !.pc = "next", !.task = Nobody,
                                        !.tries = 0, !.result = "none"])
         /\ UNCHANGED leaseVars

\* taskHandledDuringRun: a task no longer in progress was settled by others.
Handled(c) ==
    /\ At(c, "check") /\ task[caller[c].task].status # "in_progress"
    /\ AfterTask(c, c \in RunCommands)
    /\ UNCHANGED <<cronVars, task, mark, leftover, up, left>>

\* Where a caller goes on that has stored what it had to.
Resumes(c) == IF caller[c].task = Nobody THEN "idle"
              ELSE IF caller[c].result = "none" THEN "run" ELSE "settle"
OfCron(c) == caller[c].task # Nobody /\ task[caller[c].task].slot > 0

\* After the row comes the cron list, which a cycle reads: to store the status of
\* a cron's run, or to forget the sessions of crons as well.
ReadsCrons(c) == c \in Cycles /\ (caller[c].result = "none" \/ OfCron(c))
GoesOn(c) ==
    \/ /\ ReadsCrons(c)
       /\ Become(c, [caller[c] EXCEPT !.pc = "save_crons", !.row = Nobody, !.saw = cron])
    \/ /\ ~ReadsCrons(c) \/ caller[c].result = "none"
       /\ Become(c, [caller[c] EXCEPT !.pc = Resumes(c), !.row = Nobody])

\* The run's outcome is the cycle's to record, and its session if it has one.
NotHandled(c) ==
    /\ At(c, "check") /\ task[caller[c].task].status = "in_progress"
    /\ IF caller[c].result = "error" THEN Goto(c, "fail")
       ELSE GoesOn(c) \/ (c \in Cycles /\ Become(c, RowRead(c)))
    /\ UNCHANGED <<cronVars, leaseVars, task, mark, leftover, up, left>>

RowSave(c) ==
    /\ At(c, "row")
    /\ Restores(caller[c].row) /\ GoesOn(c)
    /\ UNCHANGED <<cronVars, leaseVars, task, up, left>>

\* The list is written back whole, outside the mutex; an error is ignored.
SaveCrons(c) ==
    /\ At(c, "save_crons")
    /\ \/ cron' = caller[c].saw /\ UNCHANGED left
       \/ Event /\ UNCHANGED cron
    /\ Become(c, [caller[c] EXCEPT !.pc = Resumes(c), !.saw = Nobody])
    /\ UNCHANGED <<slot, mutex, editor, raced, unseen, leaseVars, task, mark, leftover, up>>

\* An execution error fails the session before the task is archived.
FailLease(c) ==
    /\ At(c, "fail")
    /\ lease' = Freed(c)
    /\ Goto(c, "settle")
    /\ UNCHANGED <<cronVars, robbed, task, mark, leftover, up, left>>

\* The records the result may leave: closed, or pending again for a retry or
\* after an interrupt; the run command leaves a task that awaits confirmation.
Settled(c, t) ==
    LET r == caller[c].result
        n == caller[c].tries IN
    IF r = "interrupted" THEN {[t EXCEPT !.status = "pending", !.retries = n]}
    ELSE IF r = "failed" /\ n < MaxRetries
    THEN {[t EXCEPT !.status = "pending", !.retries = n + 1]}
    ELSE IF r = "ended" /\ c \in RunCommands
    THEN {Closed(t), [t EXCEPT !.status = "awaiting", !.retries = n]}
    ELSE {Closed(t)}

Settle(c) ==
    /\ At(c, "settle")
    /\ \E t \in Settled(c, task[caller[c].task]) :
          task' = [task EXCEPT ![caller[c].task] = t]
    /\ AfterTask(c, c \in RunCommands \/ caller[c].result = "error")
    /\ UNCHANGED <<cronVars, mark, leftover, up, left>>

-----------------------------------------------------------------------------
(* Time, people, and what can die. *)

Tick ==
    /\ slot < MaxSlot /\ slot' = slot + 1
    /\ UNCHANGED <<cron, mutex, editor, raced, unseen, leaseVars, task, mark, leftover, up,
                   caller, left>>

\* Two minutes pass since the session's last activity; a run records none.
Age(k) ==
    /\ lease[k].by # Nobody /\ ~lease[k].stale
    /\ IF lease[k].by = Gone THEN UNCHANGED left ELSE Event
    /\ lease' = [lease EXCEPT ![k].stale = TRUE]
    /\ UNCHANGED <<cronVars, task, mark, leftover, up, caller, robbed>>

PersonAdds ==
    /\ Event
    /\ Unused # {}
    /\ task' = [task EXCEPT ![FreshTask] = [NoTask EXCEPT !.status = "pending"]]
    /\ UNCHANGED <<cronVars, leaseVars, mark, leftover, up, caller>>

PersonCancels ==
    /\ Event
    /\ \E t \in TaskIds :
          /\ task[t].status \in {"pending", "in_progress"}
          /\ task' = [task EXCEPT ![t] = Closed(@)]
    /\ UNCHANGED <<cronVars, leaseVars, mark, leftover, up, caller>>

\* setCronEnabled: the whole list is read, and later written.
EditRead ==
    /\ editor = Nobody /\ Event
    /\ editor' = cron
    /\ UNCHANGED <<slot, cron, mutex, raced, unseen, leaseVars, task, mark, leftover, up, caller>>

EditSave ==
    /\ editor # Nobody /\ editor' = Nobody
    /\ \E e \in BOOLEAN : cron' = [editor EXCEPT !.enabled = e]
    /\ UNCHANGED <<slot, mutex, raced, unseen, leaseVars, task, mark, leftover, up, caller, left>>

\* A copy of the heartbeat row that names a dead process names nobody.
Without(r, p) == [r EXCEPT !.hb = IF @ = p THEN Nobody ELSE @,
                           !.row = IF @ = p THEN Nobody ELSE @]

\* A process dies: its callers stop, its sessions stay active, its PID is dead.
Crash(p) ==
    LET dead == {c \in Callers : ProcOf(c) = p} IN
    /\ \E c \in dead : caller[c].pc \notin {"off", "sleep"}
    /\ IF p = Scheduler THEN Event ELSE UNCHANGED left
    /\ caller' = [c \in Callers |-> IF c \in dead THEN Rest ELSE Without(caller[c], p)]
    /\ lease' = [k \in Kinds |-> IF lease[k].by \in dead
                                 THEN [lease[k] EXCEPT !.by = Gone]
                                 ELSE lease[k]]
    /\ mutex' = [mutex EXCEPT ![p] = Nobody]
    /\ mark' = IF mark = p THEN Nobody ELSE mark
    /\ leftover' = (leftover /\ mark # p)
    /\ up' = (up /\ p # Scheduler)
    /\ robbed' = robbed \ dead
    /\ UNCHANGED <<slot, cron, editor, raced, unseen, task>>

SchedulerStarts ==
    /\ ~up /\ up' = TRUE
    /\ UNCHANGED <<cronVars, leaseVars, task, mark, leftover, caller, left>>

\* failStaleInteractionSessionsOnStartup: every active session is failed.
ServerStarts ==
    /\ Event
    /\ \E k \in Kinds : lease[k].by # Nobody
    /\ robbed' = robbed \cup ({lease[k].by : k \in Kinds} \cap Callers)
    /\ lease' = [k \in Kinds |-> NoSession]
    /\ UNCHANGED <<cronVars, task, mark, leftover, up, caller>>

-----------------------------------------------------------------------------
\* What a caller does by itself once it has begun.
Fire(c) == FireRead(c) \/ FireNone(c)
Step(c) ==
    \/ FirePut(c) \/ FireRefused(c) \/ FireSave(c)
    \/ Look(c) \/ Create(c) \/ NextTask(c) \/ CycleEnds(c)
    \/ IdleStart(c) \/ IdleSession(c) \/ IdleEnds(c) \/ Start(c) \/ RunEnds(c)
    \/ Handled(c) \/ NotHandled(c) \/ RowSave(c) \/ SaveCrons(c) \/ FailLease(c)
    \/ Settle(c) \/ Clear(c)

Next ==
    \/ \E c \in Callers :
          \/ HeartLook(c) \/ HeartPlan(c) \/ HeartWake(c) \/ HeartSkips(c)
          \/ WakeCall(c) \/ RunCall(c)
          \/ Fire(c) \/ Step(c) \/ AgentReports(c) \/ ClearSession(c)
    \/ Tick \/ PersonAdds \/ PersonCancels \/ EditRead \/ EditSave
    \/ \E k \in Kinds : Age(k)
    \/ \E p \in Procs : Crash(p)
    \/ SchedulerStarts \/ ServerStarts

Spec == Init /\ [][Next]_vars

\* A caller that has begun goes on, and a run of the agent ends; the heartbeat
\* sleeps for a bounded time; schedulerCronMu is a fair mutex; the session of a
\* dead process gets old.
Fairness ==
    /\ \A c \in Callers : WF_vars(Step(c))
    /\ \A c \in Cycles : SF_vars(Fire(c))
    /\ \A c \in HeartLoops :
          WF_vars(HeartLook(c) \/ HeartPlan(c)) /\ SF_vars(HeartWake(c))
    /\ WF_vars(Age("scheduler") /\ lease["scheduler"].by = Gone)

FairSpec == Spec /\ Fairness

-----------------------------------------------------------------------------
Working(c) == caller[c].pc \in {"next", "start", "run", "idle"}
Settling(c) == caller[c].pc \in {"check", "row", "save_crons", "fail", "settle"}

\* A calendar slot is enqueued at most once, across restarts, failed writes
\* and stale writes of the cron list, as long as no two processes were inside
\* fireDueCrons together (the mutex is a process's own) and no lookup of this
\* slot's task failed (cronTaskExists answers as if there were none).
SlotOnce ==
    raced \/ \A t, u \in TaskIds :
        task[t].slot > 0 /\ task[t].slot = task[u].slot =>
            t = u \/ task[t].slot \in unseen

\* A slot that the stored cron counts as consumed has its task: a crash or an
\* AddTask error between the two writes never loses the slot.
ConsumedHasTask ==
    cron.lastRun > 0 => \E t \in TaskIds : task[t].slot = cron.lastRun

\* Nothing is held for nobody: a locked mutex has a caller inside fireDueCrons,
\* an active session of a live caller is released when that caller returns, and
\* whom the heartbeat row calls running is in the cycle that clears the mark,
\* unless the mark was put back by a save of the whole row from an older copy or
\* its clearing failed.  Other errors, refusals, revived sessions and crashes
\* leave nothing behind but sessions of the dead.
HeldIsInUse ==
    /\ \A p \in Procs : mutex[p] # Nobody =>
          ProcOf(mutex[p]) = p /\ Firing(mutex[p])
    /\ \A k \in Kinds : lease[k].by \in Callers =>
          /\ KindOf(lease[k].by) = k
          /\ Working(lease[k].by) \/ Settling(lease[k].by)
    /\ mark # Nobody /\ ~leftover =>
          \E c \in HeartLoops \cup WakeCommands :
             /\ ProcOf(c) = mark
             /\ caller[c].back = "off" /\ caller[c].pc \notin {"off", "plan", "sleep"}

\* Two scheduler cycles run the agent together only when one of them lost its
\* session while it was working, to the two-minute rule or to a start of the
\* API server.
OverlapOnlyAfterRobbery ==
    \A c, d \in Cycles :
        Working(c) /\ Working(d) => c = d \/ {c, d} \cap robbed # {}

\* "Only one run at a time per agent (no overlap)."
Running(c) == caller[c].pc \in {"run", "idle"}
OneRunAtATime == \A c, d \in Cycles : Running(c) /\ Running(d) => c = d

\* A slot that comes due is enqueued, that one or a newer one, unless the cron
\* is disabled or the scheduler process is down.
DueSlotFires ==
    \A s \in 1..MaxSlot :
        slot = s ~> \/ \E t \in TaskIds : task[t].slot >= s
                    \/ ~cron.enabled \/ ~up

\* A pending task is run, unless the scheduler is down, a run command died
\* holding its session, which only a start of the API server ends, or the
\* scheduler's own mark was put back in the row or never cleared: then its
\* heartbeat loop takes itself for another process that is still running.
PendingRuns ==
    \A t \in TaskIds :
        task[t].status = "pending" ~>
            \/ task[t].status # "pending" \/ ~up
            \/ lease["manual"].by = Gone
            \/ leftover /\ mark = Scheduler
=============================================================================
